----------------------------- MODULE FormProofs -----------------------------
(***************************************************************************)
(* Theorems about Form, for any types and texts, if the user waits for the  *)
(* effects of one event before the next: Patient.                           *)
(***************************************************************************)
EXTENDS Form, TLAPS

-----------------------------------------------------------------------------
(* Fields, validators and items *)

LEMMA FieldFacts ==
    /\ "login" \in Types
    /\ \A t : "title" \in Boxes(t) /\ "title" \in Fields(t)
    /\ \A t, f : f \in Boxes(t) <=> f \in Fields(t) /\ f \notin Password
  BY TypesAssumption DEF Boxes, Fields, Password

LEMMA TextFacts == "" \in Texts /\ Generated \in Texts /\ Generated # ""
  BY TextsAssumption

LEMMA Validators ==
    ASSUME NEW f, NEW v
    PROVE  /\ f \notin Password => (Accepts(f, v) <=> Validate(f, v))
           /\ f \in Password => (Accepts(f, v) <=> Filled(f, v))
           /\ Accepts(f, "") <=> Filled(f, "")
           /\ Accepts(f, v) => Filled(f, v)
           /\ ~Filled("title", "")
           /\ v # "" => Filled(f, v)
  BY DEF Filled, Validate, Accepts, Required

LEMMA ItemParts ==
    ASSUME NEW it \in Item
    PROVE  it.type \in Types /\ it.content \in [Fields(it.type) -> Texts]
  BY DEF Item

LEMMA ItemOfParts ==
    ASSUME NEW t \in Types, NEW c \in [Fields(t) -> Texts]
    PROVE  [type |-> t, content |-> c] \in Item
  BY DEF Item

LEMMA ItemEntered ==
    ASSUME NEW it \in Item, NEW f \in Fields(it.type), NEW v \in Texts
    PROVE  LET new == [it EXCEPT !.content[f] = v] IN
           /\ new \in Item
           /\ new.type = it.type
           /\ new.content[f] = v
           /\ \A g \in Fields(it.type) : g # f => new.content[g] = it.content[g]
  <1>1. PICK t \in Types : it \in [type : {t}, content : [Fields(t) -> Texts]]
    BY DEF Item
  <1>2. it = [type |-> t, content |-> it.content] /\ it.content \in [Fields(t) -> Texts]
    BY <1>1
  <1>3. [it EXCEPT !.content[f] = v] = [type |-> t, content |-> [it.content EXCEPT ![f] = v]]
    BY <1>2
  <1>4. [it.content EXCEPT ![f] = v] \in [Fields(t) -> Texts]
    BY <1>2
  <1> QED BY <1>2, <1>3, <1>4, ItemOfParts

\* What a dialog opens with, whose fields are valid.
Fresh(it) == IF it = None THEN [type |-> "login", content |-> Empty("login")] ELSE it

LEMMA EmptyContent ==
    ASSUME NEW t \in Types
    PROVE  /\ Empty(t) \in [Fields(t) -> Texts]
           /\ \A f \in Fields(t) : Empty(t)[f] = ""
  BY TextFacts DEF Empty

LEMMA FreshItem ==
    ASSUME NEW it \in Items \cup {None}
    PROVE  /\ Fresh(it) \in Item
           /\ it # None => \A f \in Fields(it.type) : Accepts(f, it.content[f])
  <1>1. CASE it = None
    BY <1>1, EmptyContent, FieldFacts, ItemOfParts DEF Fresh
  <1>2. CASE it \in Items /\ it # None
    <2>1. PICK t \in Types : it \in [type : {t}, content : [Fields(t) -> Stored]]
      BY <1>2 DEF Items
    <2>2. it = [type |-> t, content |-> it.content] /\ it.content \in [Fields(t) -> Texts]
      BY <2>1, TextsAssumption
    <2> QED BY <1>2, <2>2, ItemOfParts DEF Fresh, Items
  <1> QED BY <1>1, <1>2

-----------------------------------------------------------------------------
(* The inductive invariant *)

Generators == [open : BOOLEAN, pools : SUBSET Pools, preview : {"", Generated}, due : BOOLEAN]
Selects == [value : Types, prev : Types, told : Types \cup {None}]

\* TypeOK, with records as records.
FormType ==
    /\ mode \in {"add", "edit"}
    /\ open \in BOOLEAN /\ formValid \in BOOLEAN /\ seed \in BOOLEAN /\ saving \in BOOLEAN
    /\ type \in Types
    /\ inputs \in [Fields(type) -> InputState]
    /\ gen \in Generators

Unopened == box = <<>> /\ select = None /\ intent = None /\ item = None /\ ~seed /\ gen = NoGenerator

Opened ==
    /\ box \in [Boxes(type) -> Box]
    /\ select \in Selects
    /\ intent \in Item
    /\ IF mode = "add" THEN item = None ELSE item \in Items /\ item # None

ShownType == (open => Opened) /\ (~open => Unopened)

\* Nothing is due but the preview of the generator.
Rest ==
    /\ ~seed
    /\ select.told = select.value /\ select.prev = type
    /\ \A f \in Boxes(type) : ~Reports(f) /\ ~Adopts(f)

\* The form knows which of its values are valid.
FormInv ==
    /\ \A f \in Fields(type) : inputs[f].isValid <=> Accepts(f, inputs[f].value)
    /\ formValid <=> \A f \in Fields(type) : inputs[f].isValid

BoxInv == \A f \in Boxes(type) : box[f].isValid <=> Validate(f, box[f].value)

\* A dialog just opened over what the form was left with.
SeedInv ==
    /\ \A f \in Boxes(type) : box[f] = Mount(f, inputs)
    /\ select = [value |-> type, prev |-> type, told |-> None]
    /\ intent = Fresh(item)

\* An Input has what was entered, and what it reports the form will have; or it
\* has reported something else, and what was entered is about to be handed to it.
FieldInv(f) ==
    IF box[f].value = intent.content[f]
    THEN /\ box[f].told = Said(f) => inputs[f].value = intent.content[f]
         /\ Adopts(f) => box[f].told = Said(f)
    ELSE box[f].told = Said(f) /\ Adopts(f) /\ inputs[f].value = intent.content[f]

\* A type just picked.
PickInv ==
    /\ mode = "add"
    /\ select.value = intent.type /\ select.prev = type /\ select.told = type
    /\ intent.content = Empty(intent.type)
    /\ \A f \in Boxes(type) : ~Reports(f) /\ ~Adopts(f) /\ box[f].value = box[f].prev

\* The select, which is a step ahead of the form or behind it when a dialog opens
\* or a type was picked: all is empty then.
SelectInv ==
    /\ select.prev # type => select.told = select.value
    /\ select.prev = type => select.value = intent.type
    /\ select.told # select.value \/ select.value # type => intent.content = Empty(intent.type)

SameInv ==
    /\ mode = "add" => SelectInv
    /\ mode = "edit" => type = item.type
    /\ \A f \in Boxes(type) : FieldInv(f)
    /\ \A f \in Fields(type) : f \in Password => inputs[f].value = intent.content[f]

AgreeInv == (type = intent.type => SameInv) /\ (type # intent.type => PickInv)

GenInv ==
    /\ gen.due => gen.open
    /\ gen.open => open /\ Rest /\ "password" \in Fields(type)

FInv ==
    /\ FormType /\ ShownType
    /\ FormInv
    /\ open => BoxInv /\ (seed => SeedInv) /\ (~seed => AgreeInv)
    /\ GenInv

\* What an Input and the form hold.
LEMMA FieldTypes ==
    ASSUME FormType, ShownType, open, NEW f \in Boxes(type)
    PROVE  /\ inputs[f] \in InputState
           /\ box[f] \in Box
           /\ Value(f) = inputs[f].value
           /\ Said(f) \in InputState
  BY FieldFacts DEF FormType, ShownType, Opened, Value, Said, InputState, Box

\* When nothing is due, the user sees what was entered, and so does the form.
LEMMA RestAgrees ==
    ASSUME FInv, open, Rest
    PROVE  /\ type = intent.type
           /\ \A f \in Fields(type) : inputs[f].value = intent.content[f]
           /\ \A f \in Boxes(type) : box[f].value = intent.content[f]
           /\ mode = "add" => select.value = type
           /\ mode = "edit" => type = item.type
  <1>1. AgreeInv
    BY DEF FInv, Rest
  <1>2. type = intent.type /\ SameInv
    BY <1>1 DEF AgreeInv, PickInv, Rest
  <1>3. ASSUME NEW f \in Boxes(type)
        PROVE  box[f].value = intent.content[f] /\ inputs[f].value = intent.content[f]
    BY <1>2 DEF SameInv, FieldInv, Rest, Reports
  <1> QED BY <1>2, <1>3, FieldFacts DEF SameInv, SelectInv, Rest

LEMMA SettledRests == ASSUME FInv, open PROVE Settled <=> Rest /\ ~gen.due
  BY DEF FInv, ShownType, Opened, Settled, Rest

LEMMA InvariantImplies == FInv => TypeOK /\ ShownIsSaved
  <1> SUFFICES ASSUME FInv PROVE TypeOK /\ ShownIsSaved
    OBVIOUS
  <1>1. TypeOK
    <2>1. gen.open \in BOOLEAN /\ gen.due \in BOOLEAN /\ gen.pools \subseteq Pools
             /\ gen.preview \in {"", Generated}
      BY DEF FInv, FormType, Generators
    <2>2. CASE open
      BY <2>1, <2>2 DEF FInv, FormType, ShownType, Opened, Selects, TypeOK
    <2>3. CASE ~open
      BY <2>1, <2>3 DEF FInv, FormType, ShownType, Unopened, TypeOK
    <2> QED BY <2>2, <2>3 DEF FInv, FormType
  <1>2. ASSUME open, Settled
        PROVE  /\ type = intent.type
               /\ \A f \in Fields(type) : inputs[f].value = intent.content[f]
               /\ \A f \in Boxes(type) : box[f].value = intent.content[f]
               /\ formValid <=> \A f \in Fields(type) : Accepts(f, intent.content[f])
               /\ IF mode = "add" THEN select.value = type ELSE type = item.type
    <2>1. Rest
      BY <1>2, SettledRests
    <2>2. formValid <=> \A f \in Fields(type) : Accepts(f, inputs[f].value)
      BY DEF FInv, FormInv
    <2>3. mode \in {"add", "edit"}
      BY DEF FInv, FormType
    <2> QED BY <1>2, <2>1, <2>2, <2>3, RestAgrees
  <1> QED BY <1>1, <1>2 DEF ShownIsSaved

-----------------------------------------------------------------------------
(* The form filled from an item, and dialogs that open *)

LEMMA Built ==
    ASSUME NEW t \in Types, NEW c \in [Fields(t) -> Texts]
    PROVE  /\ BuildInitialInputs(t, c) \in [Fields(t) -> InputState]
           /\ \A f \in Fields(t) : /\ BuildInitialInputs(t, c)[f].value = c[f]
                                   /\ BuildInitialInputs(t, c)[f].isValid <=> Filled(f, c[f])
  <1>1. ASSUME NEW f \in Fields(t)
        PROVE  [value |-> c[f], isValid |-> Filled(f, c[f])] \in InputState
    BY DEF InputState, Filled
  <1> QED BY <1>1 DEF BuildInitialInputs

\* The form has what the item has, and knows whether that is valid.
LEMMA Seeded ==
    ASSUME NEW it \in Items \cup {None}, Seed(it)
    PROVE  /\ type' = Fresh(it).type
           /\ type' \in Types
           /\ inputs' \in [Fields(type') -> InputState]
           /\ formValid' \in BOOLEAN
           /\ \A f \in Fields(type') : inputs'[f].value = Fresh(it).content[f]
           /\ FormInv'
  <1>1. PICK t, c : t = Fresh(it).type /\ c = Fresh(it).content
    OBVIOUS
  <1>2. t \in Types /\ c \in [Fields(t) -> Texts]
    BY <1>1, FreshItem, ItemParts
  <1>3. type' = t /\ inputs' = BuildInitialInputs(t, c) /\ formValid' = (it # None)
    BY <1>1 DEF Seed, Fresh
  <1>4. /\ inputs' \in [Fields(t) -> InputState]
        /\ \A f \in Fields(t) : inputs'[f].value = c[f] /\ (inputs'[f].isValid <=> Filled(f, c[f]))
    BY <1>2, <1>3, Built
  <1>5. CASE it = None
    <2>1. \A f \in Fields(t) : c[f] = ""
      BY <1>1, <1>5, EmptyContent, FieldFacts DEF Fresh
    <2>2. ~formValid' /\ ~inputs'["title"].isValid
      BY <1>3, <1>4, <1>5, <2>1, FieldFacts, Validators
    <2>3. \A f \in Fields(t) : inputs'[f].isValid <=> Accepts(f, inputs'[f].value)
      BY <1>4, <2>1, Validators
    <2>4. FormInv'
      BY <1>3, <2>2, <2>3, FieldFacts DEF FormInv
    <2> QED BY <1>1, <1>2, <1>3, <1>4, <1>5, <2>4
  <1>6. CASE it # None
    <2>1. \A f \in Fields(t) : Accepts(f, c[f])
      BY <1>1, <1>6, FreshItem DEF Fresh
    <2>2. \A f \in Fields(t) : inputs'[f].isValid /\ Accepts(f, inputs'[f].value)
      BY <1>4, <2>1, Validators
    <2> QED BY <1>1, <1>2, <1>3, <1>4, <1>6, <2>2 DEF FormInv
  <1> QED BY <1>5, <1>6

\* An Input that is mounted has what the form has, and will report that.
LEMMA Mounted ==
    ASSUME NEW f, NEW i \in InputState, NEW ins, ins[f] = i
    PROVE  /\ Mount(f, ins) \in Box
           /\ Mount(f, ins).value = i.value
           /\ Mount(f, ins).isValid = i.isValid
           /\ Mount(f, ins).prev = i.value
  BY DEF Mount, InputState, Box

LEMMA InitInv == Init => FInv
  <1> SUFFICES ASSUME Init PROVE FInv
    OBVIOUS
  <1>1. /\ inputs \in [Fields("login") -> InputState]
        /\ \A f \in Fields("login") : inputs[f].value = "" /\ (inputs[f].isValid <=> Filled(f, ""))
    <2>1. PICK c : c = Empty("login")
      OBVIOUS
    <2>2. c \in [Fields("login") -> Texts] /\ \A f \in Fields("login") : c[f] = ""
      BY <2>1, FieldFacts, EmptyContent
    <2>3. inputs = BuildInitialInputs("login", c)
      BY <2>1 DEF Init
    <2>4. /\ inputs \in [Fields("login") -> InputState]
          /\ \A f \in Fields("login") : inputs[f].value = c[f] /\ (inputs[f].isValid <=> Filled(f, c[f]))
      BY <2>2, <2>3, FieldFacts, Built
    <2> QED BY <2>2, <2>4
  <1>2. gen \in Generators
    BY DEF Init, NoGenerator, Generators
  <1>3. FormType
    BY <1>1, <1>2, FieldFacts DEF Init, FormType
  <1>4. FormInv
    <2>1. ~inputs["title"].isValid /\ ~formValid
      BY <1>1, FieldFacts, Validators DEF Init
    <2> QED BY <1>1, <2>1, FieldFacts, Validators DEF Init, FormInv
  <1>5. ShownType /\ GenInv
    BY DEF Init, ShownType, Unopened, GenInv, NoGenerator
  <1> QED BY <1>3, <1>4, <1>5 DEF FInv, Init

LEMMA OpenInv ==
    ASSUME FInv, NEW it \in Items \cup {None}, Open(it)
    PROVE  FInv'
  <1>1. /\ ~open /\ open' /\ item' = it /\ mode' = mode /\ gen' = gen /\ saving' = saving
        /\ mode = IF it = None THEN "add" ELSE "edit"
        /\ intent' = Fresh(it)
        /\ box' = [f \in Boxes(type') |-> Mount(f, inputs')]
        /\ select' = [value |-> type', prev |-> type', told |-> None]
    BY DEF Open, Fresh
  <1>2. gen' = NoGenerator
    BY <1>1 DEF FInv, ShownType, Unopened
  <1>3. \/ Seed(it) /\ seed' = FALSE
        \/ seed' = TRUE /\ UNCHANGED form
    BY DEF Open
  <1>4. /\ type' \in Types /\ inputs' \in [Fields(type') -> InputState]
        /\ formValid' \in BOOLEAN
        /\ FormInv'
    <2>1. CASE Seed(it)
      BY <2>1, Seeded
    <2>2. CASE UNCHANGED form
      BY <2>2 DEF FInv, FormType, FormInv, form
    <2> QED BY <1>3, <2>1, <2>2
  <1>5. FormType'
    BY <1>1, <1>3, <1>4 DEF FInv, FormType
  <1>6. ASSUME NEW f \in Boxes(type')
        PROVE  /\ box'[f] = Mount(f, inputs') /\ box'[f] \in Box
               /\ box'[f].value = inputs'[f].value
               /\ box'[f].isValid = inputs'[f].isValid
               /\ box'[f].prev = inputs'[f].value
               /\ f \in Fields(type') /\ f \notin Password
               /\ f \in DOMAIN inputs'
    <2>1. f \in Fields(type') /\ f \notin Password
      BY FieldFacts
    <2>2. inputs'[f] \in InputState
      BY <1>4, <2>1
    <2>3. box'[f] = Mount(f, inputs')
      BY <1>1
    <2> QED BY <1>4, <2>1, <2>2, <2>3, Mounted
  <1>7. ShownType'
    <2>1. box' \in [Boxes(type') -> Box]
      BY <1>1, <1>6
    <2>2. select' \in Selects
      BY <1>1, <1>4 DEF Selects
    <2>3. Opened'
      BY <1>1, <2>1, <2>2, FreshItem DEF Opened
    <2> QED BY <1>1, <2>3 DEF ShownType
  <1>8. BoxInv'
    BY <1>4, <1>6, Validators DEF BoxInv, FormInv
  <1>9. seed' => SeedInv'
    BY <1>1, <1>6 DEF SeedInv
  <1>10. ~seed' => AgreeInv'
    <2> SUFFICES ASSUME Seed(it) PROVE AgreeInv'
      BY <1>3
    <2>1. /\ type' = intent'.type
          /\ \A f \in Fields(type') : inputs'[f].value = intent'.content[f]
      BY <1>1, Seeded
    <2>2. ASSUME NEW f \in Boxes(type') PROVE FieldInv(f)'
      BY <1>6, <2>1, FieldFacts DEF FieldInv, Adopts, Value
    <2>3. mode' = "add" => SelectInv'
      BY <1>1, <2>1 DEF SelectInv, Fresh
    <2>4. mode' = "edit" => type' = item'.type
      BY <1>1, <2>1 DEF Fresh
    <2> QED BY <2>1, <2>2, <2>3, <2>4 DEF AgreeInv, SameInv
  <1>11. GenInv'
    BY <1>2 DEF GenInv, NoGenerator
  <1> QED BY <1>4, <1>5, <1>7, <1>8, <1>9, <1>10, <1>11 DEF FInv

-----------------------------------------------------------------------------
(* The effects *)

\* What the form makes of the reports: what an Input reported, or nothing yet of a
\* type just picked, or what it had.
LEMMA HandledInputs ==
    ASSUME FInv, open, Handled,
           TypeChanges => select.value = type \/ \A f \in Boxes(type) : ~Reports(f)
    PROVE  /\ type' = IF TypeChanges THEN select.value ELSE type
           /\ type' \in Types
           /\ inputs' \in [Fields(type') -> InputState]
           /\ formValid' \in BOOLEAN
           /\ FormInv'
           /\ \A f \in Fields(type') :
                /\ f \in Boxes(type) /\ Reports(f) => inputs'[f] = Said(f)
                /\ ~(f \in Boxes(type) /\ Reports(f)) =>
                     IF TypeChanges THEN inputs'[f].value = "" ELSE inputs'[f] = inputs[f]
  <1> DEFINE reported == {f \in Boxes(type) : Reports(f)}
             base == IF TypeChanges THEN BuildInitialInputs(select.value, Empty(select.value)) ELSE inputs
             handled == [f \in reported \cup DOMAIN base |-> IF f \in reported THEN Said(f) ELSE base[f]]
  <1>1. /\ FormType /\ Opened /\ FormInv /\ BoxInv /\ ShownType
        /\ DOMAIN box = Boxes(type) /\ select.value \in Types
    BY DEF FInv, ShownType, Opened, Selects
  <1>2. /\ type' = IF TypeChanges THEN select.value ELSE type
        /\ inputs' = handled
        /\ formValid' = IF reported # {} THEN \A f \in DOMAIN handled : handled[f].isValid
                        ELSE formValid /\ ~TypeChanges
    BY <1>1 DEF Handled
  <1>3. type' \in Types /\ (~TypeChanges => type' = type)
    BY <1>1, <1>2 DEF FormType
  <1>4. reported \subseteq Fields(type')
    BY <1>2, <1>3, FieldFacts
  <1>5. /\ base \in [Fields(type') -> InputState]
        /\ \A f \in Fields(type') : base[f].isValid <=> Accepts(f, base[f].value)
        /\ TypeChanges => \A f \in Fields(type') : base[f].value = ""
    <2>1. CASE ~TypeChanges
      BY <1>1, <1>3, <2>1 DEF FormType, FormInv
    <2>2. CASE TypeChanges
      <3>1. PICK t \in Types : t = select.value
        BY <1>1
      <3>2. PICK c : c = Empty(t)
        OBVIOUS
      <3>3. c \in [Fields(t) -> Texts] /\ \A f \in Fields(t) : c[f] = ""
        BY <3>2, EmptyContent
      <3>4. base = BuildInitialInputs(t, c) /\ type' = t
        BY <1>2, <2>2, <3>1, <3>2
      <3>5. /\ base \in [Fields(t) -> InputState]
            /\ \A f \in Fields(t) : base[f].value = "" /\ (base[f].isValid <=> Filled(f, ""))
        <4>1. ASSUME NEW b, b = BuildInitialInputs(t, c)
              PROVE  /\ b \in [Fields(t) -> InputState]
                     /\ \A f \in Fields(t) : b[f].value = "" /\ (b[f].isValid <=> Filled(f, ""))
          <5>1. /\ b \in [Fields(t) -> InputState]
                /\ \A f \in Fields(t) : b[f].value = c[f] /\ (b[f].isValid <=> Filled(f, c[f]))
            BY <3>3, <4>1, Built
          <5> QED BY <3>3, <5>1
        <4> HIDE DEF base
        <4> QED BY <3>4, <4>1
      <3> HIDE DEF base
      <3> QED BY <3>4, <3>5, Validators
    <2> QED BY <2>1, <2>2
  <1> HIDE DEF base
  <1>6. ASSUME NEW f \in reported
        PROVE  Said(f) \in InputState /\ (Said(f).isValid <=> Accepts(f, Said(f).value))
    <2>1. f \in Boxes(type) /\ f \notin Password
      BY FieldFacts
    <2>2. Said(f).value = box[f].value /\ Said(f).isValid = box[f].isValid
      BY DEF Said
    <2> QED BY <1>1, <2>1, <2>2, FieldTypes, Validators DEF BoxInv
  <1> HIDE DEF reported
  <1>7. DOMAIN handled = Fields(type')
    BY <1>4, <1>5
  <1>8. ASSUME NEW f \in Fields(type')
        PROVE  /\ handled[f] \in InputState
               /\ handled[f].isValid <=> Accepts(f, handled[f].value)
               /\ f \in reported => handled[f] = Said(f)
               /\ f \notin reported => handled[f] = base[f]
    BY <1>4, <1>5, <1>6, <1>7
  <1>9. inputs' \in [Fields(type') -> InputState]
    BY <1>2, <1>7, <1>8
  <1>10. formValid' <=> \A f \in Fields(type') : inputs'[f].isValid
    <2>1. CASE reported # {}
      BY <1>2, <1>7, <2>1
    <2>2. CASE reported = {} /\ TypeChanges
      <3>1. ~formValid'
        BY <1>2, <2>2
      <3>2. handled["title"].value = ""
        BY <1>5, <1>8, <2>2, FieldFacts
      <3>3. ~handled["title"].isValid
        BY <1>8, <3>2, FieldFacts, Validators
      <3> QED BY <1>2, <3>1, <3>3, FieldFacts
    <2>3. CASE reported = {} /\ ~TypeChanges
      <3>1. formValid' <=> formValid
        BY <1>2, <2>3
      <3>2. \A f \in Fields(type') : inputs'[f] = inputs[f]
        BY <1>2, <1>8, <2>3 DEF base
      <3> QED BY <1>1, <1>3, <2>3, <3>1, <3>2 DEF FormInv
    <2> QED BY <2>1, <2>2, <2>3
  <1>11. formValid' \in BOOLEAN
    BY <1>1, <1>2 DEF FormType
  <1>12. FormInv'
    BY <1>2, <1>8, <1>10 DEF FormInv
  <1>13. ASSUME NEW f \in Fields(type')
         PROVE  /\ f \in Boxes(type) /\ Reports(f) => inputs'[f] = Said(f)
                /\ ~(f \in Boxes(type) /\ Reports(f)) =>
                     IF TypeChanges THEN inputs'[f].value = "" ELSE inputs'[f] = inputs[f]
    BY <1>2, <1>5, <1>8 DEF reported, base
  <1> QED BY <1>2, <1>3, <1>9, <1>11, <1>12, <1>13

LEMMA AdoptedBox ==
    ASSUME FInv, open, NEW f \in Boxes(type)
    PROVE  /\ Adopted(f) \in Box
           /\ Adopted(f).value = IF Adopts(f) THEN inputs[f].value ELSE box[f].value
           /\ Adopted(f).isValid <=> Validate(f, Adopted(f).value)
           /\ Adopted(f).prev = inputs[f].value
           /\ Adopted(f).told = Said(f)
  <1>1. /\ inputs[f] \in InputState /\ box[f] \in Box /\ Value(f) = inputs[f].value
        /\ Said(f) \in InputState
    BY FieldTypes DEF FInv
  <1>2. box[f].isValid <=> Validate(f, box[f].value)
    BY DEF FInv, BoxInv
  <1>3. CASE Adopts(f)
    <2>1. Adopted(f) = [value |-> Value(f), isValid |-> Validate(f, Value(f)),
                        prev |-> Value(f), told |-> Said(f)]
      BY <1>3 DEF Adopted
    <2>2. Validate(f, Value(f)) \in BOOLEAN
      BY DEF Validate
    <2>3. ASSUME NEW b \in BOOLEAN
          PROVE  [value |-> Value(f), isValid |-> b, prev |-> Value(f), told |-> Said(f)] \in Box
      BY <1>1 DEF Box, InputState
    <2> QED BY <1>1, <1>3, <2>1, <2>2, <2>3
  <1>4. CASE ~Adopts(f)
    <2>1. Adopted(f) = [value |-> box[f].value, isValid |-> box[f].isValid,
                        prev |-> box[f].prev, told |-> Said(f)]
      BY <1>1, <1>4 DEF Adopted, Box
    <2> QED BY <1>1, <1>2, <1>4, <2>1 DEF Box, Adopts
  <1> QED BY <1>3, <1>4

\* The Inputs after the effects: those of a new type are mounted, the others took
\* over what the form had.
LEMMA EffectsBoxes ==
    ASSUME FInv, Effects, type' \in Types, inputs' \in [Fields(type') -> InputState], FormInv'
    PROVE  /\ box' \in [Boxes(type') -> Box]
           /\ BoxInv'
           /\ \A f \in Boxes(type') :
                IF f = "title" \/ type' = type
                THEN f \in Boxes(type) /\ box'[f] = Adopted(f)
                ELSE /\ box'[f].value = inputs'[f].value
                     /\ box'[f].prev = inputs'[f].value
  <1>1. box' = [f \in Boxes(type') |-> IF f = "title" \/ type' = type THEN Adopted(f) ELSE Mount(f, inputs')]
    BY DEF Effects
  <1>2. ASSUME NEW f \in Boxes(type')
        PROVE  /\ box'[f] \in Box
               /\ box'[f].isValid <=> Validate(f, box'[f].value)
               /\ IF f = "title" \/ type' = type
                  THEN f \in Boxes(type) /\ box'[f] = Adopted(f)
                  ELSE /\ box'[f].value = inputs'[f].value
                       /\ box'[f].prev = inputs'[f].value
    <2>1. CASE f = "title" \/ type' = type
      <3>1. f \in Boxes(type) /\ box'[f] = Adopted(f)
        BY <1>1, <2>1, FieldFacts
      <3> QED BY <2>1, <3>1, AdoptedBox DEF Effects
    <2>2. CASE ~(f = "title" \/ type' = type)
      <3>1. box'[f] = Mount(f, inputs')
        BY <1>1, <2>2
      <3>2. f \in Fields(type') /\ f \notin Password
        BY FieldFacts
      <3>3. inputs'[f] \in InputState /\ (inputs'[f].isValid <=> Accepts(f, inputs'[f].value))
        BY <3>2 DEF FormInv
      <3>4. /\ box'[f] \in Box
            /\ box'[f].value = inputs'[f].value
            /\ box'[f].isValid = inputs'[f].isValid
            /\ box'[f].prev = inputs'[f].value
        BY <3>1, <3>3, Mounted
      <3> QED BY <2>2, <3>2, <3>3, <3>4, Validators
    <2> QED BY <2>1, <2>2
  <1> QED BY <1>1, <1>2 DEF BoxInv

\* After the effect that fills the form: what the Inputs were mounted with is
\* replaced, or agrees with it by chance.
LEMMA EffectsSeed ==
    ASSUME FInv, Effects, seed
    PROVE  AgreeInv'
  <1>1. open /\ Opened /\ SeedInv
    BY DEF Effects, FInv, ShownType
  <1>2. /\ item \in Items \cup {None} /\ Seed(item) /\ intent' = intent /\ mode' = mode /\ item' = item
        /\ intent = Fresh(item)
    BY <1>1 DEF Effects, Opened, SeedInv
  <1>3. /\ type' = intent.type /\ type' \in Types
        /\ inputs' \in [Fields(type') -> InputState] /\ FormInv'
        /\ \A f \in Fields(type') : inputs'[f].value = intent.content[f]
    BY <1>2, Seeded
  <1>4. ASSUME NEW f \in Boxes(type') PROVE FieldInv(f)'
    <2>0. f \in Fields(type') /\ Value(f)' = inputs'[f].value /\ inputs'[f].value = intent.content[f]
      BY <1>3, FieldFacts DEF Value
    <2>1. CASE f = "title" \/ type' = type
      <3>1. f \in Boxes(type) /\ box'[f] = Adopted(f)
        BY <1>3, <2>1, EffectsBoxes
      <3>0. box[f].value = inputs[f].value /\ box[f].prev = inputs[f].value
        <4>1. box[f] = Mount(f, inputs)
          BY <1>1, <3>1 DEF SeedInv
        <4> QED BY <4>1 DEF Mount
      <3>2. ~Adopts(f)
        BY <1>1, <3>0, <3>1, FieldTypes DEF FInv, Adopts
      <3>3. /\ box'[f].value = box[f].value /\ box'[f].isValid = box[f].isValid
            /\ box'[f].prev = inputs[f].value /\ box'[f].told = Said(f)
            /\ box[f].value = inputs[f].value
        <4>1. Adopted(f) = [box[f] EXCEPT !.told = Said(f)]
          BY <3>2 DEF Adopted
        <4>2. box[f] \in Box
          BY <1>1, <3>1, FieldTypes DEF FInv
        <4> QED BY <3>0, <3>1, <4>1, <4>2 DEF Box
      <3>4. Said(f)' = Said(f)
        BY <3>3 DEF Said
      <3>5. box'[f].value # intent.content[f] => Adopts(f)'
        BY <2>0, <3>3 DEF Adopts
      <3> QED BY <1>2, <2>0, <3>3, <3>4, <3>5 DEF FieldInv
    <2>2. CASE ~(f = "title" \/ type' = type)
      <3>1. box'[f].value = inputs'[f].value /\ box'[f].prev = inputs'[f].value
        BY <1>1, <1>3, <2>2, EffectsBoxes
      <3>2. ~Adopts(f)'
        BY <2>0, <3>1 DEF Adopts
      <3> QED BY <1>2, <2>0, <3>1, <3>2 DEF FieldInv
    <2> QED BY <2>1, <2>2
  <1>5. mode' = "add" => SelectInv'
    <2> SUFFICES ASSUME mode' = "add" PROVE SelectInv'
      OBVIOUS
    <2>1. item = None
      BY <1>1, <1>2 DEF Opened
    <2>2. intent.content = Empty(intent.type)
      BY <1>2, <2>1 DEF Fresh
    <2>3. select = [value |-> type, prev |-> type, told |-> None]
      BY <1>1 DEF SeedInv
    <2>4. select' = [value |-> type, prev |-> type, told |-> type]
      BY <2>3 DEF Effects
    <2> QED BY <1>2, <1>3, <2>2, <2>4 DEF SelectInv
  <1>6. mode' = "edit" => type' = item'.type
    BY <1>1, <1>2, <1>3 DEF Opened, Fresh
  <1> QED BY <1>2, <1>3, <1>4, <1>5, <1>6 DEF AgreeInv, SameInv

\* A form at the type that the user sees stays there, and every value comes to be
\* that which was entered.
LEMMA EffectsSame ==
    ASSUME FInv, Effects, ~seed, type = intent.type
    PROVE  /\ type' = type
           /\ type' \in Types /\ inputs' \in [Fields(type') -> InputState]
           /\ formValid' \in BOOLEAN /\ FormInv'
           /\ AgreeInv'
  <1>1. open /\ Opened /\ SameInv
    BY DEF Effects, FInv, ShownType, AgreeInv
  <1>2. Handled /\ intent' = intent /\ mode' = mode /\ item' = item
    BY DEF Effects
  <1>3. TypeChanges => mode = "add" /\ select.value = type /\ intent.content = Empty(type)
    BY <1>1 DEF TypeChanges, SameInv, SelectInv
  <1>4. /\ type' = type
        /\ type' \in Types /\ inputs' \in [Fields(type') -> InputState]
        /\ formValid' \in BOOLEAN /\ FormInv'
        /\ \A f \in Fields(type) :
             /\ f \in Boxes(type) /\ Reports(f) => inputs'[f] = Said(f)
             /\ ~(f \in Boxes(type) /\ Reports(f)) =>
                  IF TypeChanges THEN inputs'[f].value = "" ELSE inputs'[f] = inputs[f]
    BY <1>1, <1>2, <1>3, HandledInputs
  <1>5. ASSUME NEW f \in Fields(type), ~(f \in Boxes(type) /\ Reports(f)),
               inputs[f].value = intent.content[f]
        PROVE  inputs'[f].value = intent.content[f]
    <2>1. TypeChanges => intent.content[f] = ""
      <3>1. type \in Types
        BY <1>4
      <3>2. Empty(type)[f] = ""
        BY <1>5, <3>1, EmptyContent
      <3> QED BY <1>3, <3>2
    <2>2. \A g \in Fields(type) : ~(g \in Boxes(type) /\ Reports(g)) =>
            IF TypeChanges THEN inputs'[g].value = "" ELSE inputs'[g] = inputs[g]
      BY <1>4, Zenon
    <2>3. IF TypeChanges THEN inputs'[f].value = "" ELSE inputs'[f] = inputs[f]
      BY <1>5, <2>2, Zenon
    <2> QED BY <1>5, <2>1, <2>3
  <1>6. ASSUME NEW f \in Boxes(type) PROVE FieldInv(f)'
    <2>0. f \in Fields(type) /\ FieldInv(f)
      BY <1>1, FieldFacts DEF SameInv
    <2>1. Value(f)' = inputs'[f].value
      BY <1>4, <2>0 DEF Value
    <2>2. /\ box'[f] = Adopted(f)
          /\ box'[f].value = IF Adopts(f) THEN inputs[f].value ELSE box[f].value
          /\ box'[f].prev = inputs[f].value
          /\ box'[f].told = Said(f)
      BY <1>1, <1>4, EffectsBoxes, AdoptedBox
    <2>3. inputs'[f].value = intent.content[f]
      <3>1. CASE Reports(f)
        <4>1. box[f].value = intent.content[f]
          BY <2>0, <3>1 DEF FieldInv, Reports
        <4>2. inputs'[f] = Said(f)
          BY <1>4, <2>0, <3>1
        <4> QED BY <4>1, <4>2 DEF Said
      <3>2. CASE ~Reports(f)
        <4>1. inputs[f].value = intent.content[f]
          BY <2>0, <3>2 DEF FieldInv, Reports
        <4> QED BY <1>5, <2>0, <3>2, <4>1
      <3> QED BY <3>1, <3>2
    <2>4. box'[f].value = intent.content[f]
      <3>1. CASE Adopts(f)
        <4>1. inputs[f].value = intent.content[f]
          BY <2>0, <3>1 DEF FieldInv
        <4> QED BY <2>2, <3>1, <4>1
      <3>2. CASE ~Adopts(f)
        BY <2>0, <2>2, <3>2 DEF FieldInv
      <3> QED BY <3>1, <3>2
    <2>5. Adopts(f)' => box'[f].told = Said(f)'
      <3> SUFFICES ASSUME Adopts(f)' PROVE Said(f)' = Said(f)
        BY <2>2
      <3>1. inputs[f].value # intent.content[f]
        BY <2>1, <2>2, <2>3 DEF Adopts
      <3>2. Reports(f)
        BY <2>0, <3>1 DEF FieldInv, Reports
      <3>3. ~Adopts(f)
        BY <2>0, <3>2 DEF FieldInv, Reports
      <3>4. box[f] \in Box
        BY <1>1, FieldTypes DEF FInv
      <3>5. Adopted(f) = [box[f] EXCEPT !.told = Said(f)]
        BY <3>3 DEF Adopted
      <3> QED BY <2>2, <3>4, <3>5 DEF Said, Box
    <2> QED BY <1>2, <2>3, <2>4, <2>5 DEF FieldInv
  <1>7. ASSUME NEW f \in Fields(type), f \in Password
        PROVE  inputs'[f].value = intent.content[f]
    BY <1>1, <1>5, <1>7, FieldFacts DEF SameInv
  <1>8. mode' = "add" => SelectInv'
    <2> SUFFICES ASSUME mode' = "add" PROVE SelectInv'
      OBVIOUS
    <2>1. SelectInv
      BY <1>1, <1>2 DEF SameInv
    <2>2. select' = [value |-> IF select.prev # type THEN type ELSE select.value,
                     prev |-> type, told |-> select.value]
      BY DEF Effects
    <2>3. select'.value = type /\ select'.prev = type /\ select'.told = select.value
      BY <2>1, <2>2 DEF SelectInv
    <2> QED BY <1>2, <1>4, <2>1, <2>3 DEF SelectInv
  <1>9. mode' = "edit" => type' = item'.type
    BY <1>1, <1>2, <1>4 DEF SameInv
  <1>10. SameInv'
    BY <1>2, <1>4, <1>6, <1>7, <1>8, <1>9 DEF SameInv
  <1> QED BY <1>2, <1>4, <1>10 DEF AgreeInv

\* A type just picked comes to be that of the form, with nothing entered yet.
LEMMA EffectsPick ==
    ASSUME FInv, Effects, ~seed, type # intent.type
    PROVE  /\ type' \in Types /\ inputs' \in [Fields(type') -> InputState]
           /\ formValid' \in BOOLEAN /\ FormInv'
           /\ AgreeInv'
           /\ ~gen.open
  <1>1. open /\ Opened /\ PickInv
    BY DEF Effects, FInv, ShownType, AgreeInv
  <1>2. Handled /\ intent' = intent /\ mode' = mode /\ item' = item
    BY DEF Effects
  <1>3. TypeChanges /\ select.value = intent.type /\ \A f \in Boxes(type) : ~Reports(f)
    BY <1>1 DEF PickInv, TypeChanges
  <1>4. /\ type' = intent.type
        /\ type' \in Types /\ inputs' \in [Fields(type') -> InputState]
        /\ formValid' \in BOOLEAN /\ FormInv'
        /\ \A f \in Fields(type') : inputs'[f].value = ""
    BY <1>1, <1>2, <1>3, HandledInputs
  <1>5. \A f \in Fields(type') : inputs'[f].value = intent.content[f]
    BY <1>1, <1>4, EmptyContent DEF PickInv
  <1>6. ASSUME NEW f \in Boxes(type') PROVE FieldInv(f)'
    <2>0. f \in Fields(type') /\ Value(f)' = inputs'[f].value /\ inputs'[f].value = intent.content[f]
      BY <1>4, <1>5, FieldFacts DEF Value
    <2>1. CASE f = "title"
      <3>1. f \in Boxes(type) /\ box'[f] = Adopted(f)
        BY <1>1, <1>4, <2>1, EffectsBoxes
      <3>2. ~Adopts(f) /\ ~Reports(f)
        BY <1>1, <3>1 DEF PickInv
      <3>3. box[f] \in Box
        BY <1>1, <3>1, FieldTypes DEF FInv
      <3>4. box'[f] = box[f]
        BY <3>1, <3>2, <3>3 DEF Adopted, Reports, Box
      <3>5. box[f].value = box[f].prev
        BY <1>1, <3>1 DEF PickInv
      <3>6. Said(f)' = Said(f)
        BY <3>4 DEF Said
      <3>7. box'[f].told = Said(f)'
        BY <3>2, <3>4, <3>6 DEF Reports
      <3>8. box'[f].value # intent.content[f] => Adopts(f)'
        BY <2>0, <3>4, <3>5 DEF Adopts
      <3> QED BY <1>2, <2>0, <3>7, <3>8 DEF FieldInv
    <2>2. CASE f # "title"
      <3>1. box'[f].value = inputs'[f].value /\ box'[f].prev = inputs'[f].value
        <4>1. type' # type
          BY <1>4
        <4> QED BY <1>4, <2>2, <4>1, EffectsBoxes
      <3>2. ~Adopts(f)'
        BY <2>0, <3>1 DEF Adopts
      <3> QED BY <1>2, <2>0, <3>1, <3>2 DEF FieldInv
    <2> QED BY <2>1, <2>2
  <1>7. SelectInv'
    <2>1. select' = [value |-> IF select.prev # type THEN type ELSE select.value,
                     prev |-> type, told |-> select.value]
      BY DEF Effects
    <2>2. select'.value = type' /\ select'.told = type' /\ select'.prev = type
      BY <1>1, <1>3, <1>4, <2>1 DEF PickInv
    <2> QED BY <1>2, <1>4, <2>2 DEF SelectInv
  <1>8. mode' = "add"
    BY <1>1, <1>2 DEF PickInv
  <1>9. SameInv'
    BY <1>2, <1>4, <1>5, <1>6, <1>7, <1>8 DEF SameInv
  <1>10. ~gen.open
    BY <1>1 DEF FInv, GenInv, Rest, PickInv
  <1> QED BY <1>2, <1>4, <1>9, <1>10 DEF AgreeInv

\* An open generator is a form at rest: nothing but the preview changes.
LEMMA EffectsRest ==
    ASSUME FInv, Effects, gen.open
    PROVE  type' = type /\ Rest'
  <1>1. open /\ Opened /\ Rest
    BY DEF Effects, FInv, ShownType, GenInv
  <1>2. type = intent.type
    BY <1>1, RestAgrees
  <1>3. type' = type /\ type' \in Types /\ inputs' \in [Fields(type') -> InputState] /\ FormInv'
    BY <1>1, <1>2, EffectsSame DEF Rest
  <1>4. ASSUME NEW f \in Boxes(type) PROVE ~Reports(f)' /\ ~Adopts(f)'
    <2>1. ~Reports(f) /\ ~Adopts(f) /\ f \in Fields(type)
      BY <1>1, FieldFacts DEF Rest
    <2>2. box'[f] = Adopted(f)
      BY <1>3, EffectsBoxes
    <2>3. box[f] \in Box
      BY <1>1, FieldTypes DEF FInv
    <2>4. box'[f] = box[f]
      BY <2>1, <2>2, <2>3 DEF Adopted, Reports, Box
    <2>5. ~TypeChanges /\ Handled
      BY <1>1 DEF Rest, TypeChanges, Effects
    <2>6. inputs'[f] = inputs[f]
      BY <1>1, <1>3, <2>1, <2>5, HandledInputs
    <2>7. Said(f)' = Said(f) /\ Value(f)' = Value(f)
      <3>1. f \in DOMAIN inputs /\ f \in DOMAIN inputs'
        BY <1>3, <2>1 DEF FInv, FormType
      <3> QED BY <2>4, <2>6, <3>1 DEF Said, Value
    <2> QED BY <2>1, <2>4, <2>7 DEF Reports, Adopts
  <1>5. select' = [value |-> IF select.prev # type THEN type ELSE select.value,
                   prev |-> type, told |-> select.value]
    BY DEF Effects
  <1>6. select'.told = select'.value /\ select'.prev = type
    BY <1>1, <1>5 DEF Rest
  <1> QED BY <1>3, <1>4, <1>6 DEF Rest, Effects

LEMMA EffectsInv ==
    ASSUME FInv, Effects
    PROVE  FInv'
  <1>1. /\ open /\ open' /\ Opened /\ seed' = FALSE
        /\ mode' = mode /\ item' = item /\ saving' = saving /\ intent' = intent
    BY DEF Effects, FInv, ShownType
  <1>2. /\ type' \in Types /\ inputs' \in [Fields(type') -> InputState]
        /\ formValid' \in BOOLEAN /\ FormInv'
        /\ AgreeInv'
    <2>1. CASE seed
      <3>1. item \in Items \cup {None} /\ Seed(item)
        BY <1>1, <2>1 DEF Effects, Opened
      <3> QED BY <2>1, <3>1, Seeded, EffectsSeed
    <2>2. CASE ~seed
      BY <2>2, EffectsSame, EffectsPick
    <2> QED BY <2>1, <2>2
  <1>3. box' \in [Boxes(type') -> Box] /\ BoxInv'
    BY <1>2, EffectsBoxes
  <1>4. select' \in Selects
    <2>1. select' = [value |-> IF select.prev # type THEN type ELSE select.value,
                     prev |-> type, told |-> select.value]
      BY DEF Effects
    <2>2. type \in Types /\ select.value \in Types
      BY <1>1 DEF FInv, FormType, Opened, Selects
    <2> QED BY <2>1, <2>2 DEF Selects
  <1>5. /\ gen' \in Generators
        /\ ~gen'.due
        /\ gen'.open => gen.open
    <2>1. gen \in Generators
      BY DEF FInv, FormType
    <2>2. gen' = IF type' = type THEN Preview ELSE NoGenerator
      BY DEF Effects
    <2>3. NoGenerator \in Generators /\ ~NoGenerator.due /\ ~NoGenerator.open
      BY DEF NoGenerator, Generators
    <2>4. Preview \in Generators /\ ~Preview.due /\ Preview.open = gen.open
      <3>1. CASE ~gen.due
        BY <2>1, <3>1 DEF Preview
      <3>2. CASE gen.due
        <4>1. Preview = [open |-> gen.open, pools |-> gen.pools,
                         preview |-> IF gen.pools = {} THEN "" ELSE Generated, due |-> FALSE]
          BY <2>1, <3>2 DEF Preview, Generators
        <4> QED BY <2>1, <4>1 DEF Generators
      <3> QED BY <3>1, <3>2
    <2> QED BY <2>2, <2>3, <2>4
  <1>6. GenInv'
    <2>1. gen'.open => Rest' /\ "password" \in Fields(type')
      BY <1>5, EffectsRest DEF FInv, GenInv
    <2> QED BY <1>1, <1>5, <2>1 DEF GenInv
  <1>7. FormType'
    BY <1>1, <1>2, <1>5 DEF FInv, FormType
  <1>8. ShownType'
    BY <1>1, <1>3, <1>4 DEF ShownType, Opened
  <1> QED BY <1>1, <1>2, <1>3, <1>6, <1>7, <1>8 DEF FInv

-----------------------------------------------------------------------------
(* The user *)

LEMMA ReadyRests ==
    ASSUME Patient, FInv, Ready
    PROVE  open /\ Rest /\ Opened /\ ~gen.open /\ ~gen.due
  BY SettledRests DEF Ready, FInv, ShownType, GenInv

LEMMA TypeInInv ==
    ASSUME Patient, FInv, NEW f \in DOMAIN box, NEW v \in Texts, TypeIn(f, v)
    PROVE  FInv'
  <1>1. open /\ Rest /\ Opened /\ ~gen.open /\ ~gen.due
    BY ReadyRests DEF TypeIn
  <1>2. /\ f \in Boxes(type) /\ v # box[f].value
        /\ box' = [box EXCEPT ![f].value = v, ![f].isValid = Validate(f, v)]
        /\ intent' = [intent EXCEPT !.content[f] = v]
        /\ UNCHANGED <<mode, open, item, type, inputs, formValid, select, seed, gen, saving>>
    BY <1>1 DEF TypeIn, Opened, form
  <1>3. /\ f \in Fields(type) /\ f \notin Password
        /\ type = intent.type
        /\ \A g \in Fields(type) : inputs[g].value = intent.content[g]
        /\ \A g \in Boxes(type) : box[g].value = intent.content[g]
        /\ mode = "add" => select.value = type
        /\ mode = "edit" => type = item.type
    BY <1>1, <1>2, FieldFacts, RestAgrees
  <1>4. /\ intent' \in Item /\ intent'.type = intent.type
        /\ intent'.content[f] = v
        /\ \A g \in Fields(type) : g # f => intent'.content[g] = intent.content[g]
    BY <1>1, <1>2, <1>3, ItemEntered DEF Opened
  <1>5. ASSUME NEW g \in Boxes(type), g # f
        PROVE  box'[g] = box[g]
    BY <1>1, <1>2, <1>5 DEF Opened
  <1>6. /\ box'[f] \in Box
        /\ box'[f].value = v /\ box'[f].prev = box[f].prev /\ box'[f].told = box[f].told
        /\ box'[f].isValid <=> Validate(f, v)
    <2>1. PICK b \in BOOLEAN : b <=> Validate(f, v)
      OBVIOUS
    <2>2. Validate(f, v) = b
      BY <2>1 DEF Validate
    <2>3. box[f] \in Box
      BY <1>1, <1>2 DEF Opened
    <2>4. box'[f] = [value |-> v, isValid |-> b, prev |-> box[f].prev, told |-> box[f].told]
      BY <1>1, <1>2, <2>2, <2>3 DEF Opened, Box
    <2> QED BY <2>1, <2>3, <2>4 DEF Box
  <1>7. FormType' /\ FormInv'
    BY <1>2 DEF FInv, FormType, FormInv
  <1>8. DOMAIN box' = Boxes(type)
    BY <1>1, <1>2 DEF Opened
  <1>9. box' \in [Boxes(type) -> Box]
    <2>1. ASSUME NEW g \in Boxes(type) PROVE box'[g] \in Box
      BY <1>1, <1>5, <1>6 DEF Opened
    <2>2. box' = [g \in Boxes(type) |-> box'[g]]
      BY <1>1, <1>2 DEF Opened
    <2> QED BY <2>1, <2>2
  <1>10. ShownType'
    BY <1>1, <1>2, <1>4, <1>9 DEF ShownType, Opened
  <1>11. BoxInv'
    <2>1. BoxInv
      BY <1>1 DEF FInv
    <2> QED BY <1>2, <1>5, <1>6, <2>1 DEF BoxInv
  <1>12. ASSUME NEW g \in Boxes(type) PROVE FieldInv(g)'
    <2>1. ~Reports(g) /\ ~Adopts(g) /\ g \in Fields(type)
      BY <1>1, FieldFacts DEF Rest
    <2>2. Value(g)' = Value(g)
      BY <1>2 DEF Value
    <2>3. CASE g = f
      <3>1. ~Adopts(g)'
        BY <1>6, <2>1, <2>2, <2>3 DEF Adopts
      <3>2. box'[g].told # Said(g)'
        <4>1. box[g].told = Said(g)
          BY <2>1 DEF Reports
        <4>2. box'[g].told.value = box[g].value
          BY <1>6, <2>3, <4>1 DEF Said
        <4>3. Said(g)'.value = v
          BY <1>6, <2>3 DEF Said
        <4> QED BY <1>2, <2>3, <4>2, <4>3
      <3> QED BY <1>4, <1>6, <2>3, <3>1, <3>2 DEF FieldInv
    <2>4. CASE g # f
      <3>1. ~Adopts(g)'
        BY <1>5, <2>1, <2>2, <2>4 DEF Adopts
      <3>2. box'[g].value = intent'.content[g] /\ inputs'[g].value = intent'.content[g]
        BY <1>2, <1>3, <1>4, <1>5, <2>1, <2>4
      <3> QED BY <3>1, <3>2 DEF FieldInv
    <2> QED BY <2>3, <2>4
  <1>13. AgreeInv'
    <2>1. mode' = "add" => SelectInv'
      BY <1>1, <1>2, <1>3, <1>4 DEF SelectInv, Rest
    <2>2. ASSUME NEW g \in Fields(type'), g \in Password
          PROVE  inputs'[g].value = intent'.content[g]
      BY <1>2, <1>3, <1>4, <2>2
    <2>3. SameInv'
      BY <1>2, <1>3, <1>12, <2>1, <2>2 DEF SameInv
    <2> QED BY <1>2, <1>3, <1>4, <2>3 DEF AgreeInv
  <1>14. GenInv'
    BY <1>1, <1>2 DEF GenInv
  <1> QED BY <1>1, <1>2, <1>7, <1>10, <1>11, <1>13, <1>14 DEF FInv, Rest

\* A new item starts over at the type picked; an item that is edited stays.
LEMMA PickTypeInv ==
    ASSUME Patient, FInv, NEW t \in Types, PickType(t)
    PROVE  FInv'
  <1>1. open /\ Rest /\ Opened /\ ~gen.open /\ ~gen.due
    BY ReadyRests DEF PickType
  <1>2. /\ t # select.value
        /\ select' = [select EXCEPT !.value = t]
        /\ intent' = IF mode = "edit" THEN intent ELSE [type |-> t, content |-> Empty(t)]
        /\ UNCHANGED <<mode, open, item, type, inputs, formValid, box, seed, gen, saving>>
    BY DEF PickType, form
  <1>3. /\ select' \in Selects
        /\ select'.value = t /\ select'.prev = type /\ select'.told = select.value
    <2>1. select' = [value |-> t, prev |-> select.prev, told |-> select.told]
      BY <1>1, <1>2 DEF Opened, Selects
    <2> QED BY <1>1, <2>1 DEF Opened, Selects, Rest
  <1>4. FormType' /\ FormInv' /\ BoxInv'
    BY <1>1, <1>2 DEF FInv, FormType, FormInv, BoxInv
  <1>5. intent' \in Item
    BY <1>1, <1>2, EmptyContent, ItemOfParts DEF Opened
  <1>6. ShownType'
    BY <1>1, <1>2, <1>3, <1>5 DEF ShownType, Opened
  <1>7. \A f \in Boxes(type) : /\ ~Reports(f) /\ ~Adopts(f)
                               /\ ~Reports(f)' /\ ~Adopts(f)'
    BY <1>1, <1>2 DEF Rest, Reports, Adopts, Said, Value
  <1>8. AgreeInv'
    <2>1. CASE mode = "add"
      <3>1. select.value = type /\ t # type
        BY <1>1, <1>2, <2>1, RestAgrees
      <3>2. intent'.type = t /\ intent'.content = Empty(t)
        BY <1>2, <2>1
      <3>3. ASSUME NEW f \in Boxes(type) PROVE box'[f].value = box'[f].prev
        <4>1. box[f].value = inputs[f].value /\ Value(f) = inputs[f].value
          BY <1>1, FieldFacts, RestAgrees, FieldTypes DEF FInv
        <4> QED BY <1>2, <1>7, <4>1 DEF Adopts
      <3>4. PickInv'
        BY <1>2, <1>3, <1>7, <2>1, <3>1, <3>2, <3>3 DEF PickInv
      <3> QED BY <1>2, <3>1, <3>2, <3>4 DEF AgreeInv
    <2>2. CASE mode = "edit"
      <3>1. intent' = intent
        BY <1>2, <2>2
      <3>2. type = intent.type /\ SameInv
        BY <1>1, RestAgrees DEF FInv, Rest, AgreeInv
      <3>3. ASSUME NEW f \in Boxes(type) PROVE FieldInv(f)'
        <4>1. FieldInv(f)
          BY <3>2 DEF SameInv
        <4>2. Said(f)' = Said(f) /\ (Adopts(f)' <=> Adopts(f))
          BY <1>2 DEF Said, Adopts, Value
        <4> QED BY <1>2, <3>1, <4>1, <4>2 DEF FieldInv
      <3>4. SameInv'
        BY <1>2, <2>2, <3>1, <3>2, <3>3 DEF SameInv
      <3> QED BY <1>2, <3>1, <3>2, <3>4 DEF AgreeInv
    <2> QED BY <2>1, <2>2 DEF FInv, FormType
  <1>9. GenInv'
    BY <1>1, <1>2 DEF GenInv
  <1> QED BY <1>1, <1>2, <1>4, <1>6, <1>8, <1>9 DEF FInv, Rest

\* A password goes to the form at once, typed or generated.
LEMMA ChangePasswordInv ==
    ASSUME FInv, open, Rest, NEW f \in Fields(type), f \in Password, NEW v \in Texts,
           NEW isValid \in BOOLEAN, isValid <=> Filled(f, v), ChangePassword(f, v, isValid),
           gen' \in Generators, ~gen'.open, ~gen'.due
    PROVE  FInv'
  <1>1. Opened /\ FormType /\ FormInv
    BY DEF FInv, ShownType
  <1>2. /\ inputs' = [inputs EXCEPT ![f] = [value |-> v, isValid |-> isValid]]
        /\ formValid' = \A g \in DOMAIN inputs' : inputs'[g].isValid
        /\ intent' = [intent EXCEPT !.content[f] = v]
        /\ UNCHANGED <<mode, open, item, type, select, box, seed, saving>>
    BY DEF ChangePassword
  <1>3. /\ type = intent.type
        /\ \A g \in Fields(type) : inputs[g].value = intent.content[g]
        /\ \A g \in Boxes(type) : box[g].value = intent.content[g]
        /\ mode = "add" => select.value = type
        /\ mode = "edit" => type = item.type
    BY RestAgrees
  <1>4. /\ intent' \in Item /\ intent'.type = intent.type
        /\ intent'.content[f] = v
        /\ \A g \in Fields(type) : g # f => intent'.content[g] = intent.content[g]
    BY <1>1, <1>2, <1>3, ItemEntered DEF Opened
  <1>5. /\ inputs' \in [Fields(type) -> InputState]
        /\ inputs'[f].value = v /\ inputs'[f].isValid = isValid
        /\ \A g \in Fields(type) : g # f => inputs'[g] = inputs[g]
    BY <1>1, <1>2 DEF FormType, InputState
  <1>6. formValid' \in BOOLEAN /\ (formValid' <=> \A g \in Fields(type) : inputs'[g].isValid)
    BY <1>2, <1>5
  <1>7. FormType'
    BY <1>1, <1>2, <1>5, <1>6 DEF FormType
  <1>8. ASSUME NEW g \in Fields(type) PROVE inputs'[g].isValid <=> Accepts(g, inputs'[g].value)
    <2>1. CASE g = f
      BY <1>5, <2>1, Validators
    <2>2. CASE g # f
      BY <1>1, <1>5, <2>2 DEF FormInv
    <2> QED BY <2>1, <2>2
  <1>9. FormInv'
    BY <1>2, <1>6, <1>8 DEF FormInv
  <1>10. ShownType' /\ BoxInv'
    BY <1>1, <1>2, <1>4 DEF FInv, ShownType, Opened, BoxInv
  <1>11. ASSUME NEW g \in Boxes(type) PROVE FieldInv(g)'
    <2>1. ~Adopts(g) /\ g \in Fields(type) /\ g # f
      BY FieldFacts DEF Rest
    <2>2. Value(g)' = Value(g)
      BY <1>1, <1>5, <2>1 DEF Value, FormType
    <2>3. ~Adopts(g)'
      BY <1>2, <2>1, <2>2 DEF Adopts
    <2>4. box'[g].value = intent'.content[g] /\ inputs'[g].value = intent'.content[g]
      BY <1>2, <1>3, <1>4, <1>5, <2>1
    <2> QED BY <2>3, <2>4 DEF FieldInv
  <1>12. AgreeInv'
    <2>1. mode' = "add" => SelectInv'
      BY <1>2, <1>3, <1>4 DEF SelectInv, Rest
    <2>2. ASSUME NEW g \in Fields(type'), g \in Password
          PROVE  inputs'[g].value = intent'.content[g]
      BY <1>2, <1>3, <1>4, <1>5, <2>2
    <2>3. SameInv'
      BY <1>2, <1>3, <1>11, <2>1, <2>2 DEF SameInv
    <2> QED BY <1>2, <1>3, <1>4, <2>3 DEF AgreeInv
  <1>13. GenInv'
    BY DEF GenInv
  <1> QED BY <1>2, <1>7, <1>9, <1>10, <1>12, <1>13 DEF FInv, Rest

\* The generator is opened, set and closed over a form at rest.
LEMMA GeneratorInv ==
    ASSUME FInv, open, Rest, "password" \in Fields(type),
           gen' \in Generators, gen'.due => gen'.open,
           UNCHANGED <<mode, open, item, form, select, box, seed, saving, intent>>
    PROVE  FInv'
  <1>1. UNCHANGED <<type, inputs, formValid>>
    BY DEF form
  <1>2. FormType' /\ FormInv' /\ BoxInv' /\ ShownType'
    BY <1>1 DEF FInv, FormType, FormInv, BoxInv, ShownType, Opened
  <1>3. \A f : Said(f)' = Said(f) /\ (Reports(f)' <=> Reports(f)) /\ (Adopts(f)' <=> Adopts(f))
    BY <1>1 DEF Said, Reports, Adopts, Value
  <1>4. Rest'
    BY <1>1, <1>3 DEF Rest
  <1>5. GenInv'
    BY <1>1, <1>4 DEF GenInv
  <1>6. AgreeInv'
    <2>1. type = intent.type /\ SameInv
      BY RestAgrees DEF FInv, Rest, AgreeInv
    <2>2. ASSUME NEW f \in Boxes(type) PROVE FieldInv(f)'
      <3>1. FieldInv(f)
        BY <2>1 DEF SameInv
      <3> QED BY <1>1, <1>3, <3>1 DEF FieldInv
    <2>3. SameInv'
      BY <1>1, <2>1, <2>2 DEF SameInv, SelectInv
    <2> QED BY <1>1, <2>1, <2>3 DEF AgreeInv
  <1> QED BY <1>2, <1>4, <1>5, <1>6 DEF FInv, Rest

LEMMA GeneratorSteps ==
    ASSUME Patient, FInv,
           \/ OpenGenerator
           \/ CloseGenerator
           \/ \E p \in Pools : ToggleOption(p)
    PROVE  FInv'
  <1>1. gen \in Generators
    BY DEF FInv, FormType
  <1>2. CASE OpenGenerator
    <2>1. open /\ Rest
      BY <1>2, ReadyRests DEF OpenGenerator
    <2>2. gen' = [open |-> TRUE, pools |-> gen.pools, preview |-> gen.preview, due |-> TRUE]
      BY <1>1, <1>2 DEF OpenGenerator, Generators
    <2>3. gen' \in Generators /\ gen'.open
      BY <1>1, <2>2 DEF Generators
    <2> QED BY <1>2, <2>1, <2>3, GeneratorInv DEF OpenGenerator
  <1>3. ASSUME gen.open PROVE open /\ Rest /\ "password" \in Fields(type)
    BY <1>3 DEF FInv, GenInv
  <1>4. CASE CloseGenerator
    <2>1. gen' = [open |-> FALSE, pools |-> gen.pools, preview |-> gen.preview, due |-> FALSE]
      BY <1>1, <1>4 DEF CloseGenerator, Generators
    <2>2. gen' \in Generators /\ ~gen'.due
      BY <1>1, <2>1 DEF Generators
    <2> QED BY <1>3, <1>4, <2>2, GeneratorInv DEF CloseGenerator
  <1>5. ASSUME NEW p \in Pools, ToggleOption(p) PROVE FInv'
    <2>1. PICK ps \in SUBSET Pools :
            ps = IF p \in gen.pools THEN gen.pools \ {p} ELSE gen.pools \cup {p}
      BY <1>1 DEF Generators
    <2>2. gen' = [open |-> gen.open, pools |-> ps, preview |-> gen.preview, due |-> TRUE]
      BY <1>1, <1>5, <2>1 DEF ToggleOption, Generators
    <2>3. gen.open
      BY <1>5 DEF ToggleOption
    <2>4. gen.open \in BOOLEAN /\ gen.preview \in {"", Generated}
      BY <1>1 DEF Generators
    <2>5. gen' \in Generators
      BY <2>2, <2>4 DEF Generators
    <2>6. gen'.open
      BY <2>2, <2>3
    <2> QED BY <1>3, <1>5, <2>3, <2>5, <2>6, GeneratorInv DEF ToggleOption
  <1> QED BY <1>2, <1>4, <1>5

\* A dialog that closes leaves a form that knows what of it is valid.
LEMMA UnmountedInv ==
    ASSUME FInv, Unmounted, mode' = mode, saving' \in BOOLEAN,
           UNCHANGED form \/ Seed(None)
    PROVE  FInv'
  <1>1. /\ type' \in Types /\ inputs' \in [Fields(type') -> InputState]
        /\ formValid' \in BOOLEAN /\ FormInv'
    <2>1. CASE UNCHANGED form
      BY <2>1 DEF FInv, FormType, FormInv, form
    <2>2. CASE Seed(None)
      BY <2>2, Seeded
    <2> QED BY <2>1, <2>2
  <1>2. gen' \in Generators /\ ~gen'.open /\ ~gen'.due
    BY DEF Unmounted, NoGenerator, Generators
  <1>3. FormType' /\ ShownType' /\ GenInv'
    BY <1>1, <1>2 DEF FInv, FormType, ShownType, Unopened, Unmounted, GenInv
  <1> QED BY <1>1, <1>3 DEF FInv, Unmounted

\* Nothing but isSubmitting changes.
LEMMA SavingInv ==
    ASSUME FInv, saving' \in BOOLEAN,
           UNCHANGED <<mode, open, item, form, select, box, seed, gen, intent>>
    PROVE  FInv'
  <1>1. UNCHANGED <<type, inputs, formValid>>
    BY DEF form
  <1>2. FormType' /\ FormInv' /\ ShownType'
    BY <1>1 DEF FInv, FormType, FormInv, ShownType, Opened, Unopened
  <1>3. \A f : /\ Said(f)' = Said(f)
               /\ Reports(f)' <=> Reports(f)
               /\ Adopts(f)' <=> Adopts(f)
    BY <1>1 DEF Said, Reports, Adopts, Value
  <1>4. GenInv'
    BY <1>1, <1>3 DEF FInv, GenInv, Rest
  <1>5. ASSUME open PROVE BoxInv' /\ (seed => SeedInv') /\ (~seed => AgreeInv')
    <2>1. BoxInv' /\ (seed => SeedInv')
      BY <1>1, <1>5 DEF FInv, BoxInv, SeedInv, Mount, Fresh
    <2>2. \A f : FieldInv(f)' <=> FieldInv(f)
      BY <1>1, <1>3 DEF FieldInv
    <2>3. AgreeInv' <=> AgreeInv
      BY <1>1, <1>3, <2>2 DEF AgreeInv, SameInv, SelectInv, PickInv
    <2> QED BY <1>5, <2>1, <2>3 DEF FInv
  <1> QED BY <1>2, <1>4, <1>5 DEF FInv

-----------------------------------------------------------------------------
(* The theorems *)

LEMMA NextInv ==
    ASSUME Patient, FInv, [Next]_vars
    PROVE  FInv'
  <1>0. FormType /\ open \in BOOLEAN
    BY DEF FInv, FormType
  <1>1. CASE Effects
    BY <1>1, EffectsInv
  <1>2. ASSUME NEW it \in Items \cup {None}, Open(it) PROVE FInv'
    BY <1>2, OpenInv
  <1>3. ASSUME NEW f \in DOMAIN box, NEW v \in Texts, TypeIn(f, v) PROVE FInv'
    BY <1>3, TypeInInv
  <1>4. ASSUME NEW t \in Types, PickType(t) PROVE FInv'
    BY <1>4, PickTypeInv
  <1>5. ASSUME NEW f \in Password, NEW v \in Texts, TypePassword(f, v) PROVE FInv'
    <2>1. open /\ Rest /\ ~gen.open /\ ~gen.due
      BY <1>5, ReadyRests DEF TypePassword
    <2>2. f \in Fields(type) /\ gen' = gen /\ gen \in Generators
      BY <1>0, <1>5 DEF TypePassword, FormType
    <2>3. PICK b \in BOOLEAN : b <=> Filled(f, v)
      OBVIOUS
    <2>4. ChangePassword(f, v, b)
      <3>1. Filled(f, v) = b
        BY <2>3 DEF Filled
      <3> QED BY <1>5, <3>1 DEF TypePassword
    <2> QED BY <2>1, <2>2, <2>3, <2>4, ChangePasswordInv
  <1>6. CASE OpenGenerator \/ CloseGenerator \/ \E p \in Pools : ToggleOption(p)
    BY <1>6, GeneratorSteps
  <1>7. CASE UsePreview
    <2>1. open /\ Rest /\ "password" \in Fields(type) /\ gen \in Generators
      BY <1>7 DEF UsePreview, FInv, GenInv, FormType
    <2>2. gen' = [open |-> FALSE, pools |-> gen.pools, preview |-> gen.preview, due |-> gen.due]
      BY <1>7, <2>1 DEF UsePreview, Generators
    <2>3. gen' \in Generators /\ ~gen'.open /\ ~gen'.due
      <3>1. ~gen.due
        BY <1>7 DEF UsePreview
      <3>2. gen.due \in BOOLEAN /\ gen.pools \subseteq Pools /\ gen.preview \in {"", Generated}
        BY <2>1 DEF Generators
      <3>3. gen' \in Generators
        BY <2>2, <3>2 DEF Generators
      <3> QED BY <2>2, <3>1, <3>3
    <2>4. gen.preview \in Texts /\ gen.preview # ""
      <3>1. gen.preview # ""
        BY <1>7 DEF UsePreview
      <3>2. gen.preview \in {"", Generated}
        BY <2>1 DEF Generators
      <3> QED BY <3>1, <3>2, TextFacts
    <2>5. Filled("password", gen.preview) /\ "password" \in Password
      BY <2>4 DEF Filled, Password
    <2>6. ChangePassword("password", gen.preview, TRUE)
      BY <1>7 DEF UsePreview
    <2> QED BY <2>1, <2>3, <2>4, <2>5, <2>6, ChangePasswordInv
  <1>8. CASE Submit
    BY <1>8, SavingInv DEF Submit
  <1>9. CASE Close
    BY <1>0, <1>9, UnmountedInv DEF Close, FormType
  <1>10. ASSUME NEW ok \in BOOLEAN, SaveAnswered(ok) PROVE FInv'
    <2>1. mode' = mode /\ saving' \in BOOLEAN
      BY <1>10 DEF SaveAnswered
    <2>2. CASE ok
      BY <1>10, <2>1, <2>2, UnmountedInv DEF SaveAnswered
    <2>3. CASE ~ok
      BY <1>10, <2>1, <2>3, SavingInv DEF SaveAnswered
    <2> QED BY <2>2, <2>3
  <1>11. CASE UNCHANGED vars
    BY <1>0, <1>11, SavingInv DEF vars, FormType
  <1> QED BY <1>1, <1>2, <1>3, <1>4, <1>5, <1>6, <1>7, <1>8, <1>9, <1>10, <1>11 DEF Next

\* The inductive invariant: where each value that was entered is, while the
\* effects carry it from the Inputs to the form and back.
THEOREM FormInvariant == Patient => (Spec => []FInv)
  <1> SUFFICES ASSUME Patient PROVE Spec => []FInv
    OBVIOUS
  <1>1. FInv /\ [Next]_vars => FInv'
    BY NextInv
  <1> QED BY <1>1, InitInv, PTL DEF Spec

\* What is mounted fits the type the form is at, whichever dialogs opened over
\* which, for any types and any texts.
THEOREM FormTypeCorrect == Patient => (Spec => []TypeOK)
  <1>1. FInv => TypeOK
    BY InvariantImplies
  <1> QED BY <1>1, FormInvariant, PTL

\* Whenever the effects have come to rest, Save saves what the user sees and
\* entered, and is enabled just when that is complete.
THEOREM SavedAsShown == Patient => (Spec => []ShownIsSaved)
  <1>1. FInv => ShownIsSaved
    BY InvariantImplies
  <1> QED BY <1>1, FormInvariant, PTL

=============================================================================
