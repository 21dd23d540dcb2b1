---------------------------- MODULE VariableTypes ----------------------------
(***************************************************************************)
(* variable/yo_boolean, yo_integer, yo_long, yo_double, yo_enum, and the   *)
(* parameters that own one of them.  Whatever its type, a variable is      *)
(* written as a double (by a buffer), as 64 bits (by a logger), as a text  *)
(* (by a file) or from another variable; it tells its listeners, and one   *)
(* of them may set it again.                                               *)
(*                                                                         *)
(* Integers have few bits here, ordered as in the code: int < double's     *)
(* mantissa < long.  A double counts sixths, and the last decimal that     *)
(* std::to_string prints stands for three of them: most doubles lie        *)
(* between two texts.  A text is what it denotes.                          *)
(***************************************************************************)
EXTENDS OwnedObject, TLC

CONSTANTS IntBits, LongBits,
          Mantissa,        \* whole numbers up to 2^Mantissa are doubles
          Sixths,          \* the finite doubles given, in sixths
          WholeNumbers,    \* the numbers given as bits or as texts
          Enumerations,    \* the numbers of the constants of the enum types
          MaxListeners     \* bound

ASSUME WidthAssumption == IntBits - 1 < Mantissa /\ Mantissa < LongBits /\ LongBits <= Mantissa + 2

VariableClasses == {"YoBoolean", "YoInteger", "YoLong", "YoDouble", "YoEnum"}
IsVariable == object.class \in VariableClasses

Number(sixths) == <<"number", sixths>>
NaN            == <<"NaN", 0>>
NegativeZero   == <<"-0", 0>>
Doubles == {Number(n) : n \in Sixths} \cup {NaN, NegativeZero}
Whole(n) == Number(6 * n)

Range32 == -(2^(IntBits - 1)) .. 2^(IntBits - 1) - 1
Range64 == -(2^(LongBits - 1)) .. 2^(LongBits - 1) - 1

\* conversion to int32_t, and what an overflowing sum leaves
Narrowed(n, bits) == ((n + 2^(bits - 1)) % 2^bits) - 2^(bits - 1)

\* NULL_VALUE
Null == -1

-----------------------------------------------------------------------------
(* The initial value is a parameter's initialValue_, and of other variables  *)
(* what the constructor set.  Bounds are kept by nobody's rule and left out. *)

New(class, zero) ==
    [class |-> class, value |-> zero, initial |-> zero, status |-> "none",
     listeners |-> <<>>]

NewBoolean == New("YoBoolean", FALSE)
NewInteger == New("YoInteger", 0)
NewLong    == New("YoLong", 0)
NewDouble  == New("YoDouble", Number(0))

\* numbers: the underlying values of the constants, which have the ordinals 0, 1, ...
NewEnum(numbers, backed, allowNull) ==
    New("YoEnum", IF allowNull THEN Null ELSE 0)
      @@ [numbers |-> numbers, backed |-> backed, allowNull |-> allowNull]

\* The parameter's constructor keeps the initial value and leaves the variable alone.
Owned(variable, initial) == [variable EXCEPT !.initial = initial, !.status = "UNLOADED"]

\* An enum constant given as initial value is kept as its number.
EnumInitials(variable) ==
    IF ~variable.backed THEN {IF variable.allowNull THEN Null ELSE 0}
    ELSE ToSet(variable.numbers) \cup (IF variable.allowNull THEN {Null} ELSE {})

NewVariables ==
    {NewBoolean, NewInteger, NewLong, NewDouble}
      \cup {NewEnum(n, b, a) : n \in Enumerations, b \in BOOLEAN, a \in BOOLEAN}

\* initialValue_: NaN when a DoubleParameter is given none
Initials(variable) ==
    CASE variable.class = "YoBoolean" -> BOOLEAN
      [] variable.class = "YoInteger" -> {0, 1}
      [] variable.class = "YoLong"    -> {0, 1}
      [] variable.class = "YoDouble"  -> {NaN, Whole(1)}
      [] variable.class = "YoEnum"    -> EnumInitials(variable)

NewParameters == UNION {{Owned(v, initial) : initial \in Initials(v)} : v \in NewVariables}

VariableInit ==
    /\ object \in NewVariables \cup NewParameters
    /\ past = [call |-> "call", mirror |-> object.value, behind |-> TRUE]

-----------------------------------------------------------------------------
(* set, with the listeners: a mirror notes the value it is told, a resetter  *)
(* sets the variable back to the value its constructor gave it.              *)

Zero == IF object.class = "YoBoolean" THEN NewBoolean.value
        ELSE IF object.class = "YoDouble" THEN NewDouble.value
        ELSE IF object.class = "YoEnum" /\ object.allowNull THEN Null
        ELSE 0

RECURSIVE Written(_, _), Told(_, _)

\* Mutant: the listeners are told first, and the value that one of them sets is lost.
WrittenLate(s, v) ==
    IF v = s.value THEN s ELSE [FoldLeft(Told, s, object.listeners) EXCEPT !.value = v]

Written(s, v) ==
    IF v = s.value THEN s ELSE FoldLeft(Told, [s EXCEPT !.value = v], object.listeners)

\* notifyListeners, for one of them
Told(s, listener) ==
    IF listener = "mirror" THEN [s EXCEPT !.mirror = s.value, !.behind = FALSE]
    ELSE Written(s, Zero)

\* The mirror keeps what it noted; one that may be behind notes what there is.
Noted(behind, mirror) ==
    LET isBehind == behind \/ "mirror" \notin ToSet(object'.listeners)
    IN  past' = [call |-> "call", behind |-> isBehind,
                 mirror |-> IF isBehind THEN object'.value ELSE mirror]

Unset(o) == object' = o /\ UNCHANGED past
Refused == Unset(object)

\* set in a variable o that differs from the object in other members only
SetIn(o, v, notify) ==
    LET before == [value |-> object.value, mirror |-> past.mirror, behind |-> past.behind]
        after  == IF notify THEN Written(before, v)
                  ELSE [before EXCEPT !.value = v, !.behind = @ \/ v # object.value]
    IN  /\ object' = [o EXCEPT !.value = after.value]
        /\ Noted(after.behind, after.mirror)

Set(v, notify) == SetIn(object, v, notify)

-----------------------------------------------------------------------------
(* YoEnum                                                                    *)

EnumSize == Len(object.numbers)
LeastOrdinal == IF object.allowNull THEN Null ELSE 0
Ordinals == LeastOrdinal .. EnumSize - 1

\* set(int), with checkBounds
SetOrdinalIn(o, ordinal, notify) ==
    IF ordinal \in Ordinals THEN SetIn(o, ordinal, notify) ELSE Unset(o)
SetOrdinal(ordinal, notify) == SetOrdinalIn(object, ordinal, notify)

\* set(optional<E>) takes the number of the constant for its ordinal.
SetConstant(number, notify) ==
    /\ Is("YoEnum")
    /\ IF ~object.backed \/ (number = Null /\ ~object.allowNull) THEN Refused
       ELSE SetOrdinal(number, notify)

\* getEnumValue, for an ordinal that is not null
getEnumValue == object.numbers[object.value + 1]

-----------------------------------------------------------------------------
(* As a double and back                                                      *)

\* std::lround, half away from zero
Rounded(sixths) == Sign(sixths) * ((Abs(sixths) + 3) \div 6)
Truncated(sixths) == Sign(sixths) * (Abs(sixths) \div 6)

\* the double nearest to a long; a tie goes to the even mantissa
NearestDouble(n) ==
    IF Abs(n) <= 2^Mantissa \/ n % 2 = 0 THEN n ELSE IF (n - 1) % 4 = 0 THEN n - 1 ELSE n + 1

getValueAsDouble ==
    CASE Is("YoBoolean") -> Whole(IF object.value THEN 1 ELSE 0)
      [] Is("YoDouble")  -> object.value
      [] Is("YoLong")    -> Whole(NearestDouble(object.value))
      [] OTHER           -> Whole(object.value)

IsFinite(d) == d # NaN
SixthsOf(d) == d[2]

\* the long that std::lround answers: unspecified for NaN and beyond the longs
RoundedLongs(d) ==
    IF IsFinite(d) /\ Rounded(SixthsOf(d)) \in Range64 THEN {Rounded(SixthsOf(d))} ELSE Range64

\* Mutant: null is never what a double stands for.
ClampedOrdinalToFirst(ordinal) == clamp(ordinal, 0, EnumSize - 1)

ClampedOrdinal(ordinal) ==
    LET most == Min({ordinal, EnumSize - 1}) IN Max({most, LeastOrdinal})

\* the values that setValueFromDouble may set
FromDouble(d) ==
    CASE Is("YoBoolean") -> {IsFinite(d) /\ SixthsOf(d) >= 3}
      [] Is("YoDouble")  -> {d}
      [] Is("YoInteger") -> {Narrowed(n, IntBits) : n \in RoundedLongs(d)}
      [] Is("YoLong")    -> RoundedLongs(d)
      [] Is("YoEnum")    -> {ClampedOrdinal(Narrowed(n, IntBits)) : n \in RoundedLongs(d)}

SetValueFromDouble(d, notify) == \E v \in FromDouble(d) : Set(v, notify)

-----------------------------------------------------------------------------
(* As 64 bits and back: of a double, its bits, which tell all doubles apart  *)

getValueAsLongBits ==
    IF Is("YoBoolean") THEN (IF object.value THEN 1 ELSE 0) ELSE object.value

FromLongBits(bits) ==
    CASE Is("YoBoolean") -> bits = 1
      [] Is("YoInteger") \/ Is("YoEnum") -> Narrowed(bits, IntBits)
      [] Is("YoLong") \/ Is("YoDouble")  -> bits

SetValueFromLongBits(bits, notify) ==
    IF Is("YoEnum") THEN SetOrdinal(FromLongBits(bits), notify) ELSE Set(FromLongBits(bits), notify)

-----------------------------------------------------------------------------
(* As a text and back                                                        *)

\* The doubles with no more decimals than std::to_string prints.
HasPrintedDecimals(d) == IsFinite(d) => SixthsOf(d) % 3 = 0

\* Mutant: the text is cut off behind its last decimal.
PrintedCutOff(d) ==
    IF HasPrintedDecimals(d) THEN d ELSE Number(Sign(SixthsOf(d)) * 3 * (Abs(SixthsOf(d)) \div 3))

\* std::to_string: the nearest text, with a minus also in front of zero
Printed(d) ==
    LET nearest == Sign(SixthsOf(d)) * 3 * ((Abs(SixthsOf(d)) + 1) \div 3)
    IN  IF HasPrintedDecimals(d) THEN d
        ELSE IF nearest = 0 /\ SixthsOf(d) < 0 THEN NegativeZero
        ELSE Number(nearest)

getValueAsString == IF Is("YoDouble") THEN Printed(object.value) ELSE object.value

\* stoi and stoll throw out of their range
ParseValue(text, notify) ==
    CASE Is("YoInteger") -> IF text \in Range32 THEN Set(text, notify) ELSE Refused
      [] Is("YoLong")    -> IF text \in Range64 THEN Set(text, notify) ELSE Refused
      [] Is("YoEnum")    -> SetOrdinal(text, notify)
      [] OTHER           -> Set(text, notify)

\* A text that denotes no value is a boolean.
ParseOther(notify) == IF Is("YoBoolean") THEN Set(FALSE, notify) ELSE Refused

\* an integer class cuts off the double where it would round to set it
convertDoubleValueToString(d) ==
    CASE Is("YoBoolean") -> IsFinite(d) /\ SixthsOf(d) >= 3
      [] Is("YoDouble")  -> Printed(d)
      [] Is("YoEnum")    -> ClampedOrdinal(Narrowed(Rounded(SixthsOf(d)), IntBits))
      [] OTHER           -> Truncated(SixthsOf(d))

-----------------------------------------------------------------------------
(* The other operations                                                      *)

\* setValue: of two variables with the same constants, the constant is taken.
SetValue(v, otherBacked, notify) ==
    IF ~Is("YoEnum") THEN Set(v, notify)
    ELSE IF ~(otherBacked /\ object.backed) THEN SetOrdinal(v, notify)
    ELSE SetConstant(IF v = Null THEN Null ELSE object.numbers[v + 1], notify)

\* increment, decrement, add, sub
Add(n) ==
    \/ Is("YoInteger") /\ Set(Narrowed(object.value + n, IntBits), TRUE)
    \/ Is("YoLong") /\ Set(Narrowed(object.value + n, LongBits), TRUE)

\* set, add, sub, mul and setToNaN of a double, which may leave any double
Compute == Is("YoDouble") /\ \E d \in Doubles : Set(d, TRUE)

AddListener(listener) ==
    /\ Len(object.listeners) < MaxListeners
    /\ object' = [object EXCEPT !.listeners = Append(@, listener)]
    /\ Noted(past.behind \/ listener = "mirror", past.mirror)

RemoveListener(listener) ==
    /\ \E i \in DOMAIN object.listeners :
          /\ object.listeners[i] = listener
          /\ \A j \in 1..i - 1 : object.listeners[j] # listener
          /\ object' = [object EXCEPT !.listeners = RemoveAt(@, i)]
    /\ Noted(past.behind, past.mirror)

RemoveListeners ==
    /\ object' = [object EXCEPT !.listeners = <<>>]
    /\ Noted(past.behind, past.mirror)

-----------------------------------------------------------------------------
(* Parameters and duplicates                                                 *)

IsParameter == object.status # "none"

\* The status is kept when the initial value is not the ordinal of a constant.
LoadDefault ==
    LET loaded == [object EXCEPT !.status = "DEFAULT"]
    IN  /\ IsParameter
        /\ IF Is("YoEnum") THEN SetOrdinalIn(loaded, object.initial, TRUE)
           ELSE SetIn(loaded, object.initial, TRUE)

\* An enum parameter hands on the constant that has its initial value as ordinal.
DuplicatedInitial ==
    IF Is("YoEnum") /\ IsParameter /\ object.backed /\ object.initial # Null
    THEN object.numbers[object.initial + 1] ELSE object.initial

duplicated ==
    [object EXCEPT !.initial = DuplicatedInitial, !.listeners = <<>>]

\* No constant has an ordinal past the last one: the code reads outside then.
CanDuplicate == Is("YoEnum") => object.initial < EnumSize

\* From here on the copy is followed.
Duplicate ==
    /\ CanDuplicate
    /\ object' = duplicated
    /\ Noted(TRUE, past.mirror)

-----------------------------------------------------------------------------
\* what another variable of the class may hold
Values ==
    CASE Is("YoBoolean") -> BOOLEAN
      [] Is("YoInteger") -> Range32
      [] Is("YoLong")    -> Range64
      [] Is("YoDouble")  -> Doubles
      [] Is("YoEnum")    -> Null .. EnumSize - 1

Bits  == IF Is("YoDouble") THEN Doubles ELSE WholeNumbers \cap Range64
Texts == IF Is("YoInteger") \/ Is("YoLong") THEN WholeNumbers ELSE Values

VariableNext ==
    /\ IsVariable
    /\ \/ \E notify \in BOOLEAN :
             \/ \E d \in Doubles : SetValueFromDouble(d, notify)
             \/ \E bits \in Bits : SetValueFromLongBits(bits, notify)
             \/ \E text \in Texts : ParseValue(text, notify)
             \/ ParseOther(notify)
             \/ \E v \in Values, backed \in BOOLEAN : SetValue(v, backed, notify)
             \/ \E number \in UNION {ToSet(n) : n \in Enumerations} \cup {Null} : SetConstant(number, notify)
       \/ \E n \in {-1, 1} : Add(n)
       \/ Compute
       \/ \E listener \in {"mirror", "resetter"} : AddListener(listener) \/ RemoveListener(listener)
       \/ RemoveListeners
       \/ LoadDefault
       \/ Duplicate

-----------------------------------------------------------------------------
\* The enum types the code is written for: the constants have their ordinals for numbers.
CountsFromZero == \A i \in DOMAIN object.numbers : object.numbers[i] = i - 1

(* What is recorded of a variable and played back is its value: as a double, *)
(* but for longs the mantissa cannot hold; as bits; as the constant of an    *)
(* enum; as a duplicate, which also loads the same default.  As a text it is *)
(* too, but for a double with more decimals than are printed (1/3 comes back *)
(* as 0.333333): that one is off by half of the last decimal at most, and    *)
(* what came back once does not change from then on.  What is shown for a    *)
(* recorded double is the text of the value it stands for.                   *)
ConversionsComeBack ==
    IsVariable =>
        /\ (Is("YoLong") => Abs(object.value) <= 2^Mantissa) =>
              /\ FromDouble(getValueAsDouble) = {object.value}
              /\ convertDoubleValueToString(getValueAsDouble) = getValueAsString
        /\ FromLongBits(getValueAsLongBits) = object.value
        /\ ~Is("YoDouble") => getValueAsString = object.value
        /\ Is("YoDouble") =>
              /\ (getValueAsString = object.value) <=> HasPrintedDecimals(object.value)
              /\ 2 * Abs(SixthsOf(getValueAsString) - SixthsOf(object.value)) <= 3
              /\ Printed(getValueAsString) = getValueAsString
        /\ Is("YoEnum") =>
              /\ object.value \in Ordinals
              /\ CountsFromZero /\ object.value # Null => getEnumValue = object.value
              /\ CountsFromZero => CanDuplicate /\ object.initial \in Ordinals
        /\ CanDuplicate /\ (Is("YoEnum") => CountsFromZero) =>
              duplicated.value = object.value /\ duplicated.initial = object.initial

(* A listener that notes what it is told is right until somebody sets the    *)
(* variable silently, also when another listener sets it in between.         *)
ListenersTold ==
    IsVariable /\ "mirror" \in ToSet(object.listeners) /\ ~past.behind => past.mirror = object.value
=============================================================================
