-------------------------------- MODULE Pipes --------------------------------
(***************************************************************************)
(* The values an action is given: @ipare/pipe reads them from the request  *)
(* and sends each through its pipes, @ipare/validator is the last of them. *)
(*                                                                         *)
(* A value is [t, v], its type and its text; an object also has "of", a    *)
(* function from properties to values.  A pipe is [pipe, default], the     *)
(* latter for DefaultValuePipe; a rule is the set of names of validators   *)
(* one decorator holds.  An outcome is [value, error].                     *)
(***************************************************************************)
EXTENDS Naturals, SequencesExt, Lists

Nothing == [t |-> "undefined", v |-> "-"]
Null == [t |-> "null", v |-> "-"]
Text(v) == [t |-> "string", v |-> v]
Number(v) == [t |-> "number", v |-> v]
NaN == Number("NaN")
Bool(v) == [t |-> "boolean", v |-> v]
Object(of) == [t |-> "object", v |-> "-", of |-> of]
True == Bool("true")
False == Bool("false")

Gives(value) == [value |-> value, error |-> "none"]
BadRequest == [value |-> Nothing, error |-> "badRequest"]
TypeError == [value |-> Nothing, error |-> "TypeError"]

\* parseInt, parseFloat and trim on the texts in use.
IntText == ("12" :> "12") @@ ("1.5" :> "1") @@ ("1" :> "1") @@ ("0" :> "0")
FloatText == ("12" :> "12") @@ ("1.5" :> "1.5") @@ ("1" :> "1") @@ ("0" :> "0")
Trimmed(v) == CASE v = " a " -> "a" [] v = " " -> "" [] OTHER -> v
Parsed(table, v) == IF v \in DOMAIN table THEN Number(table[v]) ELSE NaN
\* Math.floor makes a number of anything.
Floor(x) == CASE x.t = "number" -> Parsed(IntText, x.v)
              [] x \in {Null, False} -> Number("0")
              [] x = True -> Number("1")
              [] OTHER -> NaN

-----------------------------------------------------------------------------
\* value == value fails for NaN only: undefined and null are let through.
ParseIntPipe(value) ==
  LET x == IF value.t = "string" THEN Parsed(IntText, value.v) ELSE value
  IN IF x = NaN THEN BadRequest ELSE Gives(Floor(x))
ParseFloatPipe(value) ==
  LET x == IF value.t = "string" THEN Parsed(FloatText, value.v) ELSE value
  IN IF x = NaN THEN BadRequest ELSE Gives(x)

\* The comparisons are loose: "" == 0, and so is " ".
ParseBoolPipe(value) ==
  CASE value.t = "boolean" -> Gives(value)
    [] value \in {Number("1"), Text("1")} -> Gives(True)
    [] value \in {Number("0"), Text("0"), Text(""), Text(" ")} -> Gives(False)
    [] value \in {Text("true"), Text("t")} -> Gives(True)
    [] value \in {Text("false"), Text("f")} -> Gives(False)
    [] OTHER -> BadRequest

TrimPipe(value) == IF value.t = "string" THEN Gives(Text(Trimmed(value.v))) ELSE BadRequest

\* value == "" holds for 0 and false too.
DefaultValuePipe(value, default) ==
  Gives(IF value \in {Nothing, Null, Text(""), Number("0"), False, NaN} THEN default ELSE value)

-----------------------------------------------------------------------------
\* class-validator, and Required, which is its IsNotEmpty.
Empty == {Nothing, Null, Text("")}
Passes(name, value) ==
  CASE name \in {"IsNotEmpty", "Required"} -> value \notin Empty
    [] name = "IsString" -> value.t = "string"
    [] name = "IsNumber" -> value.t = "number" /\ value # NaN
    [] OTHER -> TRUE    \* libToProxy: a name nobody registered always passes

AllPass(rules, value) == \A i \in DOMAIN rules : \A name \in rules[i] : Passes(name, value)

PropertyOf(value, key) ==
  IF value.t = "object" /\ key \in DOMAIN value.of THEN value.of[key] ELSE Nothing

\* The rules of a property or parameter are checked when it has a name.
ValidParent(input, value) == input.property = "" \/ AllPass(input.rules, value)
\* The rules of its class, property by property; value[key] throws on null.
ValidModel(input, value) ==
  \A key \in DOMAIN input.model : AllPass(input.model[key], PropertyOf(value, key))

ValidatePipe(input, value) ==
  IF input.disabled /\ value.t = "object" THEN Gives(value)
  ELSE IF ~ValidParent(input, value) THEN BadRequest
  ELSE IF value = Null /\ DOMAIN input.model # {} THEN TypeError
  ELSE IF ~ValidModel(input, value) THEN BadRequest
  ELSE Gives(value)

-----------------------------------------------------------------------------
Transform(input, pipe, value) ==
  CASE pipe.pipe = "int" -> ParseIntPipe(value)
    [] pipe.pipe = "float" -> ParseFloatPipe(value)
    [] pipe.pipe = "bool" -> ParseBoolPipe(value)
    [] pipe.pipe = "trim" -> TrimPipe(value)
    [] pipe.pipe = "default" -> DefaultValuePipe(value, pipe.default)
    [] pipe.pipe = "validate" -> ValidatePipe(input, value)

\* Mutant: the pipes of the startup come first.
PipesOfStartup(globals, input) == globals \o input.pipes

\* globals: the pipes of useGlobalPipe that ran so far, [pipe, default, type].
PipesOf(globals, input) ==
  LET Of(type) == Only(globals, {g \in ToSet(globals) : g.type = type})
  IN Of("before") \o input.pipes \o Of("after")

ExecPipes(globals, input, value) ==
  LET pipes == PipesOf(globals, input)
      out[n \in 0 .. Len(pipes)] ==
        IF n = 0 THEN Gives(value)
        ELSE IF out[n - 1].error # "none" THEN out[n - 1]
        ELSE Transform(input, pipes[n], out[n - 1].value)
  IN out[Len(pipes)]

\* plainToClass: an object of the input's class has its defaults.
GetObjectFromDict(input, value) ==
  IF value.t = "object" THEN Object(value.of @@ input.defaults) ELSE value

\* getReqHandler: a named property of the query, the parameters, the headers
\* or the body as it came, or the whole of it as an object of the input's class.
ReadInput(sources, input) ==
  IF input.property = "" THEN GetObjectFromDict(input, sources[input.type])
  ELSE PropertyOf(sources[input.type], input.property)

Argument(globals, sources, input) == ExecPipes(globals, input, ReadInput(sources, input))
=============================================================================
