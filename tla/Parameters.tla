----------------------------- MODULE Parameters -----------------------------
(***************************************************************************)
(* The parameters of a device (adapter/service/parameters): commands set one *)
(* to a typed value, which is checked against the specification of the     *)
(* parameter.  Values are numbers, or sets of numbers where the type is an *)
(* array; a string is known by a number.  Nothing is cached, and nothing is *)
(* reported periodically.                                                  *)
(***************************************************************************)
EXTENDS ServiceCalls, Integers

CONSTANT Specification

ParamReport == "evt.param.report"
SupParamsReport == "evt.sup_params.report"

ParameterSpecifications ==
    [id : {"p1"}, value_type : {"int", "string", "bool", "int_array", "string_array"},
     widget_type : {"input", "select", "multiselect"}, options : {{1, 2}},
     min : {None, 1}, max : {None, 2}, read_only : BOOLEAN]

\* Every type with every widget; limits for numbers, with every widget; and one
\* parameter that cannot be set.
Specifications ==
    {s \in ParameterSpecifications :
        /\ (s.min = None) = (s.max = None)
        /\ s.min # None => s.value_type = "int"
        /\ s.read_only => s.value_type = "int" /\ s.widget_type = "input" /\ s.min = None}

IsArray(type) == type \in {"int_array", "string_array"}

\* A parameter of a message: the type it claims, the type its JSON value has
\* ("null" can be decoded into every type, as its zero value), and the value.
Value(p) ==
    IF p.json # "null" THEN p.value ELSE IF IsArray(p.value_type) THEN {} ELSE 0

valueMatchesValueType(p) == p.json \in {p.value_type, "null"}

Validate(p) == p.id # Empty /\ p.value_type # "object" /\ valueMatchesValueType(p)

\* The limits are compared for numbers that are entered, ...
validateInput(p) ==
    Specification.value_type = "int" =>
        /\ Specification.min # None => Value(p) >= Specification.min
        /\ Specification.max # None => Value(p) <= Specification.max

\* ... the options for a number or a string that is selected, and for an array.
validateSelect(p) ==
    Specification.value_type \in {"int", "string"} => Value(p) \in Specification.options

validateMultiSelect(p) ==
    IsArray(Specification.value_type) => Value(p) \subseteq Specification.options

ValidateParameter(p) ==
    /\ p.value_type = Specification.value_type
    /\ CASE Specification.widget_type = "input"       -> validateInput(p)
         [] Specification.widget_type = "select"      -> validateSelect(p)
         [] Specification.widget_type = "multiselect" -> validateMultiSelect(p)

getParameterSpecification(id) == id = Specification.id

SetParameter(p) ==
    Given(/\ Validate(p)
          /\ getParameterSpecification(p.id)
          /\ ~Specification.read_only
          /\ ValidateParameter(p),
          Set(Takes(Attribute(ParamReport, p.id), {Value(p)})))

SendParameterReport(id, force) ==
    Uncached(Report(ParamReport, Listed(id), OnChange, force))

SendSupportedParamsReport(force) ==
    Uncached(Report(SupParamsReport, NoKey, OnChange, force))

handleCmdSupParamsGetReport == <<SendSupportedParamsReport(TRUE)>>

handleCmdParamSet(p) == <<SetParameter(p), SendParameterReport(p.id, TRUE)>>

handleCmdParamGetReport(id) == <<SendParameterReport(id, TRUE)>>

\* The event that an inclusion report was sent.
NewInclusionReportSentEventHandler == <<SendSupportedParamsReport(TRUE)>>

\* Values on both sides of the limits and of the options.
Numbers ==
    CASE IsArray(Specification.value_type)  -> {{}, {1}, {1, 3}}
      [] Specification.value_type = "bool"  -> {0, 1}
      [] OTHER                              -> {0, 1, 3}

Values ==
    [a \in {Attribute(ParamReport, "p1"), Attribute(SupParamsReport, Empty)}
        |-> IF a[1] = ParamReport THEN Numbers ELSE {"before", "after"}]

\* The widget fits the type and the limits: of other specifications ValidateParameter
\* checks no value.
Fits ==
    /\ Specification.widget_type = "select" => Specification.value_type \in {"int", "string"}
    /\ Specification.widget_type = "multiselect" => IsArray(Specification.value_type)
    /\ Specification.min # None => Specification.widget_type = "input"

\* What the specification lets a command set.
Limits ==
    Takes(Attribute(ParamReport, "p1"),
          {v \in Numbers :
              /\ ~Specification.read_only
              /\ Fits =>
                   /\ Specification.widget_type = "select" => v \in Specification.options
                   /\ Specification.widget_type = "multiselect" => v \subseteq Specification.options
                   /\ Specification.min # None => v >= Specification.min
                   /\ Specification.max # None => v <= Specification.max})

Payloads ==
    LET type == Specification.value_type
    IN  [id : {"p1", "p2"}, value_type : {type}, json : {type}, value : Numbers]
        \cup [id : {"p1", Empty}, value_type : {type}, json : {"null"}, value : {None}]
        \cup [id : {"p1"}, value_type : {type, "object"}, json : {"object"}, value : {None}]

Commands ==
    {handleCmdParamSet(p) : p \in Payloads}
    \cup {handleCmdParamGetReport("p1"), handleCmdSupParamsGetReport,
          NewInclusionReportSentEventHandler}
=============================================================================
