------------------------------- MODULE MCInputs -------------------------------
(* An instance of Startup, RunSetup and ModelOutput for TLC.  The three share  *)
(* no state: a behaviour is of one of them, and the others rest.               *)
EXTENDS Startup, RunSetup, ModelOutput

-----------------------------------------------------------------------------
(* Providers *)

MCNames == {"", " ", "fake", " fake", "deep", "Deep", "gone"}
MCTrim == [name \in MCNames |->
  CASE name = " " -> "" [] name = " fake" -> "fake" [] OTHER -> name]
MCServiceNames == {"", " fake", "deep"}

Provider(type, key) == [type |-> type, complete |-> TRUE, key |-> key]
One(name, provider) == [n \in {name} |-> provider]
Both == [name \in {"fake", "deep"} |->
  IF name = "fake" THEN Provider("fake", FALSE) ELSE Provider("openai_compatible", TRUE)]
File(default, providers) == [readable |-> TRUE, default |-> default, providers |-> providers]

\* A default that is found, one in capitals, one without a key, one between
\* blanks, one of an unknown type, a file with an incomplete provider, one
\* without a default, and one that cannot be read.
MCFiles ==
  {File("fake", Both),
   File("Deep", Both),
   File("deep", One("deep", Provider("openai_compatible", FALSE))),
   File(" fake", One("fake", Provider("fake", FALSE))),
   File("deep", One("deep", Provider("other", TRUE))),
   File("", [Both EXCEPT !["deep"].complete = FALSE]),
   File("", One("fake", Provider("fake", FALSE))),
   [File("fake", Both) EXCEPT !.readable = FALSE]}

-----------------------------------------------------------------------------
(* Tools and their arguments *)

MCKnownNames == {" remote", " "}
MCCallNames == {"calculator", " calculator", "remote", "nothing", "probe", ""}
MCTexts == {"", " ", " k", "k", "m", "upsert", "forget", " forget", "merge"}
MCStrip == [text \in MCKnownNames \cup MCCallNames \cup MCTexts |->
  CASE text = " " -> "" [] text = " remote" -> "remote"
    [] text = " calculator" -> "calculator"
    [] text = " k" -> "k" [] text = " forget" -> "forget" [] OTHER -> text]
MCFold == [key \in {"a", "A", "b", "op", "OP", "x", "candidates", "Candidates", "Key", "note"}
                     \cup CandidateFields |->
  CASE key = "A" -> "a" [] key = "OP" -> "op" [] key = "Candidates" -> "candidates"
    [] key = "Key" -> "key" [] OTHER -> key]

\* A tool of an embedding program, with the keywords the calculator lacks.
Probe ==
  [Calculator EXCEPT !.name = "probe", !.concurrency = "", !.parameters =
    [AnySchema EXCEPT !.type = "object", !.required = {"x"}, !.closed = TRUE,
       !.properties = One("x", [AnySchema EXCEPT !.type = "integer", !.enum = {"0", "2"}])]]

\* A tool that takes an object in its object.
Nested ==
  [Probe EXCEPT !.parameters.properties =
    One("x", [AnySchema EXCEPT !.type = "object", !.required = {"a"},
       !.properties = One("a", [AnySchema EXCEPT !.type = "number", !.enum = {"0", "2"}])])]

\* Sets that are accepted, and one for each reason to refuse a tool or a set.
MCDeclarations ==
  {<<>>, <<Calculator>>, <<Probe, Calculator>>, <<Nested>>,
   <<[Probe EXCEPT !.concurrency = "shared", !.readOnly = TRUE, !.parameters = AnySchema]>>,
   <<Calculator, [Calculator EXCEPT !.name = " calculator"]>>}
  \cup {<<[Probe EXCEPT !.name = " "]>>, <<[Probe EXCEPT !.version = FALSE]>>,
        <<[Probe EXCEPT !.executor = FALSE]>>, <<[Probe EXCEPT !.timeout = -1]>>,
        <<[Probe EXCEPT !.concurrency = "shared"]>>, <<[Probe EXCEPT !.concurrency = "any"]>>,
        <<[Probe EXCEPT !.parameters = NoSchema]>>}

Value(type, text) ==
  [type |-> type, text |-> text, int64 |-> FALSE, float64 |-> FALSE, pairs |-> <<>>, items |-> <<>>]
Number(text) == [Value("number", text) EXCEPT !.int64 = text # "1e999", !.float64 = text # "1e999"]
Numbers == {Number("0"), Number("2"), Number("1e999")}
Operands0 == Numbers \cup {Value("null", "null"), Value("string", "2")}
Ops == {Value("string", "add"), Value("string", "div"), Value("string", "pow"), Value("null", "null")}

Pair(key, value) == [key |-> key, value |-> value]
Object(pairs) == [Value("object", "{}") EXCEPT !.pairs = pairs]
Null == Value("null", "null")

\* Each field or none, and one more pair before or after them.
Fields(key, values) == {<<>>} \cup {<<Pair(key, value)>> : value \in values}
Extras ==
  {<<>>} \cup {<<Pair("A", value)>> : value \in Operands0} \cup {<<Pair("OP", op)>> : op \in Ops}
  \cup {<<Pair("a", Number("2"))>>, <<Pair("x", Number("2"))>>}
MCObjects ==
  {Object(a \o b \o op) : a \in Fields("a", Operands0), b \in Fields("b", Numbers), op \in Fields("op", Ops)}
  \cup {Object(extra \o <<Pair("a", Number("2")), b, op>>) : extra \in Extras,
          b \in {Pair("b", Number("0"))}, op \in {Pair("op", Value("string", "add"))}}
  \cup {Object(<<Pair("a", Number("2")), b, op>> \o extra) : extra \in Extras,
          b \in {Pair("b", n) : n \in Numbers}, op \in {Pair("op", o) : o \in Ops}}
  \cup {Object(<<Pair("x", v)>>) : v \in Operands0 \cup {Object(<<>>)}}
  \cup {Object(<<Pair("x", Object(<<Pair("a", v)>>))>>) : v \in Operands0}
MCArguments ==
  {<<object>> : object \in MCObjects}
  \cup {<<>>, <<Value("malformed", "")>>, <<Value("array", "[]")>>, <<Object(<<>>), Object(<<>>)>>}

-----------------------------------------------------------------------------
(* Extractions *)

Text(key, text) == Pair(key, Value("string", text))
Whole == <<Text("operation", "upsert"), Text("key", "k"), Text("content", "k"),
           Text("source", "k"), Text("provenance", "k")>>
Facts ==
  {Object(<<Text("operation", operation)>> \o Tail(Whole)) : operation \in {"forget", " forget", "merge"}}
  \cup {Object(SubSeq(Whole, 1, n - 1) \o pair \o SubSeq(Whole, n + 1, 5)) :
          n \in {2, 3, 5}, pair \in {<<>>, <<[Whole[2] EXCEPT !.value = Null]>>}}
  \cup {Object(<<Whole[1], Text("key", text)>> \o SubSeq(Whole, 3, 5)) : text \in {" ", " k", "m"}}
  \cup {Object(<<Text("operation", "forget"), Whole[2], content>> \o SubSeq(Whole, 4, 5)) :
          content \in {Text("content", ""), Pair("content", Null)}}

\* Items that repeat a field, and items that leave most of them out.
Repeating ==
  {Object(Whole \o <<pair>>) : pair \in {Text("Key", "m"), Text("key", "m"), Pair("Key", Null)}}
Sparse == {Null, Object(<<>>), Object(<<Text("key", "m")>>)}
OddItems == {Object(Whole \o <<Text("note", "k")>>), Object(<<Pair("key", Number("0"))>>), Value("string", "k")}

ListOf(facts) == Pair("candidates", [Value("array", "[]") EXCEPT !.items = facts])
Envelope(facts) == Object(<<ListOf(facts)>>)
Short == {<<>>} \cup {<<f>> : f \in Facts \cup Repeating \cup Sparse \cup OddItems}
Few == {<<>>, <<Object(Whole)>>} \cup {<<f>> : f \in Sparse} \cup {<<f, g>> : f, g \in Sparse \cup {Object(Whole)}}
Envelopes ==
  {Envelope(facts) : facts \in Short}
  \cup {Envelope(<<f, g>>) : f, g \in Facts}
  \cup {Object(<<first, second>>) : first, second \in {ListOf(facts) : facts \in Few} \cup {Pair("Candidates", Null)}}
  \cup {Object(<<ListOf(<<Object(Whole), Object(Whole)>>), ListOf(few), ListOf(<<Null, f>>)>>) :
          few \in Few, f \in Sparse}
Odd == {Object(<<>>), Object(<<Text("candidates", "k")>>), Object(<<Text("note", "k")>>), Null,
        Value("malformed", ""), Value("array", "[]"), Envelope(<<Object(Whole), Object(Whole), Object(Whole)>>)}
MCResponses ==
  {<<envelope>> : envelope \in Envelopes \cup Odd}
  \cup {<<Envelope(<<Object(Whole)>>), second>> : second \in Odd}

-----------------------------------------------------------------------------
StartupRests ==
  /\ process = "server" /\ flags = [store |-> Unset, dsn |-> Unset] /\ step = "rest" /\ opened = None
  /\ app = [given |-> FALSE, readable |-> TRUE, store |-> "", complete |-> FALSE, env |-> FALSE]
SetupRests ==
  /\ file = File("fake", Both) /\ service = "" /\ stored = NoSession
  /\ request = Idle /\ diagnosed = "none"
OutputRests ==
  /\ at = "rest" /\ declared = <<>> /\ call = NoCall /\ response = <<>> /\ result = NoResult

InputsInit ==
  \/ StartupInit /\ SetupRests /\ OutputRests
  \/ StartupRests /\ Init /\ OutputRests
  \/ StartupRests /\ SetupRests /\ OutputInit
InputsNext ==
  \/ StartupNext /\ UNCHANGED <<vars, outputVars>>
  \/ step = "rest" /\ at = "rest" /\ Next /\ UNCHANGED <<startupVars, outputVars>>
  \/ OutputNext /\ UNCHANGED <<startupVars, vars>>
InputsSpec == InputsInit /\ [][InputsNext]_<<startupVars, vars, outputVars>>
=============================================================================
