----------------------------- MODULE ModelOutput -----------------------------
(***************************************************************************)
(* What the program takes from text that a model wrote.                    *)
(*                                                                         *)
(* The arguments of a tool call: the tools of a run are cloned and checked *)
(* (newGovernedToolSet, governed_tools.go), the arguments are decoded and  *)
(* checked against the schema of the tool, and the executor, here the      *)
(* calculator (internal/tools), decodes the same text again in its own     *)
(* way.  Approval and timeouts come in between (AgentLoop).                *)
(*                                                                         *)
(* The response of a memory extraction: it is read from the provider's     *)
(* stream, decoded and checked as a whole (llm_memory_extractor.go).       *)
(*                                                                         *)
(* A text is the sequence of the JSON values it holds; a value with the    *)
(* type "malformed" is no JSON.  A JSON object is a sequence of pairs, as  *)
(* it is written: a key may repeat, or differ only in case.  An array is   *)
(* the sequence of its items.  A value of another type has neither.        *)
(***************************************************************************)
EXTENDS Integers, Sequences, FiniteSetsExt

CONSTANTS
  Declarations,  \* lists of tools that a run may be given
  KnownNames,    \* names known but not authorised
  CallNames,     \* names that the model calls
  Arguments,     \* texts of arguments
  Responses,     \* texts of an extraction
  Strip,         \* strings.TrimSpace
  Fold,          \* keys of objects in lower case
  Depth,         \* how deep a JSON value nests (10000 in encoding/json)
  Limit          \* candidates in one response (32 in the code)

-----------------------------------------------------------------------------
(* Values, and the decoding of an object *)

Keys(object) == {object.pairs[k].key : k \in 1..Len(object.pairs)}

\* The last of the pairs with one of the keys: json.Unmarshal, into a map with
\* a key itself, into a struct with every key that differs only in case.
ValueOf(object, keys) ==
  object.pairs[Max({k \in 1..Len(object.pairs) : object.pairs[k].key \in keys})].value

Decoded(object, key) == ValueOf(object, {key})
KeysLike(object, field) == {key \in Keys(object) : Fold[key] = field}

-----------------------------------------------------------------------------
(* The tools of a run *)

\* A schema without keywords.
AnySchema == [type |-> "", enum |-> {}, required |-> {}, properties |-> <<>>, closed |-> FALSE]
NoSchema == [AnySchema EXCEPT !.type = "no schema"]

CalculatorFields == {"a", "b", "op"}
CalculatorOps == {"add", "sub", "mul", "div"}

\* Calculator.Parameters.
CalculatorSchema ==
  [AnySchema EXCEPT
     !.type = "object", !.required = CalculatorFields,
     !.properties = [field \in CalculatorFields |->
        IF field = "op" THEN [AnySchema EXCEPT !.type = "string", !.enum = CalculatorOps]
        ELSE [AnySchema EXCEPT !.type = "number"]]]

\* What legacyAllowedTools makes of a registry that holds the calculator.
\* lists: how "enum" and "required" are typed in the schema, as Go strings or
\* as JSON values; the checks see the latter only.
Calculator ==
  [name |-> "calculator", version |-> TRUE, executor |-> TRUE, timeout |-> 0,
   concurrency |-> "exclusive", readOnly |-> FALSE, parameters |-> CalculatorSchema,
   lists |-> "go"]

\* The name of the calculator is the calculator's.  Keys are written as Fold
\* knows them.
ASSUME OutputAssumption ==
  /\ Limit \in Nat /\ Depth \in Nat \ {0}
  /\ KnownNames \cup CallNames \subseteq DOMAIN Strip
  /\ \A name \in DOMAIN Strip : Strip[Strip[name]] = Strip[name]
  /\ Strip[""] = ""
  /\ \A field \in CalculatorFields : field \in DOMAIN Fold /\ Fold[field] = field
  /\ \A key \in DOMAIN Fold : Fold[Fold[key]] = Fold[key]
  /\ \A tools \in Declarations : \A i \in 1..Len(tools) :
       /\ tools[i].name \in DOMAIN Strip
       /\ Strip[tools[i].name] = Calculator.name => tools[i].parameters = CalculatorSchema
  /\ \A text \in Arguments : \A i \in 1..Len(text) : Len(text[i].pairs) \in Nat

\* Texts, pairs and items are sequences.
ASSUME ResponseAssumption ==
  \A text \in Responses : \A i \in 1..Len(text) :
       /\ Len(text[i].pairs) \in Nat
       /\ \A p \in 1..Len(text[i].pairs) : LET items == text[i].pairs[p].value.items IN
            Len(items) \in Nat /\ \A j \in 1..Len(items) : Len(items[j].pairs) \in Nat

VARIABLES
  at,        \* where the call or the extraction is
  declared,  \* the tools given to the run
  call,      \* the call: name and arguments
  response,  \* the text of the extraction
  result     \* what came of it

outputVars == <<at, declared, call, response, result>>

\* Mutant of Encoded: the schema is taken as it was declared.
EncodedAsDeclared(lists) == lists

\* cloneJSONMap: a schema that has been through JSON has JSON lists.
Encoded(lists) == "json"

\* cloneAllowedTool.
Cloned(tool) ==
  [name |-> Strip[tool.name], version |-> tool.version, executor |-> tool.executor,
   timeout |-> tool.timeout, readOnly |-> tool.readOnly, parameters |-> tool.parameters,
   concurrency |-> IF tool.concurrency = "" THEN "exclusive" ELSE tool.concurrency,
   lists |-> Encoded(tool.lists)]

\* validateAllowedTool.
ValidTool(tool) ==
  /\ tool.name # "" /\ tool.version /\ tool.executor
  /\ tool.timeout >= 0
  /\ \/ tool.concurrency = "exclusive"
     \/ tool.concurrency = "shared" /\ tool.readOnly
  /\ tool.parameters # NoSchema

\* newGovernedToolSet, for tools in the order they are given: an invalid one or
\* a name that is taken refuses the whole set.
ValidSet(tools) ==
  \A i \in 1..Len(tools) :
    /\ ValidTool(Cloned(tools[i]))
    /\ \A j \in 1..(i - 1) : Cloned(tools[j]).name # Cloned(tools[i]).name

Allowed(tools) == {Cloned(tools[i]) : i \in 1..Len(tools)}

-----------------------------------------------------------------------------
(* The check of arguments *)

\* Mutant of MatchesType: only objects are told from other values.
MatchesObject(expected, value) == expected = "object" => value.type = "object"

\* matchesJSONType: a type it does not know is no restriction.
MatchesType(expected, value) ==
  IF expected \in {"object", "array", "string", "number", "boolean", "null"}
    THEN value.type = expected
    ELSE expected = "integer" => value.type = "number" /\ value.int64

\* validateJSONSchemaValue on one level: enum compares the printed forms, a
\* property that is not declared is checked only for being allowed, and items
\* not at all.
Accepts(schema, lists, value) ==
  /\ schema.type # "" => MatchesType(schema.type, value)
  /\ schema.enum # {} /\ lists = "json" => value.text \in schema.enum
  /\ value.type = "object" =>
       /\ lists = "json" => schema.required \subseteq Keys(value)
       /\ schema.closed => Keys(value) \subseteq DOMAIN schema.properties

\* The declared properties that an object has, with their values; and those of
\* all objects of a level.
Properties(schema, value) ==
  IF value.type # "object" THEN {}
  ELSE {<<schema.properties[key], Decoded(value, key)>> :
          key \in Keys(value) \cap DOMAIN schema.properties}
Below(level) == UNION {Properties(p[1], p[2]) : p \in level}

\* A value and what is declared in it, level by level, each with its schema.
Parts(schema, value) ==
  LET level[n \in 0..Depth] == IF n = 0 THEN {<<schema, value>>} ELSE Below(level[n - 1])
  IN  UNION {level[n] : n \in 0..Depth}

\* validateJSONSchemaValue.
Conforms(schema, lists, value) == \A p \in Parts(schema, value) : Accepts(p[1], lists, p[2])

\* validateToolArguments: one JSON value and nothing after it.
ValidArguments(tool, text) ==
  Len(text) = 1 /\ text[1].type # "malformed" /\ Conforms(tool.parameters, tool.lists, text[1])

-----------------------------------------------------------------------------
(* A call *)

NoCall == [name |-> "", arguments |-> <<>>]
NoResult == [kind |-> "none"]

InitCall ==
  /\ at = "declare"
  /\ declared \in Declarations
  /\ call = NoCall
  /\ response = <<>>
  /\ result = NoResult

End(r) == at' = "done" /\ result' = r

\* An invalid tool set fails the run.
BuildTools ==
  /\ at = "declare"
  /\ IF ValidSet(declared) THEN at' = "ready" /\ UNCHANGED result ELSE End([kind |-> "run fails"])
  /\ UNCHANGED <<declared, call, response>>

ModelCalls ==
  /\ at = "ready"
  /\ \E name \in CallNames, text \in Arguments : call' = [name |-> name, arguments |-> text]
  /\ at' = "check"
  /\ UNCHANGED <<declared, response, result>>

Tool == CHOOSE tool \in Allowed(declared) : tool.name = call.name

\* execute, up to the executor; a known name is denied, another is skipped.
Check ==
  /\ at = "check"
  /\ IF \A tool \in Allowed(declared) : tool.name # call.name
       THEN End([kind |-> IF call.name \in {Strip[name] : name \in KnownNames} \ {""}
                          THEN "denied" ELSE "skipped"])
     ELSE IF ValidArguments(Tool, call.arguments)
       THEN at' = "execute" /\ UNCHANGED result
     ELSE End([kind |-> "invalid arguments"])
  /\ UNCHANGED <<declared, call, response>>

\* A value that a field of calculatorArgs takes; null leaves the field alone.
Fits(field, value) ==
  \/ value.type = "null"
  \/ field = "op" /\ value.type = "string"
  \/ field # "op" /\ value.type = "number" /\ value.float64

\* Calculator.Call: the arguments are decoded into a struct, where later keys
\* overwrite earlier ones whatever their case.  The values computed with:
Operands(object) ==
  [field \in CalculatorFields |->
     LET kept == {k \in 1..Len(object.pairs) :
                    Fold[object.pairs[k].key] = field /\ object.pairs[k].value.type # "null"}
     IN  object.pairs[Max(kept)].value.text]

CanCalculate(object) ==
  /\ CalculatorFields \subseteq Keys(object)
  /\ \A field \in CalculatorFields, k \in 1..Len(object.pairs) :
       Fold[object.pairs[k].key] = field => Fits(field, object.pairs[k].value)
  /\ Operands(object)["op"] \in CalculatorOps
  /\ ~(Operands(object)["op"] = "div" /\ Operands(object)["b"] = "0")

\* The registry executes the calculator; other tools come from elsewhere.
Execute ==
  /\ at = "execute"
  /\ IF call.name # Calculator.name
       THEN \E kind \in {"success", "error"} : End([kind |-> kind, used |-> <<>>])
     ELSE IF CanCalculate(call.arguments[1])
       THEN End([kind |-> "success", used |-> Operands(call.arguments[1])])
     ELSE End([kind |-> "error"])
  /\ UNCHANGED <<declared, call, response>>

CallNext == BuildTools \/ ModelCalls \/ Check \/ Execute

-----------------------------------------------------------------------------
(* An extraction *)

CandidateFields == {"operation", "key", "content", "source", "provenance"}

InitExtraction ==
  /\ at = "extract"
  /\ declared = <<>>
  /\ call = NoCall
  /\ response = <<>>
  /\ result = NoResult

\* The request fails, the stream fails or ends early, the response is blank,
\* or the context ends.
ExtractionFails ==
  /\ at = "extract"
  /\ End([kind |-> "no candidates"])
  /\ UNCHANGED <<declared, call, response>>

\* collectMemoryExtractionResponse: the text of the done event.
Answers ==
  /\ at = "extract"
  /\ response' \in Responses \ {<<>>}
  /\ at' = "decode"
  /\ UNCHANGED <<declared, call, result>>

\* A memoryCandidateJSON can be read of an item: no field but its own, each a
\* text.  Keys may differ in case, and null is read as no text, or no fields.
DecodesItem(item) ==
  \/ item.type = "null"
  \/ /\ item.type = "object"
     /\ \A q \in 1..Len(item.pairs) :
          /\ Fold[item.pairs[q].key] \in CandidateFields
          /\ item.pairs[q].value.type \in {"string", "null"}

\* A memoryCandidateEnvelope can be read of a value: no field but "candidates",
\* in any case and as often as it comes, each a list or null.
Decodes(value) ==
  \/ value.type = "null"
  \/ /\ value.type = "object"
     /\ \A p \in 1..Len(value.pairs) :
          LET list == value.pairs[p].value
          IN  /\ Fold[value.pairs[p].key] = "candidates"
              /\ \/ list.type = "null"
                 \/ list.type = "array" /\ \A i \in 1..Len(list.items) : DecodesItem(list.items[i])

\* The lists of candidates in an envelope: the last says how many there are.
Lists(envelope) == {p \in 1..Len(envelope.pairs) : Fold[envelope.pairs[p].key] = "candidates"}
Items(envelope, p) == envelope.pairs[p].value.items
Count(envelope) == IF Lists(envelope) = {} THEN 0 ELSE Len(Items(envelope, Max(Lists(envelope))))

\* Where an item has a text for a field.
TextsFor(item, field) ==
  {q \in 1..Len(item.pairs) :
     Fold[item.pairs[q].key] = field /\ item.pairs[q].value.type = "string"}

\* Where the i-th candidate gets a text for a field.  A list is read over the
\* one before, item by item; an empty one, and null, clear what was read.
ListsFor(envelope, i, field) ==
  {p \in Lists(envelope) :
     /\ i <= Len(Items(envelope, p)) /\ TextsFor(Items(envelope, p)[i], field) # {}
     /\ \A e \in Lists(envelope) : Items(envelope, e) = <<>> => e < p}

\* The text of a field as it is read: the last that was written.
FieldText(envelope, i, field) ==
  IF ListsFor(envelope, i, field) = {} THEN ""
  ELSE LET item == Items(envelope, Max(ListsFor(envelope, i, field)))[i]
       IN  item.pairs[Max(TextsFor(item, field))].value.text

\* What is kept of a text.
Trimmed(field, text) == IF field = "operation" THEN text ELSE Strip[text]

\* The candidates of an envelope, with the scope of the extractor.
Candidates(envelope) ==
  [i \in 1..Count(envelope) |->
     [field \in CandidateFields \cup {"scope"} |->
        IF field = "scope" THEN "the extractor's" ELSE Trimmed(field, FieldText(envelope, i, field))]]

\* validateMemoryCandidates.
ValidCandidate(candidate) ==
  /\ candidate.operation \in {"upsert", "forget"}
  /\ Strip[candidate.key] # "" /\ Strip[candidate.source] # "" /\ Strip[candidate.provenance] # ""
  /\ candidate.operation = "upsert" => Strip[candidate.content] # ""

\* Mutant of WholeResponse: what follows the first value is not looked at.
FirstOfResponse(text) == Decodes(text[1]) /\ Count(text[1]) <= Limit

\* decodeMemoryCandidates: one value, without unknown fields or trailing data.
WholeResponse(text) == Len(text) = 1 /\ Decodes(text[1]) /\ Count(text[1]) <= Limit

Decode ==
  /\ at = "decode"
  /\ LET candidates == Candidates(response[1])
     IN  IF WholeResponse(response) /\ \A i \in 1..Count(response[1]) : ValidCandidate(candidates[i])
           THEN End([kind |-> "candidates", candidates |-> candidates])
           ELSE End([kind |-> "no candidates"])
  /\ UNCHANGED <<declared, call, response>>

ExtractionNext == ExtractionFails \/ Answers \/ Decode

-----------------------------------------------------------------------------
OutputInit == InitCall \/ InitExtraction
OutputNext == CallNext \/ ExtractionNext
OutputSpec == OutputInit /\ [][OutputNext]_outputVars

-----------------------------------------------------------------------------
(* Properties *)

Executed == at = "execute" \/ (at = "done" /\ result.kind \in {"success", "error"})

\* A value that a schema allows: of the type it names, an integer of 64 bits
\* where it asks for one; of the values it lists, as they are printed; an object
\* with what it requires, and no more than it declares when it is closed.  How
\* its lists are typed makes no difference.
RightFor(schema, value) ==
  /\ schema.type = "integer" => value.type = "number" /\ value.int64
  /\ schema.type \in {"object", "array", "string", "number", "boolean", "null"} =>
       value.type = schema.type
  /\ schema.enum # {} => value.text \in schema.enum
  /\ value.type = "object" =>
       /\ schema.required \subseteq Keys(value)
       /\ schema.closed => Keys(value) \subseteq DOMAIN schema.properties

\* An executor runs only for a name that stands for one tool of the run, with
\* one value that is right for its schema, and whose parts are right for theirs
\* at every depth; also when the tool declared its lists as Go strings, which
\* the check does not see.  Only objects have parts here: the check does not
\* look into arrays (L165-192, L225-260, L414-513; calculator.go L29-39).
OnlyConformingCallsRun ==
  Executed =>
    /\ \E i \in 1..Len(declared) : \A j \in 1..Len(declared) :
         Strip[declared[j].name] = call.name <=> j = i
    /\ Len(call.arguments) = 1
    /\ \A p \in Parts(Tool.parameters, call.arguments[1]) : RightFor(p[1], p[2])

\* The calculator computes with the values that were checked, unless a key that
\* differs only in case hides one; with such a key, and with a number too large
\* to decode, it still never takes a missing operand for zero, divides by zero,
\* or computes by an operation it does not declare (calculator.go L42-79).
ComputesWhatWasSaid ==
  at = "done" /\ result.kind = "success" /\ call.name = Calculator.name =>
    LET object == call.arguments[1]
        used == result.used
    IN  /\ \A field \in CalculatorFields :
             /\ field \in Keys(object)
             /\ \/ used[field] = Decoded(object, field).text
                \/ KeysLike(object, field) # {field}
        /\ used["op"] \in CalculatorOps
        /\ used["op"] = "div" => used["b"] # "0"

\* What runs is what was checked: both of the above, of every call.
CheckedIsWhatRuns == OnlyConformingCallsRun /\ ComputesWhatWasSaid

\* A candidate that can be committed to memory.
Complete(candidate) ==
  /\ candidate.operation \in {"upsert", "forget"}
  /\ \A field \in {"key", "source", "provenance"} : candidate[field] # ""
  /\ candidate.operation = "upsert" => candidate.content # ""

\* No field is written twice, in whatever case: neither the list nor a field of
\* an item.
WrittenOnce(envelope) ==
  /\ \A p, r \in Lists(envelope) : p = r
  /\ \A p \in Lists(envelope) : \A i \in 1..Len(Items(envelope, p)), field \in CandidateFields :
       LET texts == TextsFor(Items(envelope, p)[i], field) IN \A q, r \in texts : q = r

\* What the response says in a field of the i-th item of a list.
Said(envelope, i, field) ==
  {Items(envelope, w[1])[i].pairs[w[2]].value.text : w \in
     UNION {{p} \X TextsFor(Items(envelope, p)[i], field) :
              p \in {r \in Lists(envelope) : i <= Len(Items(envelope, r))}}}

\* Each candidate is complete and in the scope of the extractor, and nothing of
\* it is made up: what a field says stands in that field of that item.
AreTrue(candidates, envelope) ==
  \A i \in 1..Len(candidates) :
    /\ Complete(candidates[i])
    /\ candidates[i].scope = "the extractor's"
    /\ \E p \in Lists(envelope) : i <= Len(Items(envelope, p))
    /\ \A field \in CandidateFields :
         \/ candidates[i][field] = ""
         \/ \E text \in Said(envelope, i, field) : candidates[i][field] = Trimmed(field, text)

\* The candidates are all items of the list, in order, with all that they say.
AreAll(candidates, envelope) ==
  /\ \A p \in Lists(envelope) : Len(candidates) = Len(Items(envelope, p))
  /\ \A i \in 1..Len(candidates), field \in CandidateFields :
       \A text \in Said(envelope, i, field) : candidates[i][field] = Trimmed(field, text)

\* Candidates come from a response that is right as a whole, none from one that
\* goes on after the first value.  They are no more than the limit and each is
\* complete, so that the second validation in the Runtime (runtime.go L124)
\* never refuses them, and true.  A response that writes no field twice gives
\* every item of its list, in order.  One that does is not refused (L165-171): a
\* later list replaces the one before, and what its items leave out is kept of
\* the items that were in their places.
CandidatesAreTheWholeResponse ==
  result.kind = "candidates" =>
    /\ Len(response) = 1 /\ Len(result.candidates) <= Limit
    /\ AreTrue(result.candidates, response[1])
    /\ WrittenOnce(response[1]) => AreAll(result.candidates, response[1])

=============================================================================
