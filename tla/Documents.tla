------------------------------ MODULE Documents ------------------------------
(***************************************************************************)
(* POST /agents: the two-document body, its validation by the models of    *)
(* juicebox.schemas, and the row it becomes.                               *)
(*                                                                         *)
(* A document is the mapping YAML read from it, flattened: a function from *)
(* paths <<block, key>> to values, "top" being the block of the top-level  *)
(* keys and "map" the value of a key that holds a block.  A repeated key   *)
(* has its last value, as PyYAML gives it.  Values are named for what      *)
(* validation can tell apart: `text` any string, "nul" one with a NUL in   *)
(* it, "padded" one to strip, "blank" one of whitespace, a quoted value    *)
(* the string of a number or a flag.  NaN is left out: it equals nothing.  *)
(***************************************************************************)
EXTENDS Integers, Sequences, Functions

CONSTANT MaxEdits   \* bound: how far a body is from an example

ASSUME MaxEditsAssumption == MaxEdits \in Nat

-----------------------------------------------------------------------------
(* The fields of the models: the values validation accepts, each with the  *)
(* value model_dump gives it; samples of those it refuses; the default.    *)

Field(accepts, refuses, default) ==
    [accepts |-> accepts, default |-> default,
     refuses |-> (refuses \cup {"null"}) \ DOMAIN accepts]

Required == "required"

Itself(values) == [v \in values |-> v]

\* Of the values, those in `loose` are coerced to `strict`.
Coerced(values, loose, strict) ==
    [v \in values |-> IF v \in loose THEN strict ELSE v]

\* StringConstraints(pattern=NAME_PATTERN).
Slug == Field(Itself({"slug"}), {"Not a slug"}, Required)

SlugNames == Field(Itself({"[]", "[slug]"}), {"[Not a slug]"}, "[]")

Strings == {"text", "padded", "blank", "nul"}

Str == Itself(Strings)

\* _strip_and_require_nonempty.
Stripped == Coerced(Strings \ {"blank"}, {"padded"}, "text")

Text == Field(Stripped, {"blank", "7"}, Required)

Texts == Field(Itself({"[]", "[text]", "[nul]"}), {"[7]"}, "[]")

\* A bool of pydantic's lax mode.
Flag(default) ==
    Field(Coerced({"true", "false", "'yes'"}, {"'yes'"}, "true"), {"text"}, default)

\* A block with a model of its own; default "map" is the model's own defaults.
Block(default) == Field(Itself({"map"}), {"[]"}, default)

OptionalBlock == Field(Itself({"map", "null"}), {"[]"}, "null")

Metadata == [name |-> Slug]

ModelSpec == [provider |-> Field(Str, {"7"}, Required), model |-> Field(Str, {"7"}, Required)]

AgentSpec == [model |-> Block(Required), system_prompt |-> Text]

\* cpu is a float above 0, infinity included; memory and timeout carry a unit.
Runtime ==
    [cpu |-> Field(Coerced({"2.0", "2", "'2'", "inf"}, {"2", "'2'"}, "2.0"),
                   {"0", "text"}, Required),
     memory |-> Field(Itself({"4Gi"}), {"4", "'4'"}, Required),
     timeout |-> Field(Itself({"8h", "0s"}), {"8", "'8'"}, Required)]

\* Permissions with a network unless the document says otherwise.
PermissionsOpen ==
    [filesystem |-> Field(Itself({"read-only", "read-write"}), {"text"}, "read-only"),
     network |-> Flag("true"), shell |-> Flag("false")]

Permissions ==
    [filesystem |-> Field(Itself({"read-only", "read-write"}), {"text"}, "read-only"),
     network |-> Flag("false"), shell |-> Flag("false")]

Repository ==
    [url |-> Field(Itself({"https"}), {"ssh", "https with credentials"}, Required),
     branch |-> Field(Itself(Strings \cup {"null"}), {"7"}, "null")]

Execution ==
    [max_iterations |-> Field(Coerced({"5", "100", "'5'"}, {"'5'"}, "5"), {"0", "2.5"}, "100"),
     require_approval_for |->
        Field(Itself({"[]", "[merge]", "[merge, merge]"}), {"[unknown]"}, "[]")]

AgentDefinition ==
    [apiVersion |-> Field(Itself({"juicebox.ai/v1"}), {"juicebox.ai/v2"}, Required),
     kind |-> Field(Itself({"Agent"}), {"text"}, Required),
     metadata |-> Block(Required), agent |-> Block(Required),
     skills |-> SlugNames, secrets |-> SlugNames,
     runtime |-> OptionalBlock, permissions |-> Block("map"),
     repository |-> OptionalBlock, execution |-> Block("map")]

CompletionAction ==
    [commit |-> Flag("false"), push |-> Flag("false"), pull_request |-> Flag("false")]

Objective ==
    [id |-> Slug, goal |-> Text,
     context |-> Field(Itself({"{}", "{text}", "{nul}"}), {"{7}"}, "{}"),
     tasks |-> Texts, constraints |-> Texts,
     success_criteria |-> Field(Itself({"[text]", "[nul]"}), {"[]", "[7]"}, Required),
     completion_action |-> Block("map")]

ObjectiveDocument == [objective |-> Block(Required)]

\* The model of a block, by the key that holds it; at the top it is `top`.
Blocks ==
    [metadata |-> Metadata, agent |-> AgentSpec, model |-> ModelSpec,
     runtime |-> Runtime, permissions |-> Permissions, repository |-> Repository,
     execution |-> Execution, objective |-> Objective,
     completion_action |-> CompletionAction]

Model(top, b) == IF b = "top" THEN top ELSE Blocks[b]

-----------------------------------------------------------------------------
(* Validation.                                                             *)

FieldAt(top, p) == Model(top, p[1])[p[2]]

\* What the model holds at path p once it has validated, "refused" if it does
\* not.
Value(keys, top, p) ==
    LET field == FieldAt(top, p) IN
    CASE p \notin DOMAIN keys -> field.default
      [] p \in DOMAIN keys /\ keys[p] \in DOMAIN field.accepts -> field.accepts[keys[p]]
      [] OTHER -> "refused"

\* The blocks that are there, by the document or by default.
Within(keys, top, b) ==
    {k \in DOMAIN Model(top, b) : Value(keys, top, <<b, k>>) = "map"}

Open(keys, top) ==
    LET outer == Within(keys, top, "top")
    IN  {"top"} \cup outer \cup UNION {Within(keys, top, b) : b \in outer}

Paths(keys, top) == UNION {{b} \X DOMAIN Model(top, b) : b \in Open(keys, top)}

\* _check_dependencies, on values that are valid.
Possible(keys, top) ==
    LET on(k) == Value(keys, top, <<"completion_action", k>>) = "true"
    IN  (on("push") => on("commit")) /\ (on("pull_request") => on("push"))

\* An impossible completion_action is an error of its own once its keys are
\* valid.
Impossible(keys, top, wrong) ==
    IF \/ "completion_action" \notin Open(keys, top)
       \/ \E p \in wrong : p[1] = "completion_action"
       \/ Possible(keys, top)
    THEN {}
    ELSE {<<"objective", "completion_action">>}

Wrong(keys, top) ==
    {p \in Paths(keys, top) : Value(keys, top, p) \in {"refused", Required}}

\* Errors under extra="ignore".
ErrorsLenient(keys, top) ==
    Wrong(keys, top) \cup Impossible(keys, top, Wrong(keys, top))

\* The paths model_validate reports: a value refused or missing, a key no
\* model has (extra="forbid"), an impossible completion_action.
Errors(keys, top) ==
    LET open == Open(keys, top)
        paths == Paths(keys, top)
        wrong == Wrong(keys, top) \cup {p \in DOMAIN keys \ paths : p[1] \in open}
    IN  wrong \cup Impossible(keys, top, wrong)

\* A document that is no mapping has one error, at the empty path.
Located(doc, top) == IF doc.mapping THEN Errors(doc.keys, top) ELSE {<<>>}

\* A dump by field name: api_version for apiVersion.
DumpByName(keys, top) ==
    LET name(p) == IF p = <<"top", "apiVersion">> THEN <<"top", "api_version">> ELSE p
        names == {name(p) : p \in Paths(keys, top)}
    IN  [q \in names |-> Value(keys, top, CHOOSE p \in Paths(keys, top) : name(p) = q)]

\* model_dump(by_alias=True): every field of every block, defaults included;
\* memory_bytes and timeout_delta are properties and stay out of it.
Dump(keys, top) == [p \in Paths(keys, top) |-> Value(keys, top, p)]

\* `.objective`: what was under the key `objective` is a document of its own.
Unwrap(keys) ==
    LET Inner(p) == IF p[1] = "objective" THEN <<"top", p[2]>> ELSE p
        Outer(p) == IF p[1] = "top" THEN <<"objective", p[2]>> ELSE p
    IN  [p \in {Inner(q) : q \in DOMAIN keys \ {<<"top", "objective">>}} |-> keys[Outer(p)]]

\* Values that validate and that a JSONB column refuses: an infinity, which
\* is no JSON, and a NUL in a string.
Unstorable == {"inf", "nul", "[nul]", "{nul}"}

-----------------------------------------------------------------------------
(* The request.                                                            *)

VARIABLES
    body,    \* the documents a client has prepared, their order, how they read
    edits,   \* changes made to the example so far
    reply,   \* the status and the locations of the errors
    row      \* the agent persisted, or NoRow

vars == <<body, edits, reply, row>>

NoReply == [code |-> "none", locs |-> {}]
NoRow == [there |-> FALSE]

\* The keys of both, those of f where they differ.
Merged(f, g) ==
    [p \in DOMAIN f \cup DOMAIN g |-> IF p \in DOMAIN f THEN f[p] ELSE g[p]]

\* The keys with p set to v.
With(keys, p, v) == [q \in DOMAIN keys \cup {p} |-> IF q = p THEN v ELSE keys[q]]

Flat(blocks) ==
    [p \in UNION {{b} \X DOMAIN blocks[b] : b \in DOMAIN blocks} |-> blocks[p[1]][p[2]]]

\* MINIMAL of test_schema_loading.py, and of test_schema_objective.py.
Minimal ==
    [definition |-> [mapping |-> TRUE, keys |-> Flat(
        [top |-> [apiVersion |-> "juicebox.ai/v1", kind |-> "Agent",
                  metadata |-> "map", agent |-> "map"],
         metadata |-> [name |-> "slug"],
         agent |-> [model |-> "map", system_prompt |-> "padded"],
         model |-> [provider |-> "text", model |-> "text"]])],
     objective |-> [mapping |-> TRUE, keys |-> Flat(
        [top |-> [objective |-> "map"],
         objective |-> [id |-> "slug", goal |-> "text", success_criteria |-> "[text]"]])],
     order |-> <<"definition", "objective">>, text |-> "well-formed"]

\* examples/full.agent.yaml and improve-api-tests.objective.yaml.
Full ==
    [Minimal EXCEPT
        !.definition.keys = Merged(@, Flat(
            [top |-> [skills |-> "[slug]", secrets |-> "[slug]", runtime |-> "map",
                      permissions |-> "map", repository |-> "map", execution |-> "map"],
             runtime |-> [cpu |-> "2", memory |-> "4Gi", timeout |-> "8h"],
             permissions |-> [filesystem |-> "read-write", network |-> "true",
                              shell |-> "true"],
             repository |-> [url |-> "https", branch |-> "text"],
             execution |-> [max_iterations |-> "5", require_approval_for |-> "[merge]"]])),
        !.objective.keys = Merged(@, Flat(
            [objective |-> [context |-> "{text}", tasks |-> "[text]",
                            constraints |-> "[text]", completion_action |-> "map"],
             completion_action |-> [commit |-> "true", push |-> "true",
                                    pull_request |-> "true"]]))]

Init ==
    /\ body \in {Minimal, Full}
    /\ edits = 0
    /\ reply = NoReply
    /\ row = NoRow

Top(d) == IF d = "definition" THEN AgentDefinition ELSE ObjectiveDocument

Edit(new) ==
    /\ reply = NoReply
    /\ edits < MaxEdits
    /\ edits' = edits + 1
    /\ body' = new
    /\ UNCHANGED <<reply, row>>

\* The keys of document d become `keys`; those of a block that is gone go.
Rewrite(d, keys) ==
    LET open == Open(keys, Top(d)) IN
    Edit([body EXCEPT ![d].keys = Restrict(keys, {p \in DOMAIN keys : p[1] \in open})])

\* The client sets a key, known or not, drops one, gives a list for a document,
\* swaps, drops or repeats documents, or garbles the text.
SetKey(d) ==
    LET keys == body[d].keys IN
    \E p \in Paths(keys, Top(d)) :
        /\ p[1] = "top" \/ \E q \in DOMAIN keys : q[2] = p[1] /\ keys[q] = "map"
        /\ LET field == FieldAt(Top(d), p) IN
           \E v \in DOMAIN field.accepts \cup field.refuses : Rewrite(d, With(keys, p, v))

DropKey(d) ==
    LET keys == body[d].keys IN
    \E p \in DOMAIN keys : Rewrite(d, Restrict(keys, DOMAIN keys \ {p}))

AddUnknown(d) ==
    LET keys == body[d].keys IN
    \E p \in DOMAIN keys, k \in {"unknown", "api_version"} :
        Rewrite(d, With(keys, <<p[1], k>>, "juicebox.ai/v1"))

Unmap(d) == Edit([body EXCEPT ![d].mapping = FALSE])

Reorder ==
    \E order \in {<<>>, <<"definition">>, <<"objective">>, <<"objective", "definition">>,
                  <<"definition", "definition">>, <<"definition", "objective", "objective">>} :
        Edit([body EXCEPT !.order = order])

Garble ==
    \E text \in {"undecodable", "malformed", "impossible scalar"} :
        Edit([body EXCEPT !.text = text])

\* The exceptions create_app maps to a 422, were it to register ValueError, of
\* which pydantic's ValidationError is one.
HandledValueErrors == {"ValidationError", "YAMLError", "ValueError", "UnicodeDecodeError"}

\* The exceptions create_app maps to a 422, were the second decorator missing.
HandledOnlyValidation == {"ValidationError"}

\* The exceptions create_app maps to a 422.
Handled == {"ValidationError", "YAMLError"}

Answer(code, locs) ==
    /\ reply = NoReply
    /\ reply' = [code |-> code, locs |-> locs]
    /\ UNCHANGED <<body, edits>>

\* create_agent raises: validation_error_detail for what is handled, a bare 500
\* for what is not.
Raise(exception, locs) ==
    /\ IF exception \in Handled THEN Answer("422", locs) ELSE Answer("500", {})
    /\ UNCHANGED row

\* body().decode(), then safe_load_all.  A scalar that looks like a date and is
\* none (2024-02-30) passes the parser and fails its constructor, which raises
\* a ValueError of its own.
RefuseText ==
    \/ body.text = "undecodable" /\ Raise("UnicodeDecodeError", {})
    \/ body.text = "malformed" /\ Raise("YAMLError", {<<>>})
    \/ body.text = "impossible scalar" /\ Raise("ValueError", {})

\* Not exactly two documents.
RefuseCount ==
    /\ body.text = "well-formed" /\ Len(body.order) # 2
    /\ Answer("422", {<<>>})
    /\ UNCHANGED row

Document(i) == body[body.order[i]]

TwoDocuments == body.text = "well-formed" /\ Len(body.order) = 2

\* The errors of the definition are reported alone: the objective is not
\* validated before the definition has been.
RefuseDefinition ==
    /\ TwoDocuments
    /\ Located(Document(1), AgentDefinition) # {}
    /\ Raise("ValidationError", Located(Document(1), AgentDefinition))

RefuseObjective ==
    /\ TwoDocuments
    /\ Located(Document(1), AgentDefinition) = {}
    /\ Located(Document(2), ObjectiveDocument) # {}
    /\ Raise("ValidationError", Located(Document(2), ObjectiveDocument))

\* `repository.url if repository else None`.
OrNull(definition, p) == IF p \in DOMAIN definition THEN definition[p] ELSE "null"

\* AgentRepository.create with the two dumps and what the listing shows of
\* them; the INSERT fails on a value JSONB
\* does not take.
Create ==
    /\ TwoDocuments
    /\ Located(Document(1), AgentDefinition) = {}
    /\ Located(Document(2), ObjectiveDocument) = {}
    /\ LET definition == Dump(Document(1).keys, AgentDefinition)
           objective == Unwrap(Dump(Document(2).keys, ObjectiveDocument))
       IN  IF (Range(definition) \cup Range(objective)) \cap Unstorable # {}
           THEN Raise("DBAPIError", {})
           ELSE /\ Answer("201", {})
                /\ row' = [there |-> TRUE, definition |-> definition, objective |-> objective,
                           name |-> definition[<<"metadata", "name">>],
                           repository_url |-> OrNull(definition, <<"repository", "url">>),
                           base_branch |-> OrNull(definition, <<"repository", "branch">>)]

\* The client starts over.
StartOver ==
    /\ reply # NoReply
    /\ body' \in {Minimal, Full} /\ edits' = 0 /\ reply' = NoReply /\ row' = NoRow

Next ==
    \/ \E d \in {"definition", "objective"} :
          SetKey(d) \/ DropKey(d) \/ AddUnknown(d) \/ Unmap(d)
    \/ Reorder \/ Garble
    \/ RefuseText \/ RefuseCount \/ RefuseDefinition \/ RefuseObjective \/ Create
    \/ StartOver

Spec == Init /\ [][Next]_vars

-----------------------------------------------------------------------------
(* Properties.                                                             *)

TypeOK ==
    /\ \A d \in {"definition", "objective"} :
          \A p \in DOMAIN body[d].keys : p[1] \in Open(body[d].keys, Top(d))
    /\ edits \in 0..MaxEdits
    /\ reply.code \in {"none", "201", "422", "500"}
    /\ reply.code = "422" <=> reply.locs # {}
    /\ reply.code = "201" <=> row.there

\* "W3 persists validated definitions as JSONB and reads them back through the
\* same model": what is stored is itself a valid document, of the same value.
DocumentsRoundTrip ==
    row.there =>
        /\ Errors(row.definition, AgentDefinition) = {}
        /\ Dump(row.definition, AgentDefinition) = row.definition
        /\ Errors(row.objective, Objective) = {}
        /\ Dump(row.objective, Objective) = row.objective

\* What an agent may do and what its run may publish are never granted by
\* leaving something out: a block, a key, or a whole document's worth of them.
\* And no run is asked for a publication it could not perform.
NothingGrantedUnasked ==
    row.there =>
        /\ \A p \in DOMAIN row.definition :
              /\ p[1] = "permissions"
              /\ row.definition[p] \in {"true", "read-write"}
              => p \in DOMAIN Document(1).keys
        /\ \A p \in DOMAIN row.objective :
              p[1] = "completion_action" /\ row.objective[p] = "true"
              => p \in DOMAIN Document(2).keys
        /\ Possible(row.objective, Objective)

\* "An unknown key is a validation error, not a silently dropped setting":
\* every key of an accepted body is in the row, with the value it was given up
\* to coercion and stripping.
NoSettingDropped ==
    row.there =>
        /\ \A p \in DOMAIN Document(1).keys :
              /\ p \in DOMAIN row.definition
              /\ row.definition[p] =
                    FieldAt(AgentDefinition, p).accepts[Document(1).keys[p]]
        /\ LET keys == Unwrap(Document(2).keys) IN
           \A p \in DOMAIN keys :
              /\ p \in DOMAIN row.objective
              /\ row.objective[p] = FieldAt(Objective, p).accepts[keys[p]]

\* FEATURES.md: a body that is not two documents or fails validation is a 422.
\* Whatever is wrong with it, a 500 is left only for text that cannot be
\* decoded, a scalar YAML cannot construct, and values JSONB does not take;
\* and a 422 without a location only for text, documents or shapes that have
\* none to give.
FaultsAreAnswered ==
    /\ reply.code = "500" =>
          \/ body.text \in {"undecodable", "impossible scalar"}
          \/ \E i \in {1, 2} : Range(Document(i).keys) \cap Unstorable # {}
    /\ reply.code = "422" /\ <<>> \in reply.locs =>
          \/ body.text = "malformed" \/ Len(body.order) # 2
          \/ \E i \in {1, 2} : ~Document(i).mapping

=============================================================================
