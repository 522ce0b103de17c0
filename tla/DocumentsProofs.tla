--------------------------- MODULE DocumentsProofs ---------------------------
(***************************************************************************)
(* Machine-checked proofs about Documents for a body however far from the  *)
(* examples.                                                               *)
(***************************************************************************)
EXTENDS Documents, TLAPS

-----------------------------------------------------------------------------
(* What every field of every model keeps to.                               *)

\* What a field k makes of a value it makes of itself, and of its default;
\* nothing storable becomes unstorable, and only a block opens one.
Sound(k, field) ==
    /\ \A v \in DOMAIN field.accepts :
          /\ field.accepts[v] \in DOMAIN field.accepts
          /\ field.accepts[field.accepts[v]] = field.accepts[v]
          /\ field.accepts[v] \notin {"refused", "required"}
          /\ field.accepts[v] \in Unstorable => v \in Unstorable
          /\ field.accepts[v] = "map" => k \in DOMAIN Blocks
    /\ field.default # "required" =>
          /\ field.default \in DOMAIN field.accepts
          /\ field.accepts[field.default] = field.default
          /\ field.default \notin Unstorable

SoundModel(model) == \A k \in DOMAIN model : Sound(k, model[k])

\* A field that keeps its values is sound.
LEMMA ItselfSound ==
    ASSUME NEW k, NEW values, NEW refuses, NEW default,
           "refused" \notin values, "required" \notin values,
           "map" \in values => k \in DOMAIN Blocks,
           default # "required" => default \in values /\ default \notin Unstorable
    PROVE  Sound(k, Field(Itself(values), refuses, default))
BY DEF Sound, Field, Itself

\* A field that coerces loose values to a strict one is sound.
LEMMA CoercedSound ==
    ASSUME NEW k, NEW values, NEW loose, NEW strict, NEW refuses, NEW default,
           "refused" \notin values, "required" \notin values, "map" \notin values,
           strict \in values, strict \notin loose, strict \notin Unstorable,
           default # "required" =>
               default \in values /\ default \notin loose /\ default \notin Unstorable
    PROVE  Sound(k, Field(Coerced(values, loose, strict), refuses, default))
BY DEF Sound, Field, Coerced

\* The fields of Metadata are sound.
LEMMA MetadataSound == SoundModel(Metadata)
<1>1. Sound("name", Metadata.name)
    BY ItselfSound DEF Metadata, Slug, Required
<1> QED
    BY <1>1 DEF SoundModel, Metadata

\* The fields of ModelSpec are sound.
LEMMA ModelSpecSound == SoundModel(ModelSpec)
<1>1. Sound("provider", ModelSpec.provider)
    BY ItselfSound DEF ModelSpec, Str, Strings, Required
<1>2. Sound("model", ModelSpec.model)
    BY ItselfSound DEF ModelSpec, Str, Strings, Required
<1> QED
    BY <1>1, <1>2 DEF SoundModel, ModelSpec

\* The blocks.
LEMMA BlockNames ==
    DOMAIN Blocks = {"metadata", "agent", "model", "runtime", "permissions", "repository",
                     "execution", "objective", "completion_action"}
BY DEF Blocks

\* The fields of Runtime are sound.
LEMMA RuntimeSound == SoundModel(Runtime)
<1>1. Sound("cpu", Runtime.cpu)
    BY CoercedSound DEF Runtime, Required, Unstorable
<1>2. Sound("memory", Runtime.memory)
    BY ItselfSound DEF Runtime, Required
<1>3. Sound("timeout", Runtime.timeout)
    BY ItselfSound DEF Runtime, Required
<1> QED
    BY <1>1, <1>2, <1>3 DEF SoundModel, Runtime

\* The fields of Permissions are sound.
LEMMA PermissionsSound == SoundModel(Permissions)
<1>1. Sound("filesystem", Permissions.filesystem)
    BY ItselfSound DEF Permissions, Required, Unstorable
<1>2. Sound("network", Permissions.network)
    BY CoercedSound DEF Permissions, Flag, Required, Unstorable
<1>3. Sound("shell", Permissions.shell)
    BY CoercedSound DEF Permissions, Flag, Required, Unstorable
<1> QED
    BY <1>1, <1>2, <1>3 DEF SoundModel, Permissions

\* The fields of Repository are sound.
LEMMA RepositorySound == SoundModel(Repository)
<1>1. Sound("url", Repository.url)
    BY ItselfSound DEF Repository, Required, Unstorable
<1>2. Sound("branch", Repository.branch)
    BY ItselfSound DEF Repository, Strings, Required, Unstorable
<1> QED
    BY <1>1, <1>2 DEF SoundModel, Repository

\* The fields of Execution are sound.
LEMMA ExecutionSound == SoundModel(Execution)
<1>1. Sound("max_iterations", Execution.max_iterations)
    BY CoercedSound DEF Execution, Required, Unstorable
<1>2. Sound("require_approval_for", Execution.require_approval_for)
    BY ItselfSound DEF Execution, Required, Unstorable
<1> QED
    BY <1>1, <1>2 DEF SoundModel, Execution

\* The fields of CompletionAction are sound.
LEMMA CompletionActionSound == SoundModel(CompletionAction)
<1>1. Sound("commit", CompletionAction.commit)
    BY CoercedSound DEF CompletionAction, Flag, Required, Unstorable
<1>2. Sound("push", CompletionAction.push)
    BY CoercedSound DEF CompletionAction, Flag, Required, Unstorable
<1>3. Sound("pull_request", CompletionAction.pull_request)
    BY CoercedSound DEF CompletionAction, Flag, Required, Unstorable
<1> QED
    BY <1>1, <1>2, <1>3 DEF SoundModel, CompletionAction

\* The fields of AgentSpec are sound.
LEMMA AgentSpecSound == SoundModel(AgentSpec)
<1>1. Sound("model", AgentSpec.model)
    BY ItselfSound, BlockNames DEF AgentSpec, Block, Required, Unstorable
<1>2. Sound("system_prompt", AgentSpec.system_prompt)
    BY CoercedSound DEF AgentSpec, Text, Stripped, Strings, Required, Unstorable
<1> QED
    BY <1>1, <1>2 DEF SoundModel, AgentSpec

\* The fields of AgentDefinition are sound.
LEMMA AgentDefinitionSound == SoundModel(AgentDefinition)
<1>1. Sound("apiVersion", AgentDefinition.apiVersion)
    BY ItselfSound DEF AgentDefinition, Required, Unstorable
<1>2. Sound("kind", AgentDefinition.kind)
    BY ItselfSound DEF AgentDefinition, Required, Unstorable
<1>3. Sound("metadata", AgentDefinition.metadata)
    BY ItselfSound, BlockNames DEF AgentDefinition, Block, Required, Unstorable
<1>4. Sound("agent", AgentDefinition.agent)
    BY ItselfSound, BlockNames DEF AgentDefinition, Block, Required, Unstorable
<1>5. Sound("skills", AgentDefinition.skills)
    BY ItselfSound DEF AgentDefinition, SlugNames, Required, Unstorable
<1>6. Sound("secrets", AgentDefinition.secrets)
    BY ItselfSound DEF AgentDefinition, SlugNames, Required, Unstorable
<1>7. Sound("runtime", AgentDefinition.runtime)
    BY ItselfSound, BlockNames DEF AgentDefinition, OptionalBlock, Required, Unstorable
<1>8. Sound("permissions", AgentDefinition.permissions)
    BY ItselfSound, BlockNames DEF AgentDefinition, Block, Required, Unstorable
<1>9. Sound("repository", AgentDefinition.repository)
    BY ItselfSound, BlockNames DEF AgentDefinition, OptionalBlock, Required, Unstorable
<1>10. Sound("execution", AgentDefinition.execution)
    BY ItselfSound, BlockNames DEF AgentDefinition, Block, Required, Unstorable
<1> QED
    BY <1>1, <1>2, <1>3, <1>4, <1>5, <1>6, <1>7, <1>8, <1>9, <1>10 DEF SoundModel, AgentDefinition

\* The fields of Objective are sound.
LEMMA ObjectiveSound == SoundModel(Objective)
<1>1. Sound("id", Objective.id)
    BY ItselfSound DEF Objective, Slug, Required, Unstorable
<1>2. Sound("goal", Objective.goal)
    BY CoercedSound DEF Objective, Text, Stripped, Strings, Required, Unstorable
<1>3. Sound("context", Objective.context)
    BY ItselfSound DEF Objective, Required, Unstorable
<1>4. Sound("tasks", Objective.tasks)
    BY ItselfSound DEF Objective, Texts, Required, Unstorable
<1>5. Sound("constraints", Objective.constraints)
    BY ItselfSound DEF Objective, Texts, Required, Unstorable
<1>6. Sound("success_criteria", Objective.success_criteria)
    BY ItselfSound DEF Objective, Required, Unstorable
<1>7. Sound("completion_action", Objective.completion_action)
    BY ItselfSound, BlockNames DEF Objective, Block, Required, Unstorable
<1> QED
    BY <1>1, <1>2, <1>3, <1>4, <1>5, <1>6, <1>7 DEF SoundModel, Objective

\* The fields of ObjectiveDocument are sound.
LEMMA ObjectiveDocumentSound == SoundModel(ObjectiveDocument)
<1>1. Sound("objective", ObjectiveDocument.objective)
    BY ItselfSound, BlockNames DEF ObjectiveDocument, Block, Required, Unstorable
<1> QED
    BY <1>1 DEF SoundModel, ObjectiveDocument

\* Every model a key may hold has sound fields.
LEMMA BlocksSound == \A b \in DOMAIN Blocks : SoundModel(Blocks[b])
BY MetadataSound, AgentSpecSound, ModelSpecSound, RuntimeSound, PermissionsSound,
   RepositorySound, ExecutionSound, ObjectiveSound, CompletionActionSound DEF Blocks

-----------------------------------------------------------------------------
(* What is open, and the paths of it.                                      *)

\* The model of an open block is sound, whatever the document.
LEMMA ModelSound ==
    ASSUME NEW top, SoundModel(top), NEW b \in {"top"} \cup DOMAIN Blocks
    PROVE  SoundModel(Model(top, b))
BY BlocksSound DEF Model

\* Only blocks are open.
LEMMA OpenAreBlocks ==
    ASSUME NEW keys, NEW top, SoundModel(top)
    PROVE  Open(keys, top) \subseteq {"top"} \cup DOMAIN Blocks
<1>1. ASSUME NEW b \in {"top"} \cup DOMAIN Blocks, NEW k \in Within(keys, top, b)
      PROVE  k \in DOMAIN Blocks
    <2> DEFINE field == Model(top, b)[k]
               p == <<b, k>>
    <2>1. k \in DOMAIN Model(top, b) /\ Value(keys, top, p) = "map"
        BY <1>1 DEF Within
    <2>2. Sound(k, field)
        BY <2>1, ModelSound DEF SoundModel
    <2>3. FieldAt(top, p) = field
        BY DEF FieldAt
    <2> HIDE DEF field, p
    <2>4. CASE p \notin DOMAIN keys
        <3>1. field.default = "map"
            BY <2>1, <2>3, <2>4 DEF Value
        <3> QED
            BY <2>2, <3>1 DEF Sound
    <2>5. CASE p \in DOMAIN keys /\ keys[p] \in DOMAIN field.accepts
        <3>1. field.accepts[keys[p]] = "map"
            BY <2>1, <2>3, <2>5 DEF Value
        <3> QED
            BY <2>2, <2>5, <3>1 DEF Sound
    <2>6. CASE p \in DOMAIN keys /\ keys[p] \notin DOMAIN field.accepts
        BY <2>1, <2>3, <2>6 DEF Value
    <2> QED
        BY <2>4, <2>5, <2>6
<1>2. Within(keys, top, "top") \subseteq DOMAIN Blocks
    BY <1>1
<1> QED
    BY <1>1, <1>2 DEF Open

\* A path is a key of the model of an open block.
LEMMA PathsAreKeys ==
    ASSUME NEW keys, NEW top
    PROVE  /\ \A p \in Paths(keys, top) :
                 /\ p = <<p[1], p[2]>> /\ p[1] \in Open(keys, top)
                 /\ p[2] \in DOMAIN Model(top, p[1])
           /\ \A b \in Open(keys, top) : \A k \in DOMAIN Model(top, b) :
                 <<b, k>> \in Paths(keys, top)
BY DEF Paths

\* The field at a path is sound.
LEMMA FieldSound ==
    ASSUME NEW keys, NEW top, SoundModel(top), NEW p \in Paths(keys, top)
    PROVE  Sound(p[2], FieldAt(top, p))
<1>1. p[1] \in {"top"} \cup DOMAIN Blocks /\ p[2] \in DOMAIN Model(top, p[1])
    BY PathsAreKeys, OpenAreBlocks
<1> QED
    BY <1>1, ModelSound DEF SoundModel, FieldAt

\* What is open depends on the values at the paths only.
LEMMA OpenByValues ==
    ASSUME NEW keys, NEW new, NEW top,
           \A p \in Paths(keys, top) : Value(new, top, p) = Value(keys, top, p)
    PROVE  Open(new, top) = Open(keys, top) /\ Paths(new, top) = Paths(keys, top)
<1>1. ASSUME NEW b \in Open(keys, top)
      PROVE  Within(new, top, b) = Within(keys, top, b)
    BY <1>1, PathsAreKeys DEF Within
<1>2. "top" \in Open(keys, top) /\ Within(keys, top, "top") \subseteq Open(keys, top)
    BY DEF Open
<1>3. Within(new, top, "top") = Within(keys, top, "top")
    BY <1>1, <1>2
<1>4. \A b \in Within(keys, top, "top") : Within(new, top, b) = Within(keys, top, b)
    BY <1>1, <1>2
<1>5. UNION {Within(new, top, b) : b \in Within(keys, top, "top")}
          = UNION {Within(keys, top, b) : b \in Within(keys, top, "top")}
    BY <1>4
<1>6. Open(new, top) = Open(keys, top)
    BY <1>3, <1>5 DEF Open
<1> QED
    BY <1>6 DEF Paths

\* Every key is a pair of a block that is open and a name.
Rooted(keys, top) ==
    \A p \in DOMAIN keys : p = <<p[1], p[2]>> /\ p[1] \in Open(keys, top)

\* Dropping the keys of what is not open opens and closes nothing.
LEMMA RestrictIsRooted ==
    ASSUME NEW keys, NEW top, \A p \in DOMAIN keys : p = <<p[1], p[2]>>
    PROVE  Rooted(Restrict(keys, {p \in DOMAIN keys : p[1] \in Open(keys, top)}), top)
<1> DEFINE kept == {p \in DOMAIN keys : p[1] \in Open(keys, top)}
           new == Restrict(keys, kept)
<1>1. DOMAIN new = kept /\ \A p \in kept : new[p] = keys[p]
    BY DEF Restrict
<1>2. ASSUME NEW p \in Paths(keys, top)
      PROVE  Value(new, top, p) = Value(keys, top, p)
    <2>1. p[1] \in Open(keys, top)
        BY PathsAreKeys
    <2>2. (p \in DOMAIN new <=> p \in DOMAIN keys) /\ (p \in DOMAIN keys => new[p] = keys[p])
        BY <1>1, <2>1
    <2> HIDE DEF new
    <2> QED
        BY <2>2 DEF Value
<1>3. Open(new, top) = Open(keys, top)
    BY <1>2, OpenByValues
<1> QED
    BY <1>1, <1>3 DEF Rooted

-----------------------------------------------------------------------------
(* Documents that validate, and their dumps.                               *)

\* What a document without errors has.
LEMMA NoErrors ==
    ASSUME NEW keys, NEW top, Errors(keys, top) = {}
    PROVE  /\ \A p \in Paths(keys, top) : Value(keys, top, p) \notin {"refused", "required"}
           /\ \A p \in DOMAIN keys : p[1] \in Open(keys, top) => p \in Paths(keys, top)
           /\ "completion_action" \in Open(keys, top) => Possible(keys, top)
<1> DEFINE unknown == {p \in DOMAIN keys \ Paths(keys, top) : p[1] \in Open(keys, top)}
           wrong == Wrong(keys, top) \cup unknown
<1>1. Errors(keys, top) = wrong \cup Impossible(keys, top, wrong)
    BY DEF Errors
<1>2. Wrong(keys, top) = {} /\ unknown = {} /\ wrong = {}
    BY <1>1
<1>3. Impossible(keys, top, {}) = {}
    BY <1>1, <1>2
<1> HIDE DEF wrong
<1>4. "completion_action" \in Open(keys, top) => Possible(keys, top)
    BY <1>3 DEF Impossible
<1> QED
    BY <1>2, <1>4 DEF Wrong, Required

\* A document that gives every open field a value the field keeps has no errors
\* and is its own dump.
LEMMA SettledIsValid ==
    ASSUME NEW dump, NEW top, dump = [p \in DOMAIN dump |-> dump[p]],
           DOMAIN dump = Paths(dump, top),
           \A p \in Paths(dump, top) :
               /\ dump[p] \in DOMAIN FieldAt(top, p).accepts
               /\ FieldAt(top, p).accepts[dump[p]] = dump[p]
               /\ dump[p] \notin {"refused", "required"},
           "completion_action" \in Open(dump, top) => Possible(dump, top)
    PROVE  Errors(dump, top) = {} /\ Dump(dump, top) = dump
<1>1. \A p \in Paths(dump, top) : Value(dump, top, p) = dump[p]
    BY DEF Value
<1>2. Wrong(dump, top) = {}
    BY <1>1 DEF Wrong, Required
<1>3. {p \in DOMAIN dump \ Paths(dump, top) : p[1] \in Open(dump, top)} = {}
    OBVIOUS
<1>4. Impossible(dump, top, {}) = {}
    BY DEF Impossible
<1>5. Errors(dump, top) = {}
    BY <1>2, <1>3, <1>4 DEF Errors
<1>6. Dump(dump, top) = dump
    BY <1>1 DEF Dump
<1> QED
    BY <1>5, <1>6

\* What a document without errors holds at a path: a value its field keeps,
\* from the document or the default.
LEMMA ValidValue ==
    ASSUME NEW keys, NEW top, SoundModel(top), Errors(keys, top) = {},
           NEW p \in Paths(keys, top)
    PROVE  LET value == Value(keys, top, p)
               field == FieldAt(top, p)
           IN  /\ value \in DOMAIN field.accepts /\ field.accepts[value] = value
               /\ value \notin {"refused", "required"}
               /\ value = "map" => p[2] \in DOMAIN Blocks
               /\ p \notin DOMAIN keys => value = field.default
               /\ p \in DOMAIN keys => value = field.accepts[keys[p]]
               /\ value \in Unstorable => p \in DOMAIN keys /\ keys[p] \in Unstorable
<1> DEFINE value == Value(keys, top, p)
           field == FieldAt(top, p)
<1>1. Sound(p[2], field)
    BY FieldSound
<1>2. value \notin {"refused", "required"}
    BY NoErrors
<1>3. CASE p \notin DOMAIN keys
    <2>1. value = field.default
        BY <1>3 DEF Value
    <2> HIDE DEF value, field
    <2>2. /\ value \in DOMAIN field.accepts /\ field.accepts[value] = value
          /\ value \notin Unstorable
        BY <1>1, <1>2, <2>1 DEF Sound
    <2>3. value = "map" => p[2] \in DOMAIN Blocks
        BY <1>1, <2>2 DEF Sound
    <2> QED
        BY <1>2, <1>3, <2>1, <2>2, <2>3 DEF value, field
<1>4. CASE p \in DOMAIN keys
    <2>1. keys[p] \in DOMAIN field.accepts /\ value = field.accepts[keys[p]]
        BY <1>2, <1>4 DEF Value
    <2> HIDE DEF value, field
    <2>2. /\ value \in DOMAIN field.accepts /\ field.accepts[value] = value
          /\ value \in Unstorable => keys[p] \in Unstorable
          /\ value = "map" => p[2] \in DOMAIN Blocks
        BY <1>1, <2>1 DEF Sound
    <2> QED
        BY <1>2, <1>4, <2>1, <2>2 DEF value, field
<1> QED
    BY <1>3, <1>4

\* The dump of a document without errors has none and is its own dump.
LEMMA DumpIsSettled ==
    ASSUME NEW keys, NEW top, SoundModel(top), Errors(keys, top) = {}
    PROVE  Errors(Dump(keys, top), top) = {} /\ Dump(Dump(keys, top), top) = Dump(keys, top)
<1> DEFINE dump == Dump(keys, top)
<1>1. /\ DOMAIN dump = Paths(keys, top) /\ dump = [p \in DOMAIN dump |-> dump[p]]
      /\ \A p \in Paths(keys, top) : dump[p] = Value(keys, top, p)
    BY DEF Dump
<1>2. \A p \in Paths(keys, top) :
          /\ dump[p] \in DOMAIN FieldAt(top, p).accepts
          /\ FieldAt(top, p).accepts[dump[p]] = dump[p]
          /\ dump[p] \notin {"refused", "required"}
    BY <1>1, ValidValue
<1> HIDE DEF dump
<1>3. \A p \in Paths(keys, top) : Value(dump, top, p) = Value(keys, top, p)
    BY <1>1, <1>2 DEF Value
<1>4. Open(dump, top) = Open(keys, top) /\ Paths(dump, top) = Paths(keys, top)
    BY <1>3, OpenByValues
<1>5. "completion_action" \in Open(dump, top) => Possible(dump, top)
    <2> SUFFICES ASSUME "completion_action" \in Open(dump, top)
                 PROVE  Possible(dump, top)
        OBVIOUS
    <2>1. Possible(keys, top)
        BY <1>4, NoErrors
    <2>2. \A k \in {"commit", "push", "pull_request"} :
              Value(dump, top, <<"completion_action", k>>)
                  = Value(keys, top, <<"completion_action", k>>)
        <3>1. DOMAIN Model(top, "completion_action") = {"commit", "push", "pull_request"}
            BY DEF Model, Blocks, CompletionAction
        <3> QED
            BY <1>3, <1>4, <3>1, PathsAreKeys
    <2> QED
        BY <2>1, <2>2 DEF Possible
<1>6. Errors(dump, top) = {} /\ Dump(dump, top) = dump
    BY <1>1, <1>2, <1>4, <1>5, SettledIsValid
<1> QED
    BY <1>6 DEF dump

-----------------------------------------------------------------------------
(* The objective inside its document.                                      *)

Outer(p) == IF p[1] = "top" THEN <<"objective", p[2]>> ELSE p

\* The paths of the objective, as they are in its document and as they are
\* once unwrapped.
Wrapped == ({"objective"} \X DOMAIN Objective)
               \cup ({"completion_action"} \X DOMAIN CompletionAction)
Unwrapped == ({"top"} \X DOMAIN Objective)
                 \cup ({"completion_action"} \X DOMAIN CompletionAction)

\* The fields of the objective, and the models a key of it may hold.
LEMMA ObjectiveFields ==
    /\ DOMAIN ObjectiveDocument = {"objective"}
    /\ DOMAIN Objective = {"id", "goal", "context", "tasks", "constraints",
                           "success_criteria", "completion_action"}
    /\ DOMAIN CompletionAction = {"commit", "push", "pull_request"}
    /\ DOMAIN Objective \cap DOMAIN Blocks = {"completion_action"}
    /\ DOMAIN CompletionAction \cap DOMAIN Blocks = {}
    /\ Blocks["objective"] = Objective /\ Blocks["completion_action"] = CompletionAction
BY DEF ObjectiveDocument, Objective, CompletionAction, Blocks

\* Its completion_action is a block, in the document or by default.
LEMMA CompletionActionField ==
    /\ DOMAIN Objective.completion_action.accepts = {"map"}
    /\ Objective.completion_action.accepts["map"] = "map"
    /\ Objective.completion_action.default = "map"
    /\ DOMAIN ObjectiveDocument.objective.accepts = {"map"}
BY DEF Objective, ObjectiveDocument, Block, Field, Itself, Required

\* What is open in an objective document without errors, and its paths.
LEMMA ObjectiveOpens ==
    ASSUME NEW keys, Errors(keys, ObjectiveDocument) = {}
    PROVE  /\ Open(keys, ObjectiveDocument) = {"top", "objective", "completion_action"}
           /\ Paths(keys, ObjectiveDocument) = {<<"top", "objective">>} \cup Wrapped
<1> DEFINE top == ObjectiveDocument
<1>1. Model(top, "top") = top /\ Model(top, "objective") = Objective
      /\ Model(top, "completion_action") = CompletionAction
    BY ObjectiveFields DEF Model
<1>2. "top" \in Open(keys, top)
    BY DEF Open
<1>3. <<"top", "objective">> \in Paths(keys, top)
    BY <1>1, <1>2, PathsAreKeys, ObjectiveFields
<1>4. Value(keys, top, <<"top", "objective">>) = "map"
    <2>1. FieldAt(top, <<"top", "objective">>) = ObjectiveDocument.objective
        BY <1>1 DEF FieldAt
    <2>2. Value(keys, top, <<"top", "objective">>)
              \in DOMAIN FieldAt(top, <<"top", "objective">>).accepts
        BY <1>3, ValidValue, ObjectiveDocumentSound
    <2> QED
        BY <2>1, <2>2, CompletionActionField
<1>5. Within(keys, top, "top") = {"objective"}
    BY <1>1, <1>4, ObjectiveFields DEF Within
<1>6. "objective" \in Open(keys, top)
    BY <1>5 DEF Open
<1>7. Within(keys, top, "objective") = {"completion_action"}
    <2>1. ASSUME NEW k \in Within(keys, top, "objective")
          PROVE  k = "completion_action"
        <3>1. k \in DOMAIN Objective /\ Value(keys, top, <<"objective", k>>) = "map"
            BY <1>1, <2>1 DEF Within
        <3>2. <<"objective", k>> \in Paths(keys, top)
            BY <1>1, <1>6, <3>1, PathsAreKeys
        <3>3. k \in DOMAIN Blocks
            BY <3>1, <3>2, ValidValue, ObjectiveDocumentSound
        <3> QED
            BY <3>1, <3>3, ObjectiveFields
    <2>2. Value(keys, top, <<"objective", "completion_action">>) = "map"
        <3>1. <<"objective", "completion_action">> \in Paths(keys, top)
            BY <1>1, <1>6, PathsAreKeys, ObjectiveFields
        <3>2. FieldAt(top, <<"objective", "completion_action">>) = Objective.completion_action
            BY <1>1 DEF FieldAt
        <3>3. Value(keys, top, <<"objective", "completion_action">>)
                  \in DOMAIN Objective.completion_action.accepts
            BY <3>1, <3>2, ValidValue, ObjectiveDocumentSound
        <3> QED
            BY <3>3, CompletionActionField
    <2>3. "completion_action" \in Within(keys, top, "objective")
        BY <1>1, <2>2, ObjectiveFields DEF Within
    <2> QED
        BY <2>1, <2>3
<1>8. Open(keys, top) = {"top", "objective", "completion_action"}
    BY <1>5, <1>7 DEF Open
<1>9. Paths(keys, top) = ({"top"} \X {"objective"}) \cup Wrapped
    BY <1>1, <1>8, ObjectiveFields DEF Paths, Wrapped
<1> QED
    BY <1>8, <1>9

\* What unwrapping makes of the keys of an objective document.
LEMMA UnwrapKeys ==
    ASSUME NEW keys, DOMAIN keys \subseteq {<<"top", "objective">>} \cup Wrapped
    PROVE  /\ Unwrap(keys) = [p \in DOMAIN Unwrap(keys) |-> Unwrap(keys)[p]]
           /\ \A p \in DOMAIN Unwrap(keys) :
                 p \in Unwrapped /\ Outer(p) \in DOMAIN keys /\ Unwrap(keys)[p] = keys[Outer(p)]
           /\ \A p \in Unwrapped : Outer(p) \in DOMAIN keys => p \in DOMAIN Unwrap(keys)
<1> DEFINE Inner(p) == IF p[1] = "objective" THEN <<"top", p[2]>> ELSE p
           names == {Inner(q) : q \in DOMAIN keys \ {<<"top", "objective">>}}
<1>1. Unwrap(keys) = [p \in names |-> keys[Outer(p)]]
    BY DEF Unwrap, Outer
<1>2. \A q \in Wrapped : Inner(q) \in Unwrapped /\ Outer(Inner(q)) = q
    BY DEF Wrapped, Unwrapped, Outer
<1>3. \A p \in Unwrapped :
          Outer(p) \in Wrapped /\ Outer(p) # <<"top", "objective">> /\ Inner(Outer(p)) = p
    BY DEF Wrapped, Unwrapped, Outer
<1>4. \A p \in names : p \in Unwrapped /\ Outer(p) \in DOMAIN keys
    BY <1>2
<1>5. \A p \in Unwrapped : Outer(p) \in DOMAIN keys => p \in names
    BY <1>3
<1> HIDE DEF names
<1> QED
    BY <1>1, <1>4, <1>5

\* A path of the objective has the field it has in the document.
LEMMA UnwrappedFields ==
    ASSUME NEW p \in Unwrapped
    PROVE  /\ p = <<p[1], p[2]>> /\ Outer(p) \in Wrapped
           /\ FieldAt(Objective, p) = FieldAt(ObjectiveDocument, Outer(p))
           /\ Outer(p)[2] = p[2]
           /\ p[1] = "completion_action" => Outer(p) = p
<1>1. Model(ObjectiveDocument, "objective") = Objective /\ Model(Objective, "top") = Objective
    BY ObjectiveFields DEF Model
<1>2. Model(ObjectiveDocument, "completion_action") = Model(Objective, "completion_action")
    BY DEF Model
<1> QED
    BY <1>1, <1>2 DEF Unwrapped, Wrapped, Outer, FieldAt

\* The objective of a document without errors is a document without errors and
\* its own dump.
LEMMA UnwrapIsSettled ==
    ASSUME NEW keys, Errors(keys, ObjectiveDocument) = {},
           NEW objective, objective = Unwrap(Dump(keys, ObjectiveDocument))
    PROVE  /\ DOMAIN objective = Unwrapped
           /\ \A p \in Unwrapped :
                 objective[p] = Value(keys, ObjectiveDocument, Outer(p))
           /\ Possible(objective, Objective)
           /\ Errors(objective, Objective) = {} /\ Dump(objective, Objective) = objective
<1> DEFINE dump == Dump(keys, ObjectiveDocument)
<1>1. /\ DOMAIN dump = {<<"top", "objective">>} \cup Wrapped
      /\ \A p \in Wrapped : dump[p] = Value(keys, ObjectiveDocument, p)
    BY ObjectiveOpens DEF Dump
<1>2. \A p \in Unwrapped : Outer(p) \in DOMAIN dump /\ Outer(p) \in Wrapped
    BY <1>1, UnwrappedFields
<1> HIDE DEF dump
<1>3. objective = Unwrap(dump)
    BY DEF dump
<1>4. /\ objective = [p \in DOMAIN objective |-> objective[p]]
      /\ DOMAIN objective = Unwrapped
      /\ \A p \in Unwrapped : objective[p] = dump[Outer(p)]
    BY <1>1, <1>2, <1>3, UnwrapKeys
<1>5. \A p \in Unwrapped : objective[p] = Value(keys, ObjectiveDocument, Outer(p))
    BY <1>1, <1>2, <1>4
<1>6. ASSUME NEW p \in Unwrapped
      PROVE  /\ objective[p] \in DOMAIN FieldAt(Objective, p).accepts
             /\ FieldAt(Objective, p).accepts[objective[p]] = objective[p]
             /\ objective[p] \notin {"refused", "required"}
             /\ objective[p] = "map" => p[2] \in DOMAIN Blocks
    <2>1. Outer(p) \in Paths(keys, ObjectiveDocument)
        BY <1>2, ObjectiveOpens
    <2> QED
        BY <1>5, <2>1, UnwrappedFields, ValidValue, ObjectiveDocumentSound
<1>7. \A p \in Unwrapped : Value(objective, Objective, p) = objective[p]
    BY <1>4, <1>6 DEF Value
<1>8. /\ Model(Objective, "top") = Objective
      /\ Model(Objective, "completion_action") = CompletionAction
    BY ObjectiveFields DEF Model
<1>9. Within(objective, Objective, "top") = {"completion_action"}
    <2>1. ASSUME NEW k \in Within(objective, Objective, "top")
          PROVE  k = "completion_action"
        <3>1. k \in DOMAIN Objective /\ Value(objective, Objective, <<"top", k>>) = "map"
            BY <1>8, <2>1 DEF Within
        <3>2. <<"top", k>> \in Unwrapped /\ <<"top", k>>[2] = k
            BY <3>1 DEF Unwrapped
        <3>3. k \in DOMAIN Blocks
            BY <1>6, <1>7, <3>1, <3>2
        <3> QED
            BY <3>1, <3>3, ObjectiveFields
    <2>2. <<"top", "completion_action">> \in Unwrapped
        BY ObjectiveFields DEF Unwrapped
    <2>3. FieldAt(Objective, <<"top", "completion_action">>) = Objective.completion_action
        BY <1>8 DEF FieldAt
    <2>4. Value(objective, Objective, <<"top", "completion_action">>) = "map"
        BY <1>6, <1>7, <2>2, <2>3, CompletionActionField
    <2>5. "completion_action" \in Within(objective, Objective, "top")
        BY <1>8, <2>4, ObjectiveFields DEF Within
    <2> QED
        BY <2>1, <2>5
<1>10. Within(objective, Objective, "completion_action") = {}
    <2> SUFFICES ASSUME NEW k \in Within(objective, Objective, "completion_action")
                 PROVE  FALSE
        OBVIOUS
    <2>1. /\ k \in DOMAIN CompletionAction
          /\ Value(objective, Objective, <<"completion_action", k>>) = "map"
        BY <1>8 DEF Within
    <2>2. <<"completion_action", k>> \in Unwrapped /\ <<"completion_action", k>>[2] = k
        BY <2>1 DEF Unwrapped
    <2>3. k \in DOMAIN Blocks
        BY <1>6, <1>7, <2>1, <2>2
    <2> QED
        BY <2>1, <2>3, ObjectiveFields
<1>11. Open(objective, Objective) = {"top", "completion_action"}
    BY <1>9, <1>10 DEF Open
<1>12. Paths(objective, Objective) = Unwrapped
    BY <1>8, <1>11 DEF Paths, Unwrapped
<1>13. Possible(objective, Objective)
    <2>1. Possible(keys, ObjectiveDocument)
        BY NoErrors, ObjectiveOpens
    <2>2. \A k \in {"commit", "push", "pull_request"} :
              Value(objective, Objective, <<"completion_action", k>>)
                  = Value(keys, ObjectiveDocument, <<"completion_action", k>>)
        <3> SUFFICES ASSUME NEW k \in {"commit", "push", "pull_request"}
                     PROVE  Value(objective, Objective, <<"completion_action", k>>)
                                = Value(keys, ObjectiveDocument, <<"completion_action", k>>)
            OBVIOUS
        <3>1. /\ <<"completion_action", k>> \in Unwrapped
              /\ Outer(<<"completion_action", k>>) = <<"completion_action", k>>
            BY ObjectiveFields DEF Unwrapped, Outer
        <3> QED
            BY <1>5, <1>7, <3>1
    <2> QED
        BY <2>1, <2>2 DEF Possible
<1>14. Errors(objective, Objective) = {} /\ Dump(objective, Objective) = objective
    BY <1>4, <1>6, <1>12, <1>13, SettledIsValid
<1> QED
    BY <1>4, <1>5, <1>13, <1>14

-----------------------------------------------------------------------------
(* The invariant.                                                          *)

Names == {"definition", "objective"}

\* A client edits within the blocks that are open, so that neither document has
\* the key without which it is not the other.
BodyOK ==
    /\ DOMAIN body = {"definition", "objective", "order", "text"}
    /\ \A d \in Names :
          /\ DOMAIN body[d] = {"mapping", "keys"} /\ body[d].mapping \in BOOLEAN
          /\ Rooted(body[d].keys, Top(d))
    /\ <<"top", "objective">> \notin DOMAIN body["definition"].keys
    /\ <<"top", "apiVersion">> \notin DOMAIN body["objective"].keys
    /\ body.order \in Seq(Names)

ReplyOK ==
    \/ reply = NoReply /\ row = NoRow
    \/ reply = [code |-> "201", locs |-> {}] /\ row.there = TRUE
    \/ reply = [code |-> "422", locs |-> reply.locs] /\ reply.locs # {} /\ row = NoRow
    \/ reply = [code |-> "500", locs |-> {}] /\ row = NoRow

Kept == DocumentsRoundTrip /\ NothingGrantedUnasked /\ NoSettingDropped /\ FaultsAreAnswered

Inv == BodyOK /\ edits \in 0..MaxEdits /\ ReplyOK /\ Kept

-----------------------------------------------------------------------------
(* The examples.                                                           *)

\* The keys of a document written block by block.
LEMMA FlatKeys ==
    ASSUME NEW blocks
    PROVE  /\ \A b \in DOMAIN blocks : \A k \in DOMAIN blocks[b] :
                 /\ <<b, k>> \in DOMAIN Flat(blocks)
                 /\ Flat(blocks)[<<b, k>>] = blocks[b][k]
           /\ \A p \in DOMAIN Flat(blocks) :
                 /\ p = <<p[1], p[2]>> /\ p[1] \in DOMAIN blocks
                 /\ p[2] \in DOMAIN blocks[p[1]]
BY DEF Flat

\* A key that holds a block, and may, opens it.
LEMMA TopOpens ==
    ASSUME NEW keys, NEW top, NEW k \in DOMAIN top,
           <<"top", k>> \in DOMAIN keys, keys[<<"top", k>>] = "map",
           "map" \in DOMAIN top[k].accepts, top[k].accepts["map"] = "map"
    PROVE  k \in Within(keys, top, "top") /\ k \in Open(keys, top)
<1>1. FieldAt(top, <<"top", k>>) = top[k] /\ Model(top, "top") = top
    BY DEF FieldAt, Model
<1>2. Value(keys, top, <<"top", k>>) = "map"
    BY <1>1 DEF Value
<1>3. k \in Within(keys, top, "top")
    BY <1>1, <1>2 DEF Within
<1> QED
    BY <1>3 DEF Open

\* So does a key of such a block.
LEMMA InnerOpens ==
    ASSUME NEW keys, NEW top, NEW b \in Within(keys, top, "top"), b # "top",
           NEW k \in DOMAIN Blocks[b],
           <<b, k>> \in DOMAIN keys, keys[<<b, k>>] = "map",
           "map" \in DOMAIN Blocks[b][k].accepts, Blocks[b][k].accepts["map"] = "map"
    PROVE  k \in Open(keys, top)
<1>1. FieldAt(top, <<b, k>>) = Blocks[b][k] /\ Model(top, b) = Blocks[b]
    BY DEF FieldAt, Model
<1>2. Value(keys, top, <<b, k>>) = "map"
    BY <1>1 DEF Value
<1>3. k \in Within(keys, top, b)
    BY <1>1, <1>2 DEF Within
<1> QED
    BY <1>3 DEF Open

\* The keys of a definition that may hold a block.
LEMMA DefinitionBlocks ==
    /\ \A k \in {"metadata", "agent", "runtime", "permissions", "repository", "execution"} :
          /\ k \in DOMAIN AgentDefinition
          /\ "map" \in DOMAIN AgentDefinition[k].accepts
          /\ AgentDefinition[k].accepts["map"] = "map"
    /\ "model" \in DOMAIN Blocks["agent"]
    /\ "map" \in DOMAIN Blocks["agent"]["model"].accepts
    /\ Blocks["agent"]["model"].accepts["map"] = "map"
BY DEF AgentDefinition, Blocks, AgentSpec, Block, OptionalBlock, Field, Itself

\* The keys of an objective document that may.
LEMMA ObjectiveBlocks ==
    /\ "objective" \in DOMAIN ObjectiveDocument
    /\ "map" \in DOMAIN ObjectiveDocument["objective"].accepts
    /\ ObjectiveDocument["objective"].accepts["map"] = "map"
    /\ "completion_action" \in DOMAIN Blocks["objective"]
    /\ "map" \in DOMAIN Blocks["objective"]["completion_action"].accepts
    /\ Blocks["objective"]["completion_action"].accepts["map"] = "map"
BY DEF ObjectiveDocument, Objective, Blocks, Block, Field, Itself

\* The keys of the minimal definition.
LEMMA MinimalDefinition ==
    /\ \A p \in DOMAIN Minimal.definition.keys :
          p = <<p[1], p[2]>> /\ p[1] \in {"top", "metadata", "agent", "model"}
    /\ \A k \in {"objective", "runtime", "permissions", "repository", "execution"} :
          <<"top", k>> \notin DOMAIN Minimal.definition.keys
    /\ \A p \in {<<"top", "metadata">>, <<"top", "agent">>, <<"agent", "model">>} :
          p \in DOMAIN Minimal.definition.keys /\ Minimal.definition.keys[p] = "map"
<1> DEFINE blocks ==
        [top |-> [apiVersion |-> "juicebox.ai/v1", kind |-> "Agent",
                  metadata |-> "map", agent |-> "map"],
         metadata |-> [name |-> "slug"],
         agent |-> [model |-> "map", system_prompt |-> "padded"],
         model |-> [provider |-> "text", model |-> "text"]]
<1>1. Minimal.definition.keys = Flat(blocks)
    BY DEF Minimal
<1>2. /\ DOMAIN blocks = {"top", "metadata", "agent", "model"}
      /\ DOMAIN blocks["top"] = {"apiVersion", "kind", "metadata", "agent"}
      /\ DOMAIN blocks["agent"] = {"model", "system_prompt"}
      /\ blocks["top"]["metadata"] = "map" /\ blocks["top"]["agent"] = "map"
      /\ blocks["agent"]["model"] = "map"
    OBVIOUS
<1> HIDE DEF blocks
<1> QED
    BY <1>1, <1>2, FlatKeys

\* The keys of the minimal objective.
LEMMA MinimalObjective ==
    /\ \A p \in DOMAIN Minimal.objective.keys :
          p = <<p[1], p[2]>> /\ p[1] \in {"top", "objective"}
    /\ <<"top", "apiVersion">> \notin DOMAIN Minimal.objective.keys
    /\ <<"objective", "completion_action">> \notin DOMAIN Minimal.objective.keys
    /\ <<"top", "objective">> \in DOMAIN Minimal.objective.keys
    /\ Minimal.objective.keys[<<"top", "objective">>] = "map"
<1> DEFINE blocks ==
        [top |-> [objective |-> "map"],
         objective |-> [id |-> "slug", goal |-> "text", success_criteria |-> "[text]"]]
<1>1. Minimal.objective.keys = Flat(blocks)
    BY DEF Minimal
<1>2. /\ DOMAIN blocks = {"top", "objective"}
      /\ DOMAIN blocks["top"] = {"objective"}
      /\ DOMAIN blocks["objective"] = {"id", "goal", "success_criteria"}
      /\ blocks["top"]["objective"] = "map"
    OBVIOUS
<1> HIDE DEF blocks
<1> QED
    BY <1>1, <1>2, FlatKeys

\* The keys of the full definition.
LEMMA FullDefinition ==
    LET held == {"metadata", "agent", "runtime", "permissions", "repository", "execution"} IN
    /\ \A p \in DOMAIN Full.definition.keys :
          p = <<p[1], p[2]>> /\ p[1] \in {"top", "model"} \cup held
    /\ <<"top", "objective">> \notin DOMAIN Full.definition.keys
    /\ \A k \in held : /\ <<"top", k>> \in DOMAIN Full.definition.keys
                       /\ Full.definition.keys[<<"top", k>>] = "map"
    /\ <<"agent", "model">> \in DOMAIN Full.definition.keys
    /\ Full.definition.keys[<<"agent", "model">>] = "map"
<1> DEFINE minimal == Minimal.definition.keys
           blocks ==
        [top |-> [skills |-> "[slug]", secrets |-> "[slug]", runtime |-> "map",
                  permissions |-> "map", repository |-> "map", execution |-> "map"],
         runtime |-> [cpu |-> "2", memory |-> "4Gi", timeout |-> "8h"],
         permissions |-> [filesystem |-> "read-write", network |-> "true",
                          shell |-> "true"],
         repository |-> [url |-> "https", branch |-> "text"],
         execution |-> [max_iterations |-> "5", require_approval_for |-> "[merge]"]]
<1>1. Full.definition.keys = Merged(minimal, Flat(blocks))
    BY DEF Full, Minimal
<1>2. /\ DOMAIN blocks = {"top", "runtime", "permissions", "repository", "execution"}
      /\ DOMAIN blocks["top"] = {"skills", "secrets", "runtime", "permissions", "repository",
                                 "execution"}
      /\ \A k \in {"runtime", "permissions", "repository", "execution"} :
            blocks["top"][k] = "map"
    OBVIOUS
<1>3. \A k \in {"runtime", "permissions", "repository", "execution"} :
          <<"top", k>> \notin DOMAIN minimal
    BY MinimalDefinition
<1>4. /\ \A p \in DOMAIN minimal : p = <<p[1], p[2]>> /\ p[1] \in {"top", "metadata", "agent", "model"}
      /\ <<"top", "objective">> \notin DOMAIN minimal
      /\ \A p \in {<<"top", "metadata">>, <<"top", "agent">>, <<"agent", "model">>} :
            p \in DOMAIN minimal /\ minimal[p] = "map"
    BY MinimalDefinition
<1> HIDE DEF blocks, minimal
<1>5. /\ \A p \in DOMAIN Flat(blocks) :
            p = <<p[1], p[2]>> /\ p[1] \in DOMAIN blocks /\ p[2] \in DOMAIN blocks[p[1]]
      /\ \A k \in {"runtime", "permissions", "repository", "execution"} :
            <<"top", k>> \in DOMAIN Flat(blocks) /\ Flat(blocks)[<<"top", k>>] = "map"
    BY <1>2, FlatKeys
<1>6. PICK both : both = Full.definition.keys
    OBVIOUS
<1>7. /\ DOMAIN both = DOMAIN minimal \cup DOMAIN Flat(blocks)
      /\ \A p \in DOMAIN minimal : both[p] = minimal[p]
      /\ \A p \in DOMAIN Flat(blocks) \ DOMAIN minimal : both[p] = Flat(blocks)[p]
    BY <1>1, <1>6 DEF Merged
<1>8. \A p \in DOMAIN both : p \in DOMAIN minimal \/ p \in DOMAIN Flat(blocks)
    BY <1>7
<1>9. \A k \in {"runtime", "permissions", "repository", "execution"} :
          /\ <<"top", k>> \in DOMAIN both
          /\ both[<<"top", k>>] = "map"
    BY <1>3, <1>5, <1>7
<1>10. \A p \in {<<"top", "metadata">>, <<"top", "agent">>, <<"agent", "model">>} :
          p \in DOMAIN both /\ both[p] = "map"
    BY <1>4, <1>7
<1>11. <<"top", "objective">> \notin DOMAIN Flat(blocks)
    BY <1>2, <1>5
<1> QED
    BY <1>2, <1>4, <1>5, <1>8, <1>9, <1>10, <1>11, <1>6, <1>7

\* The keys of the full objective.
LEMMA FullObjective ==
    /\ \A p \in DOMAIN Full.objective.keys :
          p = <<p[1], p[2]>> /\ p[1] \in {"top", "objective", "completion_action"}
    /\ <<"top", "apiVersion">> \notin DOMAIN Full.objective.keys
    /\ \A p \in {<<"top", "objective">>, <<"objective", "completion_action">>} :
          p \in DOMAIN Full.objective.keys /\ Full.objective.keys[p] = "map"
<1> DEFINE minimal == Minimal.objective.keys
           blocks ==
        [objective |-> [context |-> "{text}", tasks |-> "[text]",
                        constraints |-> "[text]", completion_action |-> "map"],
         completion_action |-> [commit |-> "true", push |-> "true",
                                pull_request |-> "true"]]
<1>1. Full.objective.keys = Merged(minimal, Flat(blocks))
    BY DEF Full, Minimal
<1>2. /\ DOMAIN blocks = {"objective", "completion_action"}
      /\ DOMAIN blocks["objective"] = {"context", "tasks", "constraints", "completion_action"}
      /\ blocks["objective"]["completion_action"] = "map"
    OBVIOUS
<1> HIDE DEF blocks, minimal
<1>3. /\ \A p \in DOMAIN minimal : p = <<p[1], p[2]>> /\ p[1] \in {"top", "objective"}
      /\ <<"top", "apiVersion">> \notin DOMAIN minimal
      /\ <<"objective", "completion_action">> \notin DOMAIN minimal
      /\ <<"top", "objective">> \in DOMAIN minimal /\ minimal[<<"top", "objective">>] = "map"
    BY MinimalObjective DEF minimal
<1>4. /\ \A p \in DOMAIN Flat(blocks) : p = <<p[1], p[2]>> /\ p[1] \in DOMAIN blocks
      /\ <<"objective", "completion_action">> \in DOMAIN Flat(blocks)
      /\ Flat(blocks)[<<"objective", "completion_action">>] = "map"
    BY <1>2, FlatKeys
<1>5. <<"top", "apiVersion">> \notin DOMAIN Flat(blocks)
    BY <1>2, <1>4
<1>6. PICK both : both = Full.objective.keys
    OBVIOUS
<1>7. /\ DOMAIN both = DOMAIN minimal \cup DOMAIN Flat(blocks)
      /\ \A p \in DOMAIN minimal : both[p] = minimal[p]
      /\ \A p \in DOMAIN Flat(blocks) \ DOMAIN minimal : both[p] = Flat(blocks)[p]
    BY <1>1, <1>6 DEF Merged
<1> QED
    BY <1>2, <1>3, <1>4, <1>5, <1>6, <1>7

\* The examples are within the blocks they open.
LEMMA ExamplesOK ==
    ASSUME NEW example \in {Minimal, Full}
    PROVE  /\ DOMAIN example = {"definition", "objective", "order", "text"}
           /\ \A d \in Names :
                 /\ DOMAIN example[d] = {"mapping", "keys"} /\ example[d].mapping \in BOOLEAN
                 /\ Rooted(example[d].keys, Top(d))
           /\ <<"top", "objective">> \notin DOMAIN example["definition"].keys
           /\ <<"top", "apiVersion">> \notin DOMAIN example["objective"].keys
           /\ example.order \in Seq(Names)
<1>1. /\ DOMAIN Minimal = {"definition", "objective", "order", "text"}
      /\ DOMAIN Minimal["definition"] = {"mapping", "keys"}
      /\ DOMAIN Minimal["objective"] = {"mapping", "keys"}
      /\ Minimal["definition"].mapping \in BOOLEAN /\ Minimal["objective"].mapping \in BOOLEAN
      /\ Minimal.order = <<"definition", "objective">>
    BY DEF Minimal
<1>0. <<"definition", "objective">> \in Seq(Names)
    BY DEF Names
<1>2. /\ DOMAIN Full = {"definition", "objective", "order", "text"}
      /\ DOMAIN Full["definition"] = {"mapping", "keys"}
      /\ DOMAIN Full["objective"] = {"mapping", "keys"}
      /\ Full["definition"].mapping \in BOOLEAN /\ Full["objective"].mapping \in BOOLEAN
      /\ Full.order = <<"definition", "objective">>
    BY <1>1 DEF Full
<1>3. ASSUME NEW keys, \/ keys = Minimal.definition.keys \/ keys = Full.definition.keys
      PROVE  Rooted(keys, AgentDefinition)
    <2> DEFINE top == AgentDefinition
    <2>1. "top" \in Open(keys, top)
        BY DEF Open
    <2>2. ASSUME NEW k \in {"metadata", "agent", "runtime", "permissions", "repository",
                            "execution"},
                 <<"top", k>> \in DOMAIN keys, keys[<<"top", k>>] = "map"
          PROVE  k \in Within(keys, top, "top") /\ k \in Open(keys, top)
        BY <2>2, DefinitionBlocks, TopOpens
    <2>3. /\ <<"top", "metadata">> \in DOMAIN keys /\ keys[<<"top", "metadata">>] = "map"
          /\ <<"top", "agent">> \in DOMAIN keys /\ keys[<<"top", "agent">>] = "map"
          /\ <<"agent", "model">> \in DOMAIN keys /\ keys[<<"agent", "model">>] = "map"
        BY <1>3, MinimalDefinition, FullDefinition
    <2>4. "metadata" \in Open(keys, top) /\ "agent" \in Open(keys, top)
          /\ "agent" \in Within(keys, top, "top")
        BY <2>2, <2>3
    <2>5. "model" \in Open(keys, top)
        BY <2>3, <2>4, DefinitionBlocks, InnerOpens
    <2>6. CASE keys = Minimal.definition.keys
        BY <2>1, <2>4, <2>5, <2>6, MinimalDefinition DEF Rooted
    <2>7. CASE keys = Full.definition.keys
        <3>1. \A k \in {"metadata", "agent", "runtime", "permissions", "repository",
                        "execution"} : k \in Open(keys, top)
            BY <2>2, <2>7, FullDefinition
        <3> QED
            BY <2>1, <2>5, <2>7, <3>1, FullDefinition DEF Rooted
    <2> QED
        BY <1>3, <2>6, <2>7
<1>4. ASSUME NEW keys, \/ keys = Minimal.objective.keys \/ keys = Full.objective.keys
      PROVE  Rooted(keys, ObjectiveDocument)
    <2> DEFINE top == ObjectiveDocument
    <2>1. "top" \in Open(keys, top)
        BY DEF Open
    <2>2. <<"top", "objective">> \in DOMAIN keys /\ keys[<<"top", "objective">>] = "map"
        BY <1>4, MinimalObjective, FullObjective
    <2>3. "objective" \in Within(keys, top, "top") /\ "objective" \in Open(keys, top)
        BY <2>2, ObjectiveBlocks, TopOpens
    <2>4. CASE keys = Minimal.objective.keys
        BY <2>1, <2>3, <2>4, MinimalObjective DEF Rooted
    <2>5. CASE keys = Full.objective.keys
        <3>1. "completion_action" \in Open(keys, top)
            BY <2>3, <2>5, FullObjective, ObjectiveBlocks, InnerOpens
        <3> QED
            BY <2>1, <2>3, <2>5, <3>1, FullObjective DEF Rooted
    <2> QED
        BY <1>4, <2>4, <2>5
<1>5. Top("definition") = AgentDefinition /\ Top("objective") = ObjectiveDocument
    BY DEF Top
<1>6. /\ Rooted(example.definition.keys, Top("definition"))
      /\ Rooted(example.objective.keys, Top("objective"))
    BY <1>3, <1>4, <1>5
<1>7. /\ <<"top", "objective">> \notin DOMAIN example.definition.keys
      /\ <<"top", "apiVersion">> \notin DOMAIN example.objective.keys
    BY MinimalDefinition, FullDefinition, MinimalObjective, FullObjective
<1> QED
    BY <1>0, <1>1, <1>2, <1>6, <1>7 DEF Names

\* Nothing is persisted or answered of a fresh example.
LEMMA FreshKept ==
    ASSUME row.there = FALSE, reply.code \notin {"422", "500"}
    PROVE  Kept
BY DEF Kept, DocumentsRoundTrip, NothingGrantedUnasked, NoSettingDropped, FaultsAreAnswered

\* The invariant holds of the examples.
LEMMA InitInv == Init => Inv
<1> SUFFICES ASSUME Init PROVE Inv
    OBVIOUS
<1>1. BodyOK
    BY ExamplesOK DEF Init, BodyOK
<1>2. ReplyOK /\ Kept
    BY FreshKept DEF Init, ReplyOK, NoReply, NoRow
<1>3. edits \in 0..MaxEdits
    BY MaxEditsAssumption DEF Init
<1> QED
    BY <1>1, <1>2, <1>3 DEF Inv

-----------------------------------------------------------------------------
(* The edits of a client.                                                  *)

\* A change of the body leaves the rest of the invariant alone: nothing has been
\* answered yet.
LEMMA EditInv ==
    ASSUME Inv, NEW new, Edit(new), BodyOK'
    PROVE  Inv'
<1>1. row' = row /\ reply' = reply /\ reply = NoReply
    BY DEF Edit
<1>2. row.there = FALSE /\ row = NoRow /\ reply.code = "none"
    BY <1>1 DEF Inv, ReplyOK, NoReply, NoRow
<1>3. ReplyOK'
    BY <1>1, <1>2 DEF ReplyOK
<1>4. Kept'
    BY <1>1, <1>2 DEF Kept, DocumentsRoundTrip, NothingGrantedUnasked, NoSettingDropped,
                      FaultsAreAnswered
<1>5. (edits \in 0..MaxEdits)'
    BY MaxEditsAssumption DEF Inv, Edit
<1> QED
    BY <1>3, <1>4, <1>5 DEF Inv

\* Keys written at pairs that neither document may not have keep the invariant.
LEMMA RewriteInv ==
    ASSUME Inv, NEW d \in Names, NEW keys, Rewrite(d, keys),
           \A p \in DOMAIN keys : p = <<p[1], p[2]>>,
           d = "definition" => <<"top", "objective">> \notin DOMAIN keys,
           d = "objective" => <<"top", "apiVersion">> \notin DOMAIN keys
    PROVE  Inv'
<1> DEFINE kept == {p \in DOMAIN keys : p[1] \in Open(keys, Top(d))}
           after == Restrict(keys, kept)
           new == [body EXCEPT ![d].keys = after]
<1>1. Edit(new)
    BY DEF Rewrite
<1>2. Rooted(after, Top(d))
    BY RestrictIsRooted
<1>3. DOMAIN after \subseteq DOMAIN keys
    BY DEF Restrict
<1> HIDE DEF after
<1>4. body' = new
    BY <1>1 DEF Edit
<1>5. BodyOK
    BY DEF Inv
<1>6. /\ DOMAIN body' = DOMAIN body
      /\ body'[d].keys = after /\ DOMAIN body'[d] = DOMAIN body[d]
      /\ body'[d].mapping = body[d].mapping
      /\ \A e \in Names : e # d => body'[e] = body[e]
      /\ body'.order = body.order
    BY <1>4, <1>5 DEF BodyOK, Names
<1>7. \A e \in Names :
          /\ DOMAIN body'[e] = {"mapping", "keys"} /\ body'[e].mapping \in BOOLEAN
          /\ Rooted(body'[e].keys, Top(e))
    BY <1>2, <1>5, <1>6 DEF BodyOK
<1>8. <<"top", "objective">> \notin DOMAIN body'["definition"].keys
    BY <1>3, <1>5, <1>6 DEF BodyOK, Names
<1>9. <<"top", "apiVersion">> \notin DOMAIN body'["objective"].keys
    BY <1>3, <1>5, <1>6 DEF BodyOK, Names
<1>10. BodyOK'
    BY <1>5, <1>6, <1>7, <1>8, <1>9 DEF BodyOK
<1> QED
    BY <1>1, <1>10, EditInv

\* What the invariant says of the keys of a document.
LEMMA BodyKeys ==
    ASSUME BodyOK, NEW d \in Names
    PROVE  /\ \A p \in DOMAIN body[d].keys : p = <<p[1], p[2]>>
           /\ d = "definition" => <<"top", "objective">> \notin DOMAIN body[d].keys
           /\ d = "objective" => <<"top", "apiVersion">> \notin DOMAIN body[d].keys
BY DEF BodyOK, Rooted

\* A path of a document is not the key of the other.
LEMMA OwnPaths ==
    ASSUME NEW keys, NEW d \in Names, NEW p \in Paths(keys, Top(d))
    PROVE  /\ p = <<p[1], p[2]>>
           /\ d = "definition" => p # <<"top", "objective">>
           /\ d = "objective" => p # <<"top", "apiVersion">>
<1>1. p = <<p[1], p[2]>> /\ p[2] \in DOMAIN Model(Top(d), p[1])
    BY PathsAreKeys
<1>2. p[1] = "top" => p[2] \in DOMAIN Top(d)
    BY <1>1 DEF Model
<1>3. "objective" \notin DOMAIN AgentDefinition /\ "apiVersion" \notin DOMAIN ObjectiveDocument
    BY DEF AgentDefinition, ObjectiveDocument
<1> QED
    BY <1>1, <1>2, <1>3 DEF Top

\* Setting a key.
LEMMA SetKeyInv ==
    ASSUME Inv, NEW d \in Names, SetKey(d)
    PROVE  Inv'
<1>1. PICK p \in Paths(body[d].keys, Top(d)) :
          \E v \in DOMAIN FieldAt(Top(d), p).accepts \cup FieldAt(Top(d), p).refuses :
              Rewrite(d, With(body[d].keys, p, v))
    BY DEF SetKey
<1>2. PICK v : Rewrite(d, With(body[d].keys, p, v))
    BY <1>1
<1>3. DOMAIN With(body[d].keys, p, v) = DOMAIN body[d].keys \cup {p}
    BY DEF With
<1>4. /\ \A q \in DOMAIN body[d].keys : q = <<q[1], q[2]>>
      /\ d = "definition" => <<"top", "objective">> \notin DOMAIN body[d].keys
      /\ d = "objective" => <<"top", "apiVersion">> \notin DOMAIN body[d].keys
    BY BodyKeys DEF Inv
<1>5. /\ p = <<p[1], p[2]>>
      /\ d = "definition" => p # <<"top", "objective">>
      /\ d = "objective" => p # <<"top", "apiVersion">>
    BY OwnPaths
<1> QED
    BY <1>2, <1>3, <1>4, <1>5, RewriteInv

\* Dropping one.
LEMMA DropKeyInv ==
    ASSUME Inv, NEW d \in Names, DropKey(d)
    PROVE  Inv'
<1>1. PICK p \in DOMAIN body[d].keys :
          Rewrite(d, Restrict(body[d].keys, DOMAIN body[d].keys \ {p}))
    BY DEF DropKey
<1>2. DOMAIN Restrict(body[d].keys, DOMAIN body[d].keys \ {p}) \subseteq DOMAIN body[d].keys
    BY DEF Restrict
<1>3. /\ \A q \in DOMAIN body[d].keys : q = <<q[1], q[2]>>
      /\ d = "definition" => <<"top", "objective">> \notin DOMAIN body[d].keys
      /\ d = "objective" => <<"top", "apiVersion">> \notin DOMAIN body[d].keys
    BY BodyKeys DEF Inv
<1> QED
    BY <1>1, <1>2, <1>3, RewriteInv

\* Adding one no model has.
LEMMA AddUnknownInv ==
    ASSUME Inv, NEW d \in Names, AddUnknown(d)
    PROVE  Inv'
<1>1. PICK p \in DOMAIN body[d].keys, k \in {"unknown", "api_version"} :
          Rewrite(d, With(body[d].keys, <<p[1], k>>, "juicebox.ai/v1"))
    BY DEF AddUnknown
<1>2. DOMAIN With(body[d].keys, <<p[1], k>>, "juicebox.ai/v1")
          = DOMAIN body[d].keys \cup {<<p[1], k>>}
    BY DEF With
<1>3. /\ \A q \in DOMAIN body[d].keys : q = <<q[1], q[2]>>
      /\ d = "definition" => <<"top", "objective">> \notin DOMAIN body[d].keys
      /\ d = "objective" => <<"top", "apiVersion">> \notin DOMAIN body[d].keys
    BY BodyKeys DEF Inv
<1>4. <<p[1], k>> # <<"top", "objective">> /\ <<p[1], k>> # <<"top", "apiVersion">>
    OBVIOUS
<1> QED
    BY <1>1, <1>2, <1>3, <1>4, RewriteInv

\* A list for a document.
LEMMA UnmapInv ==
    ASSUME Inv, NEW d \in Names, Unmap(d)
    PROVE  Inv'
<1>1. Edit([body EXCEPT ![d].mapping = FALSE])
    BY DEF Unmap
<1>2. body' = [body EXCEPT ![d].mapping = FALSE]
    BY <1>1 DEF Edit
<1>3. BodyOK
    BY DEF Inv
<1>4. /\ DOMAIN body' = DOMAIN body /\ body'.order = body.order
      /\ \A e \in Names : /\ DOMAIN body'[e] = DOMAIN body[e] /\ body'[e].mapping \in BOOLEAN
                          /\ body'[e].keys = body[e].keys
    BY <1>2, <1>3 DEF BodyOK, Names
<1>5. BodyOK'
    BY <1>3, <1>4 DEF BodyOK, Names
<1> QED
    BY <1>1, <1>5, EditInv

\* Other documents, or in another order.
LEMMA ReorderInv ==
    ASSUME Inv, Reorder
    PROVE  Inv'
<1>1. PICK order \in {<<>>, <<"definition">>, <<"objective">>, <<"objective", "definition">>,
                      <<"definition", "definition">>, <<"definition", "objective", "objective">>} :
          Edit([body EXCEPT !.order = order])
    BY DEF Reorder
<1>2. order \in Seq(Names)
    <2>1. <<>> \in Seq(Names) /\ <<"definition">> \in Seq(Names) /\ <<"objective">> \in Seq(Names)
        BY DEF Names
    <2>2. <<"objective", "definition">> \in Seq(Names)
        BY DEF Names
    <2>3. <<"definition", "definition">> \in Seq(Names)
        BY DEF Names
    <2>4. <<"definition", "objective", "objective">> \in Seq(Names)
        BY DEF Names
    <2> QED
        BY <1>1, <2>1, <2>2, <2>3, <2>4
<1>3. body' = [body EXCEPT !.order = order]
    BY <1>1 DEF Edit
<1>4. BodyOK
    BY DEF Inv
<1>5. /\ DOMAIN body' = DOMAIN body /\ body'.order = order
      /\ \A e \in Names : body'[e] = body[e]
    BY <1>3, <1>4 DEF BodyOK, Names
<1>6. BodyOK'
    BY <1>2, <1>4, <1>5 DEF BodyOK, Names
<1> QED
    BY <1>1, <1>6, EditInv

\* Text that does not read.
LEMMA GarbleInv ==
    ASSUME Inv, Garble
    PROVE  Inv'
<1>1. PICK text : Edit([body EXCEPT !.text = text])
    BY DEF Garble
<1>2. body' = [body EXCEPT !.text = text]
    BY <1>1 DEF Edit
<1>3. BodyOK
    BY DEF Inv
<1>4. /\ DOMAIN body' = DOMAIN body /\ body'.order = body.order
      /\ \A e \in Names : body'[e] = body[e]
    BY <1>2, <1>3 DEF BodyOK, Names
<1>5. BodyOK'
    BY <1>3, <1>4 DEF BodyOK, Names
<1> QED
    BY <1>1, <1>5, EditInv

-----------------------------------------------------------------------------
(* The answers.                                                            *)

\* Nothing is persisted before the answer.
LEMMA BeforeTheAnswer ==
    ASSUME Inv, reply = NoReply
    PROVE  row = NoRow /\ row.there = FALSE
BY DEF Inv, ReplyOK, NoReply, NoRow

\* A refusal that answers the fault it met keeps the invariant.
LEMMA RefusalInv ==
    ASSUME Inv, reply = NoReply, body' = body, edits' = edits, row' = row,
           \/ reply' = [code |-> "422", locs |-> reply'.locs] /\ reply'.locs # {}
           \/ reply' = [code |-> "500", locs |-> {}],
           FaultsAreAnswered'
    PROVE  Inv'
<1>1. row = NoRow /\ row.there = FALSE
    BY BeforeTheAnswer
<1>2. ReplyOK'
    BY <1>1 DEF ReplyOK
<1>3. Kept'
    BY <1>1 DEF Kept, DocumentsRoundTrip, NothingGrantedUnasked, NoSettingDropped
<1>4. BodyOK'
    BY DEF Inv, BodyOK
<1> QED
    BY <1>2, <1>3, <1>4 DEF Inv

\* An answer to what is handled, and to what is not.
LEMMA RaiseReplies ==
    ASSUME NEW exception, NEW locs, Raise(exception, locs)
    PROVE  /\ reply = NoReply /\ body' = body /\ edits' = edits /\ row' = row
           /\ exception \in Handled => reply' = [code |-> "422", locs |-> locs]
           /\ exception \notin Handled => reply' = [code |-> "500", locs |-> {}]
BY DEF Raise, Answer

\* Text that is refused.
LEMMA RefuseTextInv ==
    ASSUME Inv, RefuseText
    PROVE  Inv'
<1>1. CASE body.text = "undecodable" /\ Raise("UnicodeDecodeError", {})
    <2>1. /\ reply = NoReply /\ body' = body /\ edits' = edits /\ row' = row
          /\ reply' = [code |-> "500", locs |-> {}]
        BY <1>1, RaiseReplies DEF Handled
    <2>2. FaultsAreAnswered'
        BY <1>1, <2>1 DEF FaultsAreAnswered
    <2> QED
        BY <2>1, <2>2, RefusalInv
<1>2. CASE body.text = "malformed" /\ Raise("YAMLError", {<<>>})
    <2>1. /\ reply = NoReply /\ body' = body /\ edits' = edits /\ row' = row
          /\ reply' = [code |-> "422", locs |-> {<<>>}]
        BY <1>2, RaiseReplies DEF Handled
    <2>2. FaultsAreAnswered'
        BY <1>2, <2>1 DEF FaultsAreAnswered
    <2> QED
        BY <2>1, <2>2, RefusalInv
<1>3. CASE body.text = "impossible scalar" /\ Raise("ValueError", {})
    <2>1. /\ reply = NoReply /\ body' = body /\ edits' = edits /\ row' = row
          /\ reply' = [code |-> "500", locs |-> {}]
        <3>1. "ValueError" \notin Handled
            BY DEF Handled
        <3> QED
            BY <1>3, <3>1, RaiseReplies
    <2>2. FaultsAreAnswered'
        BY <1>3, <2>1 DEF FaultsAreAnswered
    <2> QED
        BY <2>1, <2>2, RefusalInv
<1> QED
    BY <1>1, <1>2, <1>3 DEF RefuseText

\* A number of documents that is refused.
LEMMA RefuseCountInv ==
    ASSUME Inv, RefuseCount
    PROVE  Inv'
<1>1. /\ reply = NoReply /\ body' = body /\ edits' = edits /\ row' = row
      /\ reply' = [code |-> "422", locs |-> {<<>>}]
    BY DEF RefuseCount, Answer
<1>2. FaultsAreAnswered'
    BY <1>1 DEF FaultsAreAnswered, RefuseCount
<1> QED
    BY <1>1, <1>2, RefusalInv

\* Each of two documents is one of the body.
LEMMA DocumentNames ==
    ASSUME BodyOK, TwoDocuments, NEW i \in {1, 2}
    PROVE  body.order[i] \in Names
BY DEF BodyOK, TwoDocuments

\* Only a document that is no mapping has an error without a path.
LEMMA ErrorsHavePaths ==
    ASSUME NEW d \in Names, BodyOK, NEW top, <<>> \in Located(body[d], top)
    PROVE  ~body[d].mapping
<1> SUFFICES ASSUME body[d].mapping PROVE FALSE
    OBVIOUS
<1>1. <<>> \in Errors(body[d].keys, top)
    BY DEF Located
<1>2. \A p \in DOMAIN body[d].keys : p # <<>>
    BY BodyKeys
<1>3. \A p \in Paths(body[d].keys, top) : p # <<>>
    BY PathsAreKeys
<1>4. \A wrong : Impossible(body[d].keys, top, wrong)
                     \subseteq {<<"objective", "completion_action">>}
    BY DEF Impossible
<1> QED
    BY <1>1, <1>2, <1>3, <1>4 DEF Errors, Wrong

\* A document that is refused.
LEMMA RefuseDocumentInv ==
    ASSUME Inv, TwoDocuments, NEW i \in {1, 2}, NEW top, Located(Document(i), top) # {},
           Raise("ValidationError", Located(Document(i), top))
    PROVE  Inv'
<1> DEFINE locs == Located(Document(i), top)
<1>1. /\ reply = NoReply /\ body' = body /\ edits' = edits /\ row' = row
      /\ reply' = [code |-> "422", locs |-> locs]
    BY RaiseReplies DEF Handled
<1>2. <<>> \in locs => ~Document(i).mapping
    BY DocumentNames, ErrorsHavePaths DEF Document, Inv
<1> HIDE DEF locs
<1>3. FaultsAreAnswered'
    BY <1>1, <1>2 DEF FaultsAreAnswered, Document
<1>4. locs # {}
    BY DEF locs
<1> QED
    BY <1>1, <1>3, <1>4, RefusalInv

\* So for the definition, and for the objective.
LEMMA RefuseDefinitionInv ==
    ASSUME Inv, RefuseDefinition \/ RefuseObjective
    PROVE  Inv'
BY RefuseDocumentInv DEF RefuseDefinition, RefuseObjective

\* The client starting over.
LEMMA StartOverInv ==
    ASSUME Inv, StartOver
    PROVE  Inv'
<1>1. PICK example \in {Minimal, Full} : body' = example
    BY DEF StartOver
<1>2. BodyOK'
    BY <1>1, ExamplesOK DEF BodyOK
<1>3. ReplyOK'
    BY DEF StartOver, ReplyOK
<1>4. Kept'
    BY DEF StartOver, NoRow, NoReply, Kept, DocumentsRoundTrip, NothingGrantedUnasked,
           NoSettingDropped, FaultsAreAnswered
<1>5. (edits \in 0..MaxEdits)'
    BY MaxEditsAssumption DEF StartOver
<1> QED
    BY <1>2, <1>3, <1>4, <1>5 DEF Inv

-----------------------------------------------------------------------------
(* The agent created.                                                      *)

\* The permissions nobody asked for are not granted.
LEMMA PermissionsDefault ==
    /\ DOMAIN Permissions = {"filesystem", "network", "shell"}
    /\ \A k \in DOMAIN Permissions : Permissions[k].default \notin {"true", "read-write"}
BY DEF Permissions, Flag, Field

\* Nor the publications.
LEMMA CompletionActionDefault ==
    \A k \in DOMAIN CompletionAction : CompletionAction[k].default # "true"
BY DEF CompletionAction, Flag, Field

\* The document that lacks what a definition requires is none.
LEMMA DefinitionNeedsVersion ==
    ASSUME NEW keys, Errors(keys, AgentDefinition) = {}
    PROVE  <<"top", "apiVersion">> \in DOMAIN keys
<1>1. /\ "apiVersion" \in DOMAIN AgentDefinition
      /\ AgentDefinition.apiVersion.default = "required"
    BY DEF AgentDefinition, Field, Required
<1>2. FieldAt(AgentDefinition, <<"top", "apiVersion">>) = AgentDefinition.apiVersion
    BY DEF FieldAt, Model
<1>3. <<"top", "apiVersion">> \in Paths(keys, AgentDefinition)
    <2>1. "top" \in Open(keys, AgentDefinition) /\ Model(AgentDefinition, "top") = AgentDefinition
        BY DEF Open, Model
    <2> QED
        BY <1>1, <2>1, PathsAreKeys
<1>4. Value(keys, AgentDefinition, <<"top", "apiVersion">>) # "required"
    BY <1>3, NoErrors
<1> QED
    BY <1>1, <1>2, <1>4 DEF Value

\* Nor is the document that lacks the objective an objective document.
LEMMA ObjectiveNeedsObjective ==
    ASSUME NEW keys, Errors(keys, ObjectiveDocument) = {}
    PROVE  <<"top", "objective">> \in DOMAIN keys
<1>1. /\ "objective" \in DOMAIN ObjectiveDocument
      /\ ObjectiveDocument.objective.default = "required"
    BY DEF ObjectiveDocument, Block, Field, Required
<1>2. FieldAt(ObjectiveDocument, <<"top", "objective">>) = ObjectiveDocument.objective
    BY DEF FieldAt, Model
<1>3. <<"top", "objective">> \in Paths(keys, ObjectiveDocument)
    BY ObjectiveOpens
<1>4. Value(keys, ObjectiveDocument, <<"top", "objective">>) # "required"
    BY <1>3, NoErrors
<1> QED
    BY <1>1, <1>2, <1>4 DEF Value

\* What the row has of the definition.
LEMMA DefinitionKept ==
    ASSUME NEW keys, Errors(keys, AgentDefinition) = {},
           NEW definition, definition = Dump(keys, AgentDefinition)
    PROVE  /\ Errors(definition, AgentDefinition) = {}
           /\ Dump(definition, AgentDefinition) = definition
           /\ \A p \in DOMAIN definition :
                 /\ p[1] = "permissions" /\ definition[p] \in {"true", "read-write"}
                    => p \in DOMAIN keys
                 /\ definition[p] \in Unstorable => p \in DOMAIN keys /\ keys[p] \in Unstorable
           /\ Rooted(keys, AgentDefinition) =>
                 \A p \in DOMAIN keys :
                    /\ p \in DOMAIN definition
                    /\ definition[p] = FieldAt(AgentDefinition, p).accepts[keys[p]]
<1>1. Errors(definition, AgentDefinition) = {} /\ Dump(definition, AgentDefinition) = definition
    BY DumpIsSettled, AgentDefinitionSound
<1>2. /\ DOMAIN definition = Paths(keys, AgentDefinition)
      /\ \A p \in Paths(keys, AgentDefinition) : definition[p] = Value(keys, AgentDefinition, p)
    BY DEF Dump
<1>3. ASSUME NEW p \in DOMAIN definition
      PROVE  /\ p \notin DOMAIN keys => definition[p] = FieldAt(AgentDefinition, p).default
             /\ p \in DOMAIN keys =>
                   definition[p] = FieldAt(AgentDefinition, p).accepts[keys[p]]
             /\ definition[p] \in Unstorable => p \in DOMAIN keys /\ keys[p] \in Unstorable
    BY <1>2, ValidValue, AgentDefinitionSound
<1>4. ASSUME NEW p \in DOMAIN definition, p[1] = "permissions", p \notin DOMAIN keys
      PROVE  definition[p] \notin {"true", "read-write"}
    <2>1. Model(AgentDefinition, "permissions") = Permissions
        BY DEF Model, Blocks
    <2>2. p[2] \in DOMAIN Permissions /\ FieldAt(AgentDefinition, p) = Permissions[p[2]]
        BY <1>2, <1>4, <2>1, PathsAreKeys DEF FieldAt
    <2> QED
        BY <1>3, <1>4, <2>2, PermissionsDefault
<1>5. Rooted(keys, AgentDefinition) => \A p \in DOMAIN keys : p \in DOMAIN definition
    BY <1>2, NoErrors DEF Rooted
<1> QED
    BY <1>1, <1>3, <1>4, <1>5

\* What it has of the objective.
LEMMA ObjectiveKept ==
    ASSUME NEW keys, Errors(keys, ObjectiveDocument) = {},
           NEW objective, objective = Unwrap(Dump(keys, ObjectiveDocument))
    PROVE  /\ Errors(objective, Objective) = {} /\ Dump(objective, Objective) = objective
           /\ Possible(objective, Objective)
           /\ \A p \in DOMAIN objective :
                 /\ p[1] = "completion_action" /\ objective[p] = "true" => p \in DOMAIN keys
                 /\ objective[p] \in Unstorable =>
                       Outer(p) \in DOMAIN keys /\ keys[Outer(p)] \in Unstorable
           /\ Rooted(keys, ObjectiveDocument) =>
                 \A p \in DOMAIN Unwrap(keys) :
                    /\ p \in DOMAIN objective
                    /\ objective[p] = FieldAt(Objective, p).accepts[Unwrap(keys)[p]]
<1>1. /\ DOMAIN objective = Unwrapped
      /\ \A p \in Unwrapped : objective[p] = Value(keys, ObjectiveDocument, Outer(p))
      /\ Errors(objective, Objective) = {} /\ Dump(objective, Objective) = objective
      /\ Possible(objective, Objective)
    BY UnwrapIsSettled
<1>2. ASSUME NEW p \in Unwrapped
      PROVE  /\ Outer(p) \notin DOMAIN keys => objective[p] = FieldAt(Objective, p).default
             /\ Outer(p) \in DOMAIN keys =>
                   objective[p] = FieldAt(Objective, p).accepts[keys[Outer(p)]]
             /\ objective[p] \in Unstorable =>
                   Outer(p) \in DOMAIN keys /\ keys[Outer(p)] \in Unstorable
    <2>1. Outer(p) \in Paths(keys, ObjectiveDocument)
        BY ObjectiveOpens, UnwrappedFields
    <2>2. FieldAt(Objective, p) = FieldAt(ObjectiveDocument, Outer(p))
        BY UnwrappedFields
    <2> QED
        BY <1>1, <2>1, <2>2, ValidValue, ObjectiveDocumentSound
<1>3. ASSUME NEW p \in Unwrapped, p[1] = "completion_action", objective[p] = "true"
      PROVE  p \in DOMAIN keys
    <2>1. Outer(p) = p
        BY <1>3, UnwrappedFields
    <2>2. Model(Objective, "completion_action") = CompletionAction
        BY ObjectiveFields DEF Model
    <2>3. p[2] \in DOMAIN CompletionAction
        BY <1>3 DEF Unwrapped
    <2>4. FieldAt(Objective, p) = CompletionAction[p[2]]
        BY <1>3, <2>2 DEF FieldAt
    <2> QED
        BY <1>2, <1>3, <2>1, <2>3, <2>4, CompletionActionDefault
<1>4. ASSUME Rooted(keys, ObjectiveDocument), NEW p \in DOMAIN Unwrap(keys)
      PROVE  /\ p \in Unwrapped
             /\ objective[p] = FieldAt(Objective, p).accepts[Unwrap(keys)[p]]
    <2>1. DOMAIN keys \subseteq {<<"top", "objective">>} \cup Wrapped
        BY <1>4, NoErrors, ObjectiveOpens DEF Rooted
    <2>2. /\ p \in Unwrapped /\ Outer(p) \in DOMAIN keys
          /\ Unwrap(keys)[p] = keys[Outer(p)]
        BY <1>4, <2>1, UnwrapKeys
    <2> QED
        BY <1>2, <2>2
<1> QED
    BY <1>1, <1>2, <1>3, <1>4

\* Creating the agent.
LEMMA CreateInv ==
    ASSUME Inv, Create
    PROVE  Inv'
<1> DEFINE first == Document(1).keys
           second == Document(2).keys
<1>1. BodyOK /\ TwoDocuments
    BY DEF Inv, Create
<1>2. /\ body.order[1] \in Names /\ body.order[2] \in Names
      /\ Document(1) = body[body.order[1]] /\ Document(2) = body[body.order[2]]
    BY <1>1, DocumentNames DEF Document
<1>3. Errors(first, AgentDefinition) = {} /\ Errors(second, ObjectiveDocument) = {}
    BY <1>1, <1>2 DEF Create, Located, BodyOK
<1>4. Rooted(first, AgentDefinition) /\ Rooted(second, ObjectiveDocument)
    <2>1. /\ body.order[1] = "definition" \/ body.order[1] = "objective"
          /\ body.order[2] = "definition" \/ body.order[2] = "objective"
        BY <1>2 DEF Names
    <2>2. <<"top", "apiVersion">> \in DOMAIN first /\ <<"top", "objective">> \in DOMAIN second
        BY <1>3, DefinitionNeedsVersion, ObjectiveNeedsObjective
    <2>3. body.order[1] = "definition" /\ body.order[2] = "objective"
        BY <1>1, <1>2, <2>1, <2>2 DEF BodyOK
    <2> QED
        BY <1>1, <1>2, <2>3 DEF BodyOK, Names, Top
<1>5. PICK definition : definition = Dump(first, AgentDefinition)
    OBVIOUS
<1>6. PICK objective : objective = Unwrap(Dump(second, ObjectiveDocument))
    OBVIOUS
<1>7. IF (Range(definition) \cup Range(objective)) \cap Unstorable # {}
      THEN Raise("DBAPIError", {})
      ELSE /\ Answer("201", {})
           /\ row' = [there |-> TRUE, definition |-> definition, objective |-> objective,
                      name |-> definition[<<"metadata", "name">>],
                      repository_url |-> OrNull(definition, <<"repository", "url">>),
                      base_branch |-> OrNull(definition, <<"repository", "branch">>)]
    BY <1>5, <1>6 DEF Create
<1> HIDE DEF first, second
<1>8. /\ Errors(definition, AgentDefinition) = {}
      /\ Dump(definition, AgentDefinition) = definition
      /\ \A p \in DOMAIN definition :
            /\ p[1] = "permissions" /\ definition[p] \in {"true", "read-write"}
               => p \in DOMAIN first
            /\ definition[p] \in Unstorable => p \in DOMAIN first /\ first[p] \in Unstorable
      /\ \A p \in DOMAIN first :
            /\ p \in DOMAIN definition
            /\ definition[p] = FieldAt(AgentDefinition, p).accepts[first[p]]
    BY <1>3, <1>4, <1>5, DefinitionKept
<1>9. /\ Errors(objective, Objective) = {} /\ Dump(objective, Objective) = objective
      /\ Possible(objective, Objective)
      /\ \A p \in DOMAIN objective :
            /\ p[1] = "completion_action" /\ objective[p] = "true" => p \in DOMAIN second
            /\ objective[p] \in Unstorable =>
                  Outer(p) \in DOMAIN second /\ second[Outer(p)] \in Unstorable
      /\ \A p \in DOMAIN Unwrap(second) :
            /\ p \in DOMAIN objective
            /\ objective[p] = FieldAt(Objective, p).accepts[Unwrap(second)[p]]
    BY <1>3, <1>4, <1>6, ObjectiveKept
<1>10. CASE (Range(definition) \cup Range(objective)) \cap Unstorable # {}
    <2>1. /\ reply = NoReply /\ body' = body /\ edits' = edits /\ row' = row
          /\ reply' = [code |-> "500", locs |-> {}]
        <3>1. Raise("DBAPIError", {}) /\ "DBAPIError" \notin Handled
            BY <1>7, <1>10 DEF Handled
        <3> QED
            BY <3>1, RaiseReplies
    <2>2. \E i \in {1, 2} : Range(Document(i).keys) \cap Unstorable # {}
        <3>1. CASE \E p \in DOMAIN definition : definition[p] \in Unstorable
            <4>1. Range(first) \cap Unstorable # {}
                BY <1>8, <3>1 DEF Range
            <4> QED
                BY <4>1 DEF first
        <3>2. CASE \E p \in DOMAIN objective : objective[p] \in Unstorable
            <4>1. Range(second) \cap Unstorable # {}
                BY <1>9, <3>2 DEF Range
            <4> QED
                BY <4>1 DEF second
        <3> QED
            BY <1>10, <3>1, <3>2 DEF Range
    <2>3. FaultsAreAnswered'
        BY <2>1, <2>2 DEF FaultsAreAnswered, Document
    <2> QED
        BY <2>1, <2>3, RefusalInv
<1>11. CASE (Range(definition) \cup Range(objective)) \cap Unstorable = {}
    <2>1. /\ reply' = [code |-> "201", locs |-> {}] /\ body' = body /\ edits' = edits
          /\ row'.there = TRUE /\ row'.definition = definition /\ row'.objective = objective
        BY <1>7, <1>11 DEF Answer
    <2>2. BodyOK' /\ (edits \in 0..MaxEdits)' /\ ReplyOK'
        BY <2>1 DEF Inv, BodyOK, ReplyOK
    <2>3. DocumentsRoundTrip'
        BY <1>8, <1>9, <2>1 DEF DocumentsRoundTrip
    <2>4. Document(1)'.keys = first /\ Document(2)'.keys = second
        BY <2>1 DEF Document, first, second
    <2>5. NothingGrantedUnasked'
        BY <1>8, <1>9, <2>1, <2>4 DEF NothingGrantedUnasked
    <2>6. NoSettingDropped'
        BY <1>8, <1>9, <2>1, <2>4 DEF NoSettingDropped
    <2>7. FaultsAreAnswered'
        BY <2>1 DEF FaultsAreAnswered
    <2> QED
        BY <2>2, <2>3, <2>5, <2>6, <2>7 DEF Inv, Kept
<1> QED
    BY <1>10, <1>11

-----------------------------------------------------------------------------
(* The theorems.                                                           *)

\* Every step keeps the invariant.
LEMMA NextInv == Inv /\ [Next]_vars => Inv'
<1> SUFFICES ASSUME Inv, [Next]_vars PROVE Inv'
    OBVIOUS
<1>1. ASSUME NEW d \in Names, SetKey(d) \/ DropKey(d) \/ AddUnknown(d) \/ Unmap(d)
      PROVE  Inv'
    BY <1>1, SetKeyInv, DropKeyInv, AddUnknownInv, UnmapInv
<1>2. CASE Reorder \/ Garble
    BY <1>2, ReorderInv, GarbleInv
<1>3. CASE RefuseText \/ RefuseCount
    BY <1>3, RefuseTextInv, RefuseCountInv
<1>4. CASE RefuseDefinition \/ RefuseObjective
    BY <1>4, RefuseDefinitionInv
<1>5. CASE Create
    BY <1>5, CreateInv
<1>6. CASE StartOver
    BY <1>6, StartOverInv
<1>7. CASE UNCHANGED vars
    <2>1. BodyOK' /\ ReplyOK' /\ (edits \in 0..MaxEdits)'
        BY <1>7 DEF vars, Inv, BodyOK, ReplyOK
    <2>2. DocumentsRoundTrip' /\ FaultsAreAnswered'
        BY <1>7 DEF vars, Inv, Kept, DocumentsRoundTrip, FaultsAreAnswered, Document
    <2>3. NothingGrantedUnasked' /\ NoSettingDropped'
        BY <1>7 DEF vars, Inv, Kept, NothingGrantedUnasked, NoSettingDropped, Document
    <2> QED
        BY <2>1, <2>2, <2>3 DEF Inv, Kept
<1> QED
    BY <1>1, <1>2, <1>3, <1>4, <1>5, <1>6, <1>7 DEF Next, Names

\* However far a client edits the examples, the invariant holds.
THEOREM DocumentsInvariant == Spec => []Inv
<1>1. Init => Inv
    BY InitInv
<1>2. Inv /\ [Next]_vars => Inv'
    BY NextInv
<1> QED
    BY <1>1, <1>2, PTL DEF Spec

\* Every key of a document lies in a block that is open, and a reply has
\* locations and a row as its status says.
THEOREM TypeCorrectness == Spec => []TypeOK
<1>1. Inv => TypeOK
    <2> SUFFICES ASSUME Inv PROVE TypeOK
        OBVIOUS
    <2>1. \A d \in {"definition", "objective"} :
              \A p \in DOMAIN body[d].keys : p[1] \in Open(body[d].keys, Top(d))
        BY DEF Inv, BodyOK, Rooted, Names
    <2>2. /\ reply.code \in {"none", "201", "422", "500"}
          /\ reply.code = "422" <=> reply.locs # {}
          /\ reply.code = "201" <=> row.there
        BY DEF Inv, ReplyOK, NoReply, NoRow
    <2> QED
        BY <2>1, <2>2 DEF Inv, TypeOK
<1> QED
    BY <1>1, DocumentsInvariant, PTL

\* What create_agent stores, as model_dump gives it and for whichever document,
\* validates again and dumps to itself: the row reads back through the models
\* that wrote it.
THEOREM StoredDocumentsReadBack == Spec => []DocumentsRoundTrip
<1>1. Inv => DocumentsRoundTrip
    BY DEF Inv, Kept
<1> QED
    BY <1>1, DocumentsInvariant, PTL

\* No permission and no publication of a persisted agent comes from a default,
\* and none it is asked for rests on one it is not.
THEOREM NoGrantByDefault == Spec => []NothingGrantedUnasked
<1>1. Inv => NothingGrantedUnasked
    BY DEF Inv, Kept
<1> QED
    BY <1>1, DocumentsInvariant, PTL

\* Every key of an accepted body is in the row, with the value validation made
\* of it.
THEOREM SettingsAreKept == Spec => []NoSettingDropped
<1>1. Inv => NoSettingDropped
    BY DEF Inv, Kept
<1> QED
    BY <1>1, DocumentsInvariant, PTL

\* A 500 is left for text that cannot be read and values that cannot be stored;
\* a 422 without a location for a body that has none to give.
THEOREM FaultsHaveAnswers == Spec => []FaultsAreAnswered
<1>1. Inv => FaultsAreAnswered
    BY DEF Inv, Kept
<1> QED
    BY <1>1, DocumentsInvariant, PTL

=============================================================================
