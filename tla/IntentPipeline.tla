---------------------------- MODULE IntentPipeline ----------------------------
(***************************************************************************)
(* From an operator's words to a command the validator has admitted: the   *)
(* server's routing (src/api/cognition_server.py), what SmolVLM's output   *)
(* is turned into (src/perception/smolvlm_runtime.py), and the stages of   *)
(* CognitionEngine.process_intent with their repairs                       *)
(* (src/perception/cognition_engine.py and guardrails.py).                 *)
(*                                                                         *)
(* A transcript is what the code's searches find in it; a model output and *)
(* every JSON object derived from it are what the repairs and the schema   *)
(* look at.                                                                *)
(***************************************************************************)
EXTENDS CommandSafety, Sequences

CONSTANTS
  Texts,         \* the transcripts considered
  ModelOutputs,  \* what the model may answer
  DroneStates,   \* the snapshots a request may be judged in
  Backends       \* "smolvlm" (the server) and "mlx" (the local agent)

Phrases == {"hold", "land", "disarm", "takeoff", "arm", "move_velocity"}
\* No frame, or what frame_contains_hsv_color finds: a frame that cannot be read lacks the
\* target.
Images == {"none", "shows target", "lacks target"}

\* words: phrases found as whole words; parts: those found as substrings; patterns: those
\* SAFE_COMMAND_PATTERNS find (hold and land have fewer synonyms there, and no motion);
\* color: a red or blue target is asked for.
TextType == [words : SUBSET Phrases, parts : SUBSET Phrases,
             patterns : SUBSET (Phrases \ {"move_velocity"}), color : BOOLEAN]

\* parsed: there is a JSON object; velocity: the fields of move_velocity are present and
\* in range; extras: it has other fields than its command allows.
JsonType == [parsed : BOOLEAN, command : Commands \cup {"missing", "unknown"},
             target : {"yes", "no", "missing"}, reasoning : BOOLEAN, velocity : BOOLEAN,
             extras : BOOLEAN]

ASSUME PipelineAssumption ==
  /\ Texts \subseteq TextType
  /\ ModelOutputs \subseteq JsonType
  /\ DroneStates \subseteq Snapshots
  /\ Backends \subseteq {"smolvlm", "mlx"}

VARIABLES
  text, image, snapshot, backend,  \* the request
  stage,   \* the stage the request is at
  route,   \* "text" for the fast path, "model" for the engine
  output,  \* what the model said
  json,    \* the object under repair
  result   \* "none", "rejected", or the command that is admitted

request == <<text, image, snapshot, backend>>
vars == <<request, stage, route, output, json, result>>

NoJson == [parsed |-> FALSE, command |-> "missing", target |-> "missing",
           reasoning |-> FALSE, velocity |-> FALSE, extras |-> FALSE]

Init ==
  /\ text \in Texts
  /\ image \in Images
  /\ snapshot \in DroneStates
  /\ backend \in Backends
  /\ stage = "routing"
  /\ route = "none"
  /\ output = NoJson
  /\ json = NoJson
  /\ result = "none"

-----------------------------------------------------------------------------
(* smolvlm_runtime.py *)

\* The first command of a sequence that is in a set, or "none": a chain of tests.
FirstOf(order, found) ==
  IF \E i \in 1..Len(order) : order[i] \in found
  THEN order[CHOOSE i \in 1..Len(order) :
               order[i] \in found /\ \A j \in 1..(i - 1) : order[j] \notin found]
  ELSE "none"

\* Mutant: motion is looked for before hold.
ExplicitCommandMoveFirst(words, state) ==
  LET command == FirstOf(<<"move_velocity", "hold", "land", "disarm", "takeoff", "arm">>, words)
  IN  IF state = "GROUNDED" /\ command \in {"takeoff", "move_velocity"} THEN "arm" ELSE command

\* explicit_command_from_intent: the command, or "none".
ExplicitCommand(words, state) ==
  LET command == FirstOf(<<"hold", "land", "disarm", "takeoff", "arm", "move_velocity">>, words)
  IN  IF state = "GROUNDED" /\ command \in {"takeoff", "move_velocity"} THEN "arm" ELSE command

\* command_from_intent, which searches for substrings and has none for hold.
FallbackCommand(parts, state) ==
  LET command == FirstOf(<<"takeoff", "land", "disarm", "arm", "move_velocity">>, parts)
  IN  CASE state = "GROUNDED" /\ parts \cap {"takeoff", "move_velocity"} # {} -> "arm"
        [] command = "none" -> "hold"
        [] OTHER -> command

\* An object the code makes itself.
Made(command) == [parsed |-> TRUE, command |-> command, target |-> "yes",
                  reasoning |-> TRUE, velocity |-> TRUE, extras |-> FALSE]

\* command_from_parsed_json: a missing target_found counts as found, velocities are
\* clamped, and other fields are left behind.
FromParsed(out) == [Made(out.command) EXCEPT !.target = IF out.target = "no" THEN "no" ELSE "yes"]

\* Mutant: a critical proposal needs no words of the operator.
NormaliseTrusting(out, t, state) ==
  LET explicit == ExplicitCommand(t.words, state)
  IN  CASE out.parsed /\ out.command \in Commands /\ explicit \in {"none", out.command}
             -> FromParsed(out)
        [] explicit # "none" -> Made(explicit)
        [] OTHER -> Made(FallbackCommand(t.parts, state))

\* normalize_smolvlm_response.
Normalise(out, t, state) ==
  LET explicit == ExplicitCommand(t.words, state)
      usable   == out.parsed /\ out.command \in Commands
  IN  CASE usable /\ (out.command = explicit \/ (explicit = "none" /\ out.command = "hold"))
             -> FromParsed(out)
        [] usable /\ explicit = "none" /\ out.command # "hold" -> Made("hold")
        [] explicit # "none" /\ ~(usable /\ out.command = explicit) -> Made(explicit)
        [] ~usable /\ explicit = "none" -> Made(FallbackCommand(t.parts, state))

-----------------------------------------------------------------------------
(* guardrails.py *)

\* Mutant: without a frame there is nothing to check.
GuardTargetNeedsFrame(o, t, frame) ==
  IF t.color /\ frame # "none"
  THEN [o EXCEPT !.target = IF frame = "shows target" THEN "yes" ELSE "no", !.reasoning = TRUE]
  ELSE o

\* apply_hsv_guardrail: for a coloured target the frame decides, and no frame means no.
GuardTarget(o, t, frame) ==
  IF t.color
  THEN [o EXCEPT !.target = IF frame = "shows target" THEN "yes" ELSE "no", !.reasoning = TRUE]
  ELSE o

\* infer_safe_non_motion_command: the set of what it may return, {} for None.  In the
\* states it does not list, the match that comes first in the text counts.
Inferred(patterns, state) ==
  LET order == CASE state = "GROUNDED" -> <<"arm", "disarm", "hold", "takeoff", "land">>
                 [] state = "ARMED"    -> <<"takeoff", "disarm", "hold", "arm", "land">>
                 [] OTHER              -> <<"land", "hold", "takeoff", "disarm", "arm">>
  IN  IF state = "LANDED" THEN patterns ELSE {FirstOf(order, patterns)} \ {"none"}

\* repair_missing_command_from_text.
RepairCommand(o, t, state) ==
  IF o.command # "missing" \/ t.patterns = {}
  THEN {o}
  ELSE {[o EXCEPT !.command = c, !.target = IF @ = "missing" THEN "yes" ELSE @,
                  !.reasoning = TRUE] : c \in Inferred(t.patterns, state)}

\* Mutant: an omitted target_found counts as found, whatever the command.
RepairTargetTrusting(o) ==
  IF o.target # "missing" /\ o.reasoning THEN o
  ELSE [o EXCEPT !.target = IF @ = "missing" THEN "yes" ELSE @, !.reasoning = TRUE]

\* repair_missing_target_fields: motion needs both fields from the model.
RepairTarget(o) ==
  CASE o.target # "missing" /\ o.reasoning -> o
    [] ~(o.target # "missing" /\ o.reasoning) /\ o.command \in Commands \ {"move_velocity"} ->
         [o EXCEPT !.target = IF @ = "missing" THEN "yes" ELSE @, !.reasoning = TRUE]
    [] OTHER -> [o EXCEPT !.target = "no", !.reasoning = TRUE]

\* drop_extra_command_fields.
DropExtras(o) == [o EXCEPT !.extras = @ /\ o.command \notin Commands]

-----------------------------------------------------------------------------
(* command_validator.py *)

\* _validate_schema.
WellFormed(o) ==
  /\ o.parsed
  /\ o.command \in Commands
  /\ o.target # "missing" /\ o.reasoning
  /\ o.command = "move_velocity" => o.velocity
  /\ ~o.extras

\* Mutant: the rules are checked before the override.
ValidateBeforeOverride(o, s) ==
  IF WellFormed(o) /\ Admits(o.command, s) THEN Effective(o.command, o.target = "yes")
                                           ELSE "rejected"

\* validate: the override comes first and is itself subject to the rules.
Validate(o, s) ==
  LET command == Effective(o.command, o.target = "yes")
  IN  IF WellFormed(o) /\ Admits(command, s) THEN command ELSE "rejected"

-----------------------------------------------------------------------------
(* The stages of a request *)

\* extract_json_object: the answer is an object, or its first brace opens a balanced one
\* that parses.
Extractable(o) == o.parsed

\* should_use_fast_path.
UsesFastPath(command, frame) ==
  command \in Commands /\ (command = "move_velocity" => frame = "none")

\* process_payload tries the text first; process_validated_payload goes on from there.
RouteText ==
  /\ stage = "routing" /\ backend = "smolvlm"
  /\ UsesFastPath(ExplicitCommand(text.words, snapshot.state), image)
  /\ stage' = "validating"
  /\ route' = "text"
  /\ json' = Made(ExplicitCommand(text.words, snapshot.state))
  /\ UNCHANGED <<request, output, result>>

RouteModel ==
  /\ stage = "routing"
  /\ backend = "smolvlm" => ~UsesFastPath(ExplicitCommand(text.words, snapshot.state), image)
  /\ stage' = "generating"
  /\ route' = "model"
  /\ UNCHANGED <<request, output, json, result>>

\* SmolVLMRuntime.generate_profiled: the answer is normalised before the engine sees it.
GenerateSmol ==
  /\ stage = "generating" /\ backend = "smolvlm"
  /\ \E out \in ModelOutputs :
       /\ output' = out
       /\ json' = Normalise(out, text, snapshot.state)
  /\ stage' = "repairing"
  /\ UNCHANGED <<request, route, result>>

\* VLMRuntime.generate_profiled: streamed, or in one batch if streaming fails; what an
\* aborted stream had answered is dropped.
GenerateMlx ==
  /\ stage = "generating" /\ backend = "mlx"
  /\ \E out \in ModelOutputs : output' = out /\ json' = out
  /\ stage' = "repairing"
  /\ UNCHANGED <<request, route, result>>

\* Inference raises, or no object can be extracted, or looking at the frame raises.
Abort ==
  /\ \/ stage = "generating"
     \/ stage = "repairing" /\ ~Extractable(json)
     \/ stage = "repairing" /\ text.color /\ image # "none"
  /\ stage' = "done"
  /\ result' = "rejected"
  /\ UNCHANGED <<request, route, output, json>>

\* _apply_safety_repairs.
Repair ==
  /\ stage = "repairing" /\ Extractable(json)
  /\ \E o \in RepairCommand(GuardTarget(json, text, image), text, snapshot.state) :
       json' = DropExtras(RepairTarget(o))
  /\ stage' = "validating"
  /\ UNCHANGED <<request, route, output, result>>

Decide ==
  /\ stage = "validating"
  /\ result' = Validate(json, snapshot)
  /\ stage' = "done"
  /\ UNCHANGED <<request, route, output, json>>

Next == RouteText \/ RouteModel \/ GenerateSmol \/ GenerateMlx \/ Abort \/ Repair \/ Decide

Spec == Init /\ [][Next]_vars

-----------------------------------------------------------------------------
(* Properties *)

\* Types of a request and its stages.
TypeOK ==
  /\ text \in TextType /\ image \in Images /\ snapshot \in Snapshots
  /\ backend \in {"smolvlm", "mlx"}
  /\ stage \in {"routing", "generating", "repairing", "validating", "done"}
  /\ route \in {"none", "text", "model"}
  /\ output \in JsonType
  /\ json \in JsonType
  /\ result \in Commands \cup {"none", "rejected"}

\* The engine never lets a request for a coloured target move the vehicle unless the
\* frame shows the target, whatever the model claims and whatever was repaired.
TargetSeenBeforeMotion ==
  (route = "model" /\ text.color /\ image # "shows target")
     => result \in {"none", "hold", "rejected"}

\* On the server, an operator who says hold, stop, hover or stay gets nothing but a
\* hold, whatever else was said and whatever the model proposes.
HoldWins ==
  (backend = "smolvlm" /\ "hold" \in text.words) => result \in {"none", "hold", "rejected"}

\* On the server, what a model that can be parsed proposes changes which command is
\* executed only towards hold: a critical command is the one the words ask for.
ModelCannotEscalate ==
  (backend = "smolvlm" /\ output.parsed /\ output.command \in Commands
     /\ result \in Commands \ {"hold"})
     => result = ExplicitCommand(text.words, snapshot.state)

\* On the local agent, motion is executed only if the model itself said that the
\* target is found and why, or the frame shows the coloured target asked for.
MotionIsVouched ==
  (backend = "mlx" /\ result = "move_velocity")
     => \/ output.target = "yes" /\ output.reasoning
        \/ text.color /\ image = "shows target"

\* The model named a command that could be carried out; on the server it need not, for
\* the normalisation makes up for every flaw of its answer.
CommandNamed ==
  \/ backend = "smolvlm"
  \/ output.command \in Commands /\ (output.command = "move_velocity" => output.velocity)

\* A request for a coloured target that the frame does not show ends, whatever command it
\* would have been and whatever fields the model left out or added, as a hold where a hold
\* is admitted and as a refusal where none is: no stage on the way loses the object, and
\* what the rules judge is the hold that replaces the command and not the command.
AbsentTargetHolds ==
  [][(/\ stage = "validating" /\ route = "model"
      /\ text.color /\ image # "shows target"
      /\ CommandNamed)
       => result' = IF Admits("hold", snapshot) THEN "hold" ELSE "rejected"]_vars

-----------------------------------------------------------------------------
(* Properties the documentation states and the code does not have *)

\* ARCHITECTURE.md:186: "For visual commands, OpenCV target guardrails validate the image
\* before motion."
VisualMotionIsGuarded == (text.color /\ result = "move_velocity") => image = "shows target"

\* ARCHITECTURE.md:153: no critical command becomes control output "unless there is
\* explicit operator evidence in the transcript".
CriticalNeedsEvidence ==
  (backend = "smolvlm" /\ result \in Commands \ {"hold"})
     => result = ExplicitCommand(text.words, snapshot.state)
=============================================================================
