------------------------- MODULE IntentPipelineProofs -------------------------
(***************************************************************************)
(* The pipeline for every set of transcripts, model outputs and snapshots: *)
(* what the guardrails and the normalisation keep a model from doing.      *)
(*                                                                         *)
(* The invariant says where the object under repair comes from: it is what *)
(* the words ask for, or the repair of what the backend made of the        *)
(* model's answer.  The lemmas about the repairs do the rest.              *)
(***************************************************************************)
EXTENDS IntentPipeline, TLAPS

Said == ExplicitCommand(text.words, snapshot.state)

\* What the engine gets from the backend.
Proposal == IF backend = "smolvlm" THEN Normalise(output, text, snapshot.state) ELSE output

\* What the validator is given.
Judged ==
  \/ route = "text" /\ backend = "smolvlm" /\ ~output.parsed /\ json = Made(Said)
  \/ /\ route = "model" /\ Proposal.parsed
     /\ \E o \in RepairCommand(GuardTarget(Proposal, text, image), text, snapshot.state) :
          json = DropExtras(RepairTarget(o))

Provenance ==
  /\ stage \in {"routing", "generating"} => output = NoJson
  /\ stage = "generating" => route = "model"
  /\ stage = "repairing" => route = "model" /\ json = Proposal
  /\ stage = "validating" => Judged
  /\ stage # "done" => result = "none"
  /\ stage = "done" => result = "rejected" \/ (result = Validate(json, snapshot) /\ Judged)

IInv == TypeOK /\ Provenance

-----------------------------------------------------------------------------
(* The searches *)

\* The first match is a match.
LEMMA FirstOfIsFound ==
  ASSUME NEW S, NEW order \in Seq(S), Len(order) \in 1..6, NEW found
  PROVE  /\ FirstOf(order, found) \in {"none"} \cup (S \cap found)
         /\ order[1] \in found => FirstOf(order, found) = order[1]
<1> DEFINE First(i) == order[i] \in found /\ \A j \in 1..(i - 1) : order[j] \notin found
<1>1. CASE \A i \in 1..Len(order) : order[i] \notin found
  BY <1>1 DEF FirstOf
<1>2. CASE \E i \in 1..Len(order) : order[i] \in found
  <2>1. \E i \in 1..Len(order) : First(i)
    <3>1. CASE order[1] \in found
      BY <3>1
    <3>2. CASE order[1] \notin found /\ Len(order) >= 2 /\ order[2] \in found
      <4>1. First(2)
        BY <3>2
      <4> QED
        BY <4>1, <3>2
    <3>3. CASE order[1] \notin found /\ order[2] \notin found /\ Len(order) >= 3 /\ order[3] \in found
      <4>1. First(3)
        BY <3>3
      <4> QED
        BY <4>1, <3>3
    <3>4. CASE /\ order[1] \notin found /\ order[2] \notin found /\ order[3] \notin found
               /\ Len(order) >= 4 /\ order[4] \in found
      <4>1. First(4)
        BY <3>4
      <4> QED
        BY <4>1, <3>4
    <3>5. CASE /\ order[1] \notin found /\ order[2] \notin found /\ order[3] \notin found
               /\ order[4] \notin found /\ Len(order) >= 5 /\ order[5] \in found
      <4>1. First(5)
        BY <3>5
      <4> QED
        BY <4>1, <3>5
    <3>6. CASE /\ order[1] \notin found /\ order[2] \notin found /\ order[3] \notin found
               /\ order[4] \notin found /\ order[5] \notin found
               /\ Len(order) = 6 /\ order[6] \in found
      <4>1. First(6)
        BY <3>6
      <4> QED
        BY <4>1, <3>6
    <3> QED
      BY <1>2, <3>1, <3>2, <3>3, <3>4, <3>5, <3>6
  <2>2. PICK k : k = CHOOSE i \in 1..Len(order) : First(i)
    OBVIOUS
  <2>3. k \in 1..Len(order) /\ First(k) /\ FirstOf(order, found) = order[k]
    BY <1>2, <2>1, <2>2 DEF FirstOf
  <2> HIDE DEF First
  <2>4. order[1] \in found => k = 1
    BY <2>3 DEF First
  <2> QED
    BY <2>3, <2>4 DEF First
<1> QED
  BY <1>1, <1>2

LEMMA ExplicitFacts ==
  ASSUME NEW words \in SUBSET Phrases, NEW state
  PROVE  /\ ExplicitCommand(words, state) \in Commands \cup {"none"}
         /\ "hold" \in words => ExplicitCommand(words, state) = "hold"
<1> DEFINE order == <<"hold", "land", "disarm", "takeoff", "arm", "move_velocity">>
           command == FirstOf(order, words)
<1>1. order \in Seq(Phrases) /\ Len(order) = 6 /\ order[1] = "hold"
  BY DEF Phrases
<1> HIDE DEF order
<1>2. command \in {"none"} \cup Phrases /\ ("hold" \in words => command = "hold")
  BY <1>1, FirstOfIsFound
<1> HIDE DEF command
<1>3. ExplicitCommand(words, state) =
        IF state = "GROUNDED" /\ command \in {"takeoff", "move_velocity"} THEN "arm" ELSE command
  BY DEF ExplicitCommand, command, order
<1> QED
  BY <1>2, <1>3 DEF Phrases, Commands

LEMMA FallbackFacts ==
  ASSUME NEW parts \in SUBSET Phrases, NEW state
  PROVE  FallbackCommand(parts, state) \in Commands
<1> DEFINE order == <<"takeoff", "land", "disarm", "arm", "move_velocity">>
           command == FirstOf(order, parts)
<1>1. order \in Seq(Phrases) /\ Len(order) = 5
  BY DEF Phrases
<1> HIDE DEF order
<1>2. command \in {"none"} \cup Phrases
  BY <1>1, FirstOfIsFound
<1> HIDE DEF command
<1>3. FallbackCommand(parts, state) =
        CASE state = "GROUNDED" /\ parts \cap {"takeoff", "move_velocity"} # {} -> "arm"
          [] command = "none" -> "hold"
          [] OTHER -> command
  BY DEF FallbackCommand, command, order
<1> QED
  BY <1>2, <1>3 DEF Phrases, Commands

\* The patterns never find a motion.
LEMMA InferredFacts ==
  ASSUME NEW patterns \in SUBSET (Phrases \ {"move_velocity"}), NEW state
  PROVE  Inferred(patterns, state) \subseteq Commands \ {"move_velocity"}
<1> DEFINE order == CASE state = "GROUNDED" -> <<"arm", "disarm", "hold", "takeoff", "land">>
                      [] state = "ARMED"    -> <<"takeoff", "disarm", "hold", "arm", "land">>
                      [] OTHER              -> <<"land", "hold", "takeoff", "disarm", "arm">>
           S == Phrases \ {"move_velocity"}
<1>1. order \in Seq(S) /\ Len(order) = 5
  <2>1. <<"arm", "disarm", "hold", "takeoff", "land">> \in Seq(S)
    BY DEF Phrases
  <2>2. <<"takeoff", "disarm", "hold", "arm", "land">> \in Seq(S)
    BY DEF Phrases
  <2>3. <<"land", "hold", "takeoff", "disarm", "arm">> \in Seq(S)
    BY DEF Phrases
  <2>4. CASE state = "GROUNDED"
    BY <2>1, <2>4
  <2>5. CASE state = "ARMED"
    BY <2>2, <2>5
  <2>6. CASE state \notin {"GROUNDED", "ARMED"}
    BY <2>3, <2>6
  <2> QED
    BY <2>4, <2>5, <2>6
<1> HIDE DEF order
<1>2. FirstOf(order, patterns) \in {"none"} \cup S
  BY <1>1, FirstOfIsFound
<1>3. Inferred(patterns, state) = IF state = "LANDED" THEN patterns ELSE {FirstOf(order, patterns)} \ {"none"}
  BY DEF Inferred, order
<1> QED
  BY <1>2, <1>3 DEF Phrases, Commands

-----------------------------------------------------------------------------
(* The repairs *)

\* For a coloured target the frame has the word; otherwise the object is left alone.
LEMMA GuardFacts ==
  ASSUME NEW o \in JsonType, NEW t \in TextType, NEW frame
  PROVE  /\ GuardTarget(o, t, frame) \in JsonType
         /\ GuardTarget(o, t, frame).command = o.command
         /\ t.color /\ frame # "shows target" =>
              GuardTarget(o, t, frame) = [o EXCEPT !.target = "no", !.reasoning = TRUE]
         /\ ~t.color => GuardTarget(o, t, frame) = o
BY DEF GuardTarget, JsonType, TextType

\* A command is only put in where there was none, and it is never a motion.
LEMMA RepairFacts ==
  ASSUME NEW o \in JsonType, NEW t \in TextType, NEW state, NEW r \in RepairCommand(o, t, state)
  PROVE  /\ r \in JsonType
         /\ o.command # "missing" => r = o
         /\ r.command = "move_velocity" => r = o
         /\ o.target # "missing" => r.target = o.target
<1>1. CASE o.command # "missing" \/ t.patterns = {}
  BY <1>1 DEF RepairCommand
<1>2. CASE ~(o.command # "missing" \/ t.patterns = {})
  <2>1. Inferred(t.patterns, state) \subseteq Commands \ {"move_velocity"}
    BY InferredFacts DEF TextType
  <2>2. PICK c \in Commands \ {"move_velocity"} :
          r = [o EXCEPT !.command = c, !.target = IF @ = "missing" THEN "yes" ELSE @, !.reasoning = TRUE]
    BY <1>2, <2>1 DEF RepairCommand
  <2> QED
    BY <1>2, <2>2 DEF JsonType
<1> QED
  BY <1>1, <1>2

\* The last repairs keep the command, and never turn a "no" into a "yes", nor for motion
\* an omission.
LEMMA FinishFacts ==
  ASSUME NEW o \in JsonType
  PROVE  LET r == DropExtras(RepairTarget(o))
         IN  /\ r \in JsonType
             /\ r.command = o.command
             /\ o.target = "no" => r.target = "no"
             /\ o.command = "move_velocity" /\ r.target = "yes" => o.target = "yes" /\ o.reasoning
<1>1. /\ RepairTarget(o) \in JsonType
      /\ RepairTarget(o).command = o.command
      /\ o.target = "no" => RepairTarget(o).target = "no"
      /\ o.command = "move_velocity" /\ RepairTarget(o).target = "yes" => o.target = "yes" /\ o.reasoning
  BY DEF RepairTarget, JsonType, Commands
<1>2. ASSUME NEW r \in JsonType
      PROVE  DropExtras(r) \in JsonType /\ DropExtras(r).command = r.command /\ DropExtras(r).target = r.target
  BY DEF DropExtras, JsonType
<1> QED
  BY <1>1, <1>2

-----------------------------------------------------------------------------
(* The normalisation *)

LEMMA MadeFacts ==
  ASSUME NEW c \in Commands PROVE Made(c) \in JsonType /\ Made(c).command = c /\ Made(c).parsed /\ Made(c).velocity
BY DEF Made, JsonType

\* What the engine gets on the server is the words' command or a hold; without a usable
\* answer, and only then, it may be what the substrings suggest.
LEMMA NormaliseFacts ==
  ASSUME NEW out \in JsonType, NEW t \in TextType, NEW state
  PROVE  LET n == Normalise(out, t, state)
             explicit == ExplicitCommand(t.words, state)
         IN  /\ n \in JsonType /\ n.command \in Commands /\ n.parsed /\ n.velocity
             /\ explicit = "hold" => n.command = "hold"
             /\ out.parsed /\ out.command \in Commands => n.command \in {explicit, "hold"}
<1> DEFINE explicit == ExplicitCommand(t.words, state)
           usable == out.parsed /\ out.command \in Commands
<1>1. explicit \in Commands \cup {"none"} /\ "none" \notin Commands /\ "hold" \in Commands
  BY ExplicitFacts DEF TextType, Commands
<1>2. usable => FromParsed(out) \in JsonType /\ FromParsed(out).command = out.command
              /\ FromParsed(out).parsed /\ FromParsed(out).velocity
  BY DEF FromParsed, Made, JsonType
<1>3. FallbackCommand(t.parts, state) \in Commands
  BY FallbackFacts DEF TextType
<1>4. Normalise(out, t, state) =
        CASE usable /\ (out.command = explicit \/ (explicit = "none" /\ out.command = "hold")) -> FromParsed(out)
          [] usable /\ explicit = "none" /\ out.command # "hold" -> Made("hold")
          [] explicit # "none" /\ ~(usable /\ out.command = explicit) -> Made(explicit)
          [] ~usable /\ explicit = "none" -> Made(FallbackCommand(t.parts, state))
  BY DEF Normalise
<1> HIDE DEF explicit
<1>5. CASE usable /\ (out.command = explicit \/ (explicit = "none" /\ out.command = "hold"))
  <2>1. out.command = explicit => explicit # "none"
    BY <1>1, <1>5
  <2>2. /\ ~(usable /\ explicit = "none" /\ out.command # "hold")
        /\ ~(explicit # "none" /\ ~(usable /\ out.command = explicit))
        /\ ~(~usable /\ explicit = "none")
    BY <1>5, <2>1
  <2>3. Normalise(out, t, state) = FromParsed(out)
    BY <1>4, <1>5, <2>2
  <2> QED
    BY <1>1, <1>2, <1>5, <2>3 DEF explicit
<1>6. CASE usable /\ explicit = "none" /\ out.command # "hold"
  <2>1. Normalise(out, t, state) = Made("hold")
    BY <1>4, <1>6
  <2> QED
    BY <1>1, <2>1, MadeFacts DEF explicit
<1>7. CASE explicit # "none" /\ ~(usable /\ out.command = explicit)
  <2>1. Normalise(out, t, state) = Made(explicit)
    BY <1>4, <1>7
  <2> QED
    BY <1>1, <1>7, <2>1, MadeFacts DEF explicit
<1>8. CASE ~usable /\ explicit = "none"
  <2>1. Normalise(out, t, state) = Made(FallbackCommand(t.parts, state))
    BY <1>4, <1>8
  <2> QED
    BY <1>3, <1>8, <2>1, MadeFacts DEF explicit
<1> QED
  BY <1>5, <1>6, <1>7, <1>8

-----------------------------------------------------------------------------
(* The stages *)

LEMMA ProposalType ==
  ASSUME TypeOK PROVE Proposal \in JsonType
BY NormaliseFacts DEF TypeOK, Proposal

\* What the validator is given, on the route through the model.
LEMMA JudgedFacts ==
  ASSUME TypeOK, Judged, route = "model"
  PROVE  /\ json \in JsonType
         /\ Proposal.command # "missing" => json.command = Proposal.command
         /\ text.color /\ image # "shows target" => json.target = "no"
         /\ json.command = "move_velocity" /\ json.target = "yes"
              => \/ Proposal.target = "yes" /\ Proposal.reasoning /\ ~text.color
                 \/ text.color /\ image = "shows target"
<1> DEFINE g == GuardTarget(Proposal, text, image)
<1>1. Proposal \in JsonType /\ text \in TextType
  BY ProposalType DEF TypeOK
<1>2. /\ g \in JsonType /\ g.command = Proposal.command
      /\ text.color /\ image # "shows target" => g.target = "no"
      /\ ~text.color => g = Proposal
  <2>1. g \in JsonType /\ g.command = Proposal.command /\ (~text.color => g = Proposal)
    BY <1>1, GuardFacts
  <2>2. text.color /\ image # "shows target" => g = [Proposal EXCEPT !.target = "no", !.reasoning = TRUE]
    BY <1>1, GuardFacts
  <2>3. [Proposal EXCEPT !.target = "no", !.reasoning = TRUE].target = "no"
    BY <1>1 DEF JsonType
  <2> QED
    BY <2>1, <2>2, <2>3
<1>3. PICK o \in RepairCommand(g, text, snapshot.state) : json = DropExtras(RepairTarget(o))
  BY DEF Judged
<1> HIDE DEF g
<1>4. /\ o \in JsonType
      /\ g.command # "missing" => o = g
      /\ o.command = "move_velocity" => o = g
      /\ g.target # "missing" => o.target = g.target
  <2>1. g \in JsonType /\ text \in TextType
    BY <1>1, <1>2
  <2> DEFINE state == snapshot.state
  <2>2. o \in RepairCommand(g, text, state)
    BY <1>3
  <2> HIDE DEF state
  <2> QED
    BY <2>1, <2>2, RepairFacts
<1>5. /\ json \in JsonType /\ json.command = o.command
      /\ o.target = "no" => json.target = "no"
      /\ o.command = "move_velocity" /\ json.target = "yes" => o.target = "yes" /\ o.reasoning
  BY <1>3, <1>4, FinishFacts
<1>6. text.color \in BOOLEAN
  BY <1>1 DEF TextType
<1> QED
  BY <1>2, <1>4, <1>5, <1>6

LEMMA ValidateFacts ==
  ASSUME NEW o, NEW s
  PROVE  /\ Validate(o, s) \in Commands \cup {"rejected"}
         /\ Validate(o, s) \in Commands => Admits(Validate(o, s), s)
         /\ Validate(o, s) \in {"rejected", "hold"} \/ (Validate(o, s) = o.command /\ o.target = "yes")
<1>1. WellFormed(o) => o.command \in Commands
  BY DEF WellFormed
<1> QED
  BY <1>1 DEF Validate, Effective, Commands

LEMMA NextIInv == IInv /\ [Next]_vars => IInv'
<1> SUFFICES ASSUME IInv, [Next]_vars PROVE IInv'
  OBVIOUS
<1> USE DEF IInv
<1>1. /\ TypeOK /\ Provenance
      /\ text \in TextType /\ output \in JsonType /\ json \in JsonType
      /\ result \in Commands \cup {"none", "rejected"} /\ route \in {"none", "text", "model"}
  BY DEF TypeOK
<1>2. CASE RouteText
  <2>1. Said \in Commands /\ Made(Said) \in JsonType
    BY <1>2, MadeFacts DEF RouteText, UsesFastPath, Said
  <2>2. /\ stage = "routing" /\ backend = "smolvlm" /\ stage' = "validating" /\ route' = "text"
        /\ json' = Made(Said) /\ UNCHANGED <<text, image, snapshot, backend, output, result>>
    BY <1>2 DEF RouteText, request, Said
  <2>3. TypeOK'
    BY <2>1, <2>2 DEF TypeOK
  <2>4. Judged'
    BY <1>1, <2>2 DEF Judged, Said, Provenance, NoJson
  <2> QED
    BY <1>1, <2>2, <2>3, <2>4 DEF Provenance
<1>3. CASE RouteModel
  BY <1>1, <1>3 DEF RouteModel, request, TypeOK, Provenance
<1>4. CASE GenerateSmol
  <2>1. PICK out \in ModelOutputs : output' = out /\ json' = Normalise(out, text, snapshot.state)
    BY <1>4 DEF GenerateSmol
  <2>2. /\ stage = "generating" /\ backend = "smolvlm" /\ stage' = "repairing"
        /\ UNCHANGED <<text, image, snapshot, backend, route, result>>
    BY <1>4 DEF GenerateSmol, request
  <2>3. out \in JsonType
    BY PipelineAssumption
  <2>4. json' \in JsonType
    BY <1>1, <2>1, <2>3, NormaliseFacts
  <2>5. TypeOK'
    BY <2>1, <2>2, <2>3, <2>4 DEF TypeOK
  <2>6. json' = Proposal'
    BY <2>1, <2>2 DEF Proposal
  <2> QED
    BY <1>1, <2>2, <2>5, <2>6 DEF Provenance
<1>5. CASE GenerateMlx
  <2>1. PICK out \in ModelOutputs : output' = out /\ json' = out
    BY <1>5 DEF GenerateMlx
  <2>2. /\ stage = "generating" /\ backend = "mlx" /\ stage' = "repairing"
        /\ UNCHANGED <<text, image, snapshot, backend, route, result>>
    BY <1>5 DEF GenerateMlx, request
  <2>3. out \in JsonType
    BY PipelineAssumption
  <2>4. TypeOK'
    BY <2>1, <2>2, <2>3 DEF TypeOK
  <2>5. json' = Proposal'
    BY <2>1, <2>2 DEF Proposal
  <2> QED
    BY <1>1, <2>2, <2>4, <2>5 DEF Provenance
<1>6. CASE Abort
  BY <1>1, <1>6 DEF Abort, request, TypeOK, Provenance
<1>7. CASE Repair
  <2>1. /\ stage = "repairing" /\ stage' = "validating"
        /\ UNCHANGED <<text, image, snapshot, backend, route, output, result>>
        /\ \E o \in RepairCommand(GuardTarget(json, text, image), text, snapshot.state) :
             json' = DropExtras(RepairTarget(o))
    BY <1>7 DEF Repair, request
  <2>2. route = "model" /\ json = Proposal /\ Proposal.parsed
    BY <1>1, <1>7, <2>1 DEF Provenance, Repair, Extractable
  <2>3. Judged'
    BY <2>1, <2>2 DEF Judged, Proposal
  <2>4. json' \in JsonType
    <3>1. GuardTarget(json, text, image) \in JsonType
      BY <1>1, GuardFacts
    <3>2. PICK o \in RepairCommand(GuardTarget(json, text, image), text, snapshot.state) :
            json' = DropExtras(RepairTarget(o))
      BY <2>1
    <3>3. o \in JsonType
      BY <1>1, <3>1, RepairFacts
    <3> QED
      BY <3>2, <3>3, FinishFacts
  <2>5. TypeOK'
    BY <2>1, <2>4 DEF TypeOK
  <2> QED
    BY <1>1, <2>1, <2>3, <2>5 DEF Provenance
<1>8. CASE Decide
  <2>1. /\ stage = "validating" /\ stage' = "done" /\ result' = Validate(json, snapshot)
        /\ UNCHANGED <<text, image, snapshot, backend, route, output, json>>
    BY <1>8 DEF Decide, request
  <2>2. Judged /\ Judged'
    BY <1>1, <2>1 DEF Provenance, Judged, Said, Proposal
  <2>3. TypeOK'
    BY <2>1, ValidateFacts DEF TypeOK
  <2> QED
    BY <2>1, <2>2, <2>3 DEF Provenance
<1>9. CASE UNCHANGED vars
  BY <1>1, <1>9 DEF vars, request, TypeOK, Provenance, Judged, Said, Proposal
<1> QED
  BY <1>2, <1>3, <1>4, <1>5, <1>6, <1>7, <1>8, <1>9 DEF Next

LEMMA InitIInv == Init => IInv
<1> SUFFICES ASSUME Init PROVE IInv
  OBVIOUS
<1>1. NoJson \in JsonType
  BY DEF NoJson, JsonType
<1> QED
  BY <1>1, PipelineAssumption DEF Init, IInv, TypeOK, Provenance

LEMMA Invariant == Spec => []IInv
BY InitIInv, NextIInv, PTL DEF Spec

-----------------------------------------------------------------------------
(* What follows for the result *)

\* The result is a hold, or the command of an object whose target counts as found.
LEMMA ResultFacts ==
  ASSUME IInv, result \in Commands \ {"hold"}
  PROVE  Judged /\ result = json.command /\ json.target = "yes"
BY ValidateFacts DEF IInv, Provenance, Commands

\* Requests, objects and results keep their types.
THEOREM TypeCorrect == Spec => []TypeOK
BY Invariant, PTL DEF IInv

\* No motion for a coloured target the frame does not show, whatever the model says, for
\* every set of transcripts and outputs.
THEOREM TargetSeenBeforeMotionHolds == Spec => []TargetSeenBeforeMotion
<1>1. IInv => TargetSeenBeforeMotion
  <2> SUFFICES ASSUME IInv, route = "model", text.color, image # "shows target",
                      result \notin {"none", "hold", "rejected"}
               PROVE  FALSE
    BY DEF TargetSeenBeforeMotion
  <2>1. result \in Commands \ {"hold"}
    BY DEF IInv, TypeOK
  <2> QED
    BY <2>1, ResultFacts, JudgedFacts DEF IInv
<1> QED
  BY <1>1, Invariant, PTL

\* On the server a request that says hold can only end as a hold.
THEOREM HoldWinsHolds == Spec => []HoldWins
<1>1. IInv => HoldWins
  <2> SUFFICES ASSUME IInv, backend = "smolvlm", "hold" \in text.words,
                      result \notin {"none", "hold", "rejected"}
               PROVE  FALSE
    BY DEF HoldWins
  <2>1. /\ result \in Commands \ {"hold"} /\ text \in TextType /\ output \in JsonType
        /\ TypeOK
    BY DEF IInv, TypeOK
  <2>2. Judged /\ result = json.command
    BY <2>1, ResultFacts
  <2>3. Said = "hold"
    BY <2>1, ExplicitFacts DEF Said, TextType
  <2>4. Proposal.command = "hold"
    BY <2>1, <2>3, NormaliseFacts DEF Proposal, Said
  <2>5. CASE route = "text"
    BY <2>1, <2>2, <2>3, <2>5, MadeFacts DEF Judged, Commands
  <2>6. CASE route = "model"
    BY <2>1, <2>2, <2>4, <2>6, JudgedFacts
  <2> QED
    BY <2>2, <2>5, <2>6 DEF Judged
<1> QED
  BY <1>1, Invariant, PTL

\* On the server an answer that can be parsed changes the command only towards hold.
THEOREM ModelCannotEscalateHolds == Spec => []ModelCannotEscalate
<1>1. IInv => ModelCannotEscalate
  <2> SUFFICES ASSUME IInv, backend = "smolvlm", output.parsed, output.command \in Commands,
                      result \in Commands \ {"hold"}
               PROVE  result = Said
    BY DEF ModelCannotEscalate, Said
  <2>1. text \in TextType /\ output \in JsonType /\ TypeOK
    BY DEF IInv, TypeOK
  <2>2. Judged /\ result = json.command
    BY ResultFacts
  <2>3. route = "model"
    BY <2>2 DEF Judged
  <2>4. Proposal.command \in Commands /\ Proposal.command \in {Said, "hold"}
    BY <2>1, NormaliseFacts DEF Proposal, Said
  <2>5. json.command = Proposal.command
    BY <2>1, <2>2, <2>3, <2>4, JudgedFacts DEF Commands
  <2> QED
    BY <2>2, <2>4, <2>5
<1> QED
  BY <1>1, Invariant, PTL

\* On the local agent motion has the model's word or the frame's.
THEOREM MotionIsVouchedHolds == Spec => []MotionIsVouched
<1>1. IInv => MotionIsVouched
  <2> SUFFICES ASSUME IInv, backend = "mlx", result = "move_velocity"
               PROVE  \/ output.target = "yes" /\ output.reasoning
                      \/ text.color /\ image = "shows target"
    BY DEF MotionIsVouched
  <2>1. Judged /\ json.command = "move_velocity" /\ json.target = "yes"
    BY ResultFacts DEF Commands
  <2>2. route = "model" /\ Proposal = output
    BY <2>1 DEF Judged, Proposal
  <2> QED
    BY <2>1, <2>2, JudgedFacts DEF IInv
<1> QED
  BY <1>1, Invariant, PTL

\* Without the target, what reaches the validator is an object of the right form that says
\* so.
LEMMA AbsentFacts ==
  ASSUME TypeOK, Judged, route = "model", text.color, image # "shows target", CommandNamed
  PROVE  WellFormed(json) /\ json.target = "no"
<1> DEFINE g == GuardTarget(Proposal, text, image)
<1>1. Proposal \in JsonType /\ text \in TextType /\ output \in JsonType
  BY ProposalType DEF TypeOK
<1>2. Proposal.parsed
  BY DEF Judged
<1>3. Proposal.command \in Commands /\ (Proposal.command = "move_velocity" => Proposal.velocity)
  BY <1>1, NormaliseFacts DEF CommandNamed, Proposal
<1>4. g = [Proposal EXCEPT !.target = "no", !.reasoning = TRUE]
  BY <1>1, GuardFacts
<1>5. /\ g \in JsonType /\ g.parsed /\ g.command = Proposal.command
      /\ g.target = "no" /\ g.reasoning /\ g.velocity = Proposal.velocity
  BY <1>1, <1>2, <1>4 DEF JsonType
<1>6. PICK o \in RepairCommand(g, text, snapshot.state) : json = DropExtras(RepairTarget(o))
  BY DEF Judged
<1> HIDE DEF g
<1>7. o = g
  BY <1>3, <1>5, <1>6 DEF RepairCommand, Commands
<1>8. RepairTarget(g) = g
  BY <1>5 DEF RepairTarget
<1>9. json = [g EXCEPT !.extras = @ /\ g.command \notin Commands]
  BY <1>6, <1>7, <1>8 DEF DropExtras
<1>10. /\ json.parsed /\ json.command = Proposal.command /\ json.target = "no"
       /\ json.reasoning /\ json.velocity = Proposal.velocity /\ ~json.extras
  BY <1>3, <1>5, <1>9 DEF JsonType
<1> QED
  BY <1>3, <1>10 DEF WellFormed

\* A request whose target is not there ends as the hold that replaces it, or as a refusal
\* where no hold is admitted, for every set of transcripts and outputs.
THEOREM AbsentTargetHoldsAlways == Spec => AbsentTargetHolds
<1>1. ASSUME IInv, Next, stage = "validating", route = "model",
             text.color, image # "shows target", CommandNamed
      PROVE  result' = IF Admits("hold", snapshot) THEN "hold" ELSE "rejected"
  <2>1. result' = Validate(json, snapshot)
    BY <1>1 DEF Next, RouteText, RouteModel, GenerateSmol, GenerateMlx, Abort, Repair, Decide
  <2>2. WellFormed(json) /\ json.target = "no"
    BY <1>1, AbsentFacts DEF IInv, Provenance
  <2> QED
    BY <2>1, <2>2 DEF Validate, Effective
<1>2. IInv /\ [Next]_vars
        => [(/\ stage = "validating" /\ route = "model"
             /\ text.color /\ image # "shows target"
             /\ CommandNamed)
              => result' = IF Admits("hold", snapshot) THEN "hold" ELSE "rejected"]_vars
  BY <1>1
<1> QED
  BY <1>2, Invariant, PTL DEF Spec, AbsentTargetHolds
=============================================================================
