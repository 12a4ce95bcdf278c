--------------------------- MODULE MCIntentPipeline ---------------------------
(***************************************************************************)
(* Instances of IntentPipeline for TLC: transcripts with up to two phrases *)
(* as words and at most one more as a substring ("alarm" has "arm").       *)
(***************************************************************************)
EXTENDS IntentPipeline, FiniteSetsExt

\* A substring is there for each word that is one; "disarm" contains "arm".
Substrings(words, extra) ==
  LET s == (words \cup extra) \ {"hold"}
  IN  s \cup (IF "disarm" \in s THEN {"arm"} ELSE {})

\* SAFE_COMMAND_PATTERNS know fewer words for hold and land, and none for motion.
PatternSets(words) == {words \ {"move_velocity"}, words \ {"move_velocity", "hold", "land"}}

SomeTexts ==
  {[words |-> w, parts |-> Substrings(w, x), patterns |-> p, color |-> c] :
     w \in UNION {kSubset(k, Phrases) : k \in 0..2}, x \in {{}} \cup kSubset(1, Phrases \ {"hold"}),
     p \in SUBSET (Phrases \ {"move_velocity"}), c \in BOOLEAN}

TextsOfInterest == {t \in SomeTexts : t.patterns \in PatternSets(t.words)}

OutputsOfInterest ==
  {NoJson} \cup
  {o \in JsonType : o.parsed /\ (o.command # "move_velocity" => o.velocity)
                             /\ (o.extras => o.command \in {"move_velocity", "unknown"})}

StatesOfInterest ==
  {[state |-> s, connected |-> TRUE, low_battery |-> FALSE] : s \in OperationalStates}
  \cup {[state |-> s, connected |-> TRUE, low_battery |-> TRUE] : s \in {"AIRBORNE", "GROUNDED"}}
  \cup {[state |-> "GROUNDED", connected |-> FALSE, low_battery |-> FALSE]}
=============================================================================
