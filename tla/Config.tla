------------------------------- MODULE Config -------------------------------
(***************************************************************************)
(* pkg/infrastructure/config: a configuration starts from its defaults, is *)
(* overlaid by a JSON file and by environment variables, and is validated. *)
(* Fields of one kind are treated alike: top-level texts, texts inside a   *)
(* section, durations. A value as written is Absent (or null), EmptyText,  *)
(* BlankText, Malformed (a duration that does not parse), or a value.      *)
(***************************************************************************)
EXTENDS Naturals

CONSTANTS
  TopFields, SectionFields, DurationFields,
  Defaults,                  \* [fields -> values]
  JSONChoices, EnvChoices,   \* [fields -> values as written]
  RequiredFields, Environment, Environments,
  Absent, EmptyText, BlankText, Malformed, NoConfig

VARIABLES config, json, env, stage

configVars == <<config, json, env, stage>>

Fields == TopFields \cup SectionFields \cup DurationFields

ASSUME ConfigAssumption ==
  /\ DOMAIN Defaults = Fields
  /\ \A f \in DurationFields : Defaults[f] # Malformed
  /\ NoConfig \notin [Fields -> UNION {JSONChoices[f] : f \in Fields}]
  /\ NoConfig \notin [Fields -> UNION {EnvChoices[f] : f \in Fields}]

ConfigInit ==
  /\ stage = "start"
  /\ config = NoConfig /\ json = NoConfig /\ env = NoConfig

DefaultConfig ==
  /\ stage = "start"
  /\ config' = Defaults
  /\ stage' = "loading"
  /\ UNCHANGED <<json, env>>

(* Mutant: an empty text in a section overlays the default too.            *)
OverlaysAll(f, v) == v # Absent

(* A text at the top overlays even when empty, one in a section does not;  *)
(* null, or an empty string for a duration, leaves it alone.               *)
Overlays(f, v) == v # Absent /\ (f \in TopFields \/ v # EmptyText)

(* The first duration that does not parse fails the whole file, and        *)
(* LoadFromJSON returns no configuration.                                  *)
LoadFromJSON ==
  /\ stage = "loading" /\ json = NoConfig
  /\ json' \in {j \in [Fields -> UNION {JSONChoices[f] : f \in Fields}] :
                  \A f \in Fields : j[f] \in JSONChoices[f]}
  /\ IF \E f \in DurationFields : json'[f] = Malformed
     THEN stage' = "refused" /\ config' = NoConfig
     ELSE /\ config' = [f \in Fields |-> IF Overlays(f, json'[f]) THEN json'[f] ELSE config[f]]
          /\ UNCHANGED stage
  /\ UNCHANGED env

(* An unset or empty variable is ignored, and so is a duration that is     *)
(* blank or does not parse.                                                *)
Effective(f, v) ==
  /\ v \notin {Absent, EmptyText}
  /\ f \in DurationFields => v \notin {Malformed, BlankText}

LoadFromEnv ==
  /\ stage = "loading" /\ env = NoConfig
  /\ env' \in {e \in [Fields -> UNION {EnvChoices[f] : f \in Fields}] :
                 \A f \in Fields : e[f] \in EnvChoices[f]}
  /\ config' = [f \in Fields |-> IF Effective(f, env'[f]) THEN env'[f] ELSE config[f]]
  /\ stage' = "loaded"
  /\ UNCHANGED json

(* Validate trims only to look; it does not change the configuration.      *)
ValidConfig(c) ==
  /\ \A f \in RequiredFields : c[f] \notin {EmptyText, BlankText}
  /\ c[Environment] \in Environments

ValidateConfig ==
  /\ stage \in {"loading", "loaded"}
  /\ stage' = IF ValidConfig(config) THEN "valid" ELSE "refused"
  /\ UNCHANGED <<config, json, env>>

ConfigNext == DefaultConfig \/ LoadFromJSON \/ LoadFromEnv \/ ValidateConfig

-----------------------------------------------------------------------------
(* Each layer wins over those below where it says something, and a value   *)
(* that means nothing there falls through to them instead of erasing them. *)
(* What is accepted has its required fields and a known environment, and   *)
(* no duration in it failed to parse (config.go:109-127, 245-337).         *)
ConfigLayered ==
  stage = "valid" =>
    /\ \A f \in Fields :
         LET below == IF json = NoConfig THEN {Defaults[f]}
                      ELSE {json[f]} \ {Absent, EmptyText}
             above == IF env = NoConfig THEN {}
                      ELSE {env[f]} \ ({Absent, EmptyText}
                                       \cup IF f \in DurationFields THEN {Malformed, BlankText} ELSE {})
         IN CASE above # {} -> config[f] \in above
              [] above = {} /\ below # {} -> config[f] \in below
              [] OTHER -> config[f] \in {Defaults[f]} \cup
                            IF f \in TopFields /\ json[f] = EmptyText THEN {EmptyText} ELSE {}
    /\ \A f \in DurationFields : config[f] # Malformed
    /\ \A f \in RequiredFields : config[f] \notin {EmptyText, BlankText}
    /\ config[Environment] \in Environments
=============================================================================
