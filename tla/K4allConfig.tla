------------------------------ MODULE K4allConfig ------------------------------
(***************************************************************************)
(* The two shapes of the cluster configuration and the conversions between *)
(* them (internal/controller/config, api/v1alpha1).                        *)
(*                                                                         *)
(* The file /etc/k4all-config.json and the ConfigMap hold a JSON document; *)
(* parsed, it is a Config, whose feature flags are TEXTS.  The resource    *)
(* ClusterConfig has a ClusterConfigSpec, whose flags are BOOLEANS and     *)
(* which has no place for the version of a feature.  The fields of the     *)
(* networking and cluster sections, which every conversion in use copies   *)
(* as they are, are one opaque text, "base".                               *)
(***************************************************************************)

CONSTANTS
    Feature,       \* the features with a section of their own: argocd, virt
    FlagText,      \* what a flag may read in the file: "true", "True", "false", ""
    TrueSpelling,  \* those of them that strings.ToLower turns into "true"
    Text,          \* values of the string fields that are only copied
    Extra,         \* what a document may say outside the fields of Config
    NoExtra        \* a document that says nothing else

ASSUME FlagAssumption ==
    /\ "true" \in TrueSpelling
    /\ "false" \notin TrueSpelling
    /\ TrueSpelling \subseteq FlagText
    /\ "false" \in FlagText

ASSUME TextAssumption == "" \in Text /\ NoExtra \in Extra

(***************************************************************************)
(* Config, ClusterConfigSpec and the documents a Config is parsed from.    *)
(***************************************************************************)
Config ==
    [version   : Text,
     base      : Text,
     emulation : Text,                    \* of the feature virt
     enabled   : [Feature -> FlagText],
     managed   : [Feature -> FlagText],
     pinned    : [Feature -> Text]]       \* Features.<f>.Version

ClusterConfigSpec ==
    [version   : Text,
     base      : Text,
     emulation : Text,
     enabled   : [Feature -> BOOLEAN],
     managed   : [Feature -> BOOLEAN]]

Document == [config : Config, extra : Extra]

\* json.Unmarshal keeps the declared fields and drops every other one.
ParseConfigFile(doc) == doc.config

\* json.MarshalIndent writes the declared fields and nothing else.
MarshalIndent(c) == [config |-> c, extra |-> NoExtra]

LowerIsTrue(text) == text \in TrueSpelling

FormatBool(b) == IF b THEN "true" ELSE "false"

(***************************************************************************)
(* From the file to the resource and back.                                 *)
(***************************************************************************)
MapToClusterConfig(c) ==
    [version   |-> c.version,
     base      |-> c.base,
     emulation |-> c.emulation,
     enabled   |-> [f \in Feature |-> LowerIsTrue(c.enabled[f])],
     managed   |-> [f \in Feature |-> LowerIsTrue(c.managed[f])]]

mapFromClusterConfig(spec) ==
    [version   |-> spec.version,
     base      |-> spec.base,
     emulation |-> spec.emulation,
     enabled   |-> [f \in Feature |-> FormatBool(spec.enabled[f])],
     managed   |-> [f \in Feature |-> FormatBool(spec.managed[f])],
     pinned    |-> [f \in Feature |-> ""]]

\* The document that WriteClusterConfigToFile leaves in the file.
WrittenDocument(spec) == MarshalIndent(mapFromClusterConfig(spec))

\* mergeConfigs overwrites each field of the file that the resource also has.
mergeConfigs(c, spec) ==
    [mapFromClusterConfig(spec) EXCEPT !.pinned = c.pinned]

\* MergeAndWriteConfig passes the merged Config through a spec before writing.
MergedDocument(doc, spec) ==
    WrittenDocument(MapToClusterConfig(mergeConfigs(ParseConfigFile(doc), spec)))

(***************************************************************************)
(* How the feature controllers read a Config: by exact comparison.         *)
(***************************************************************************)
IsManaged(c, f) == c.managed[f] = "true"
IsEnabled(c, f) == c.enabled[f] = "true"

================================================================================
