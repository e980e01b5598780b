-------------------------- MODULE K4allConfigProofs --------------------------
(***************************************************************************)
(* What the conversions between the file and the resource keep and lose,   *)
(* for every set of features, texts and spellings.                         *)
(***************************************************************************)
EXTENDS K4allConfig, TLAPS

\* The rendering of a spec is a document, and the reading of a config a spec:
\* FormatBool only writes texts that a flag may have.
LEMMA ConversionTypes ==
    /\ \A c \in Config : MapToClusterConfig(c) \in ClusterConfigSpec
    /\ \A s \in ClusterConfigSpec : mapFromClusterConfig(s) \in Config
    /\ \A s \in ClusterConfigSpec : WrittenDocument(s) \in Document
    /\ \A d \in Document : MarshalIndent(ParseConfigFile(d)) \in Document
<1>1. \A c \in Config : MapToClusterConfig(c) \in ClusterConfigSpec
  BY DEF Config, ClusterConfigSpec, MapToClusterConfig, LowerIsTrue
<1>2. ASSUME NEW s \in ClusterConfigSpec
      PROVE  mapFromClusterConfig(s) \in Config
  <2>1. \A b \in BOOLEAN : FormatBool(b) \in FlagText
    BY FlagAssumption DEF FormatBool
  <2>2. [f \in Feature |-> FormatBool(s.enabled[f])] \in [Feature -> FlagText]
    BY <2>1 DEF ClusterConfigSpec
  <2>3. [f \in Feature |-> FormatBool(s.managed[f])] \in [Feature -> FlagText]
    BY <2>1 DEF ClusterConfigSpec
  <2>4. [f \in Feature |-> ""] \in [Feature -> Text]
    BY TextAssumption
  <2> QED
    BY <2>2, <2>3, <2>4 DEF mapFromClusterConfig, Config, ClusterConfigSpec
<1>3. \A c \in Config : MarshalIndent(c) \in Document
  BY TextAssumption DEF MarshalIndent, Document
<1> QED
  BY <1>1, <1>2, <1>3 DEF WrittenDocument, ParseConfigFile, Document

\* The flags survive the way through the file.
LEMMA FlagRoundTrip ==
    \A b \in BOOLEAN : LowerIsTrue(FormatBool(b)) = b
BY FlagAssumption DEF LowerIsTrue, FormatBool

\* A resource that is written to the file and read back is the same resource:
\* WriteClusterConfigToFile followed by ReadConfigAndUpdateK8s loses nothing.
THEOREM ResourceRoundTrip ==
    \A s \in ClusterConfigSpec :
        MapToClusterConfig(ParseConfigFile(WrittenDocument(s))) = s
<1> SUFFICES ASSUME NEW s \in ClusterConfigSpec
             PROVE  MapToClusterConfig(mapFromClusterConfig(s)) = s
  BY DEF WrittenDocument, MarshalIndent, ParseConfigFile
<1> DEFINE r == MapToClusterConfig(mapFromClusterConfig(s))
<1>1. /\ s = [version |-> s.version, base |-> s.base, emulation |-> s.emulation,
              enabled |-> s.enabled, managed |-> s.managed]
      /\ s.enabled \in [Feature -> BOOLEAN] /\ s.managed \in [Feature -> BOOLEAN]
  BY DEF ClusterConfigSpec
<1>2. r.enabled = s.enabled
  BY <1>1, FlagRoundTrip DEF MapToClusterConfig, mapFromClusterConfig
<1>3. r.managed = s.managed
  BY <1>1, FlagRoundTrip DEF MapToClusterConfig, mapFromClusterConfig
<1>4. r = [version |-> s.version, base |-> s.base, emulation |-> s.emulation,
           enabled |-> r.enabled, managed |-> r.managed]
  BY DEF MapToClusterConfig, mapFromClusterConfig
<1>5. r = s
  <2> HIDE DEF r
  <2> QED BY <1>1, <1>2, <1>3, <1>4
<1> QED
  BY <1>5

\* Once the operator has written a resource to the file, the feature controllers,
\* which compare with "true" exactly, read what the resource says; what a person
\* typed in another case they would have read as "not enabled".
THEOREM WrittenFlagsAreRead ==
    \A s \in ClusterConfigSpec, f \in Feature :
        /\ IsEnabled(ParseConfigFile(WrittenDocument(s)), f) = s.enabled[f]
        /\ IsManaged(ParseConfigFile(WrittenDocument(s)), f) = s.managed[f]
<1>1. \A b \in BOOLEAN : (FormatBool(b) = "true") = b
  BY DEF FormatBool
<1>2. ASSUME NEW s \in ClusterConfigSpec, NEW f \in Feature
      PROVE  /\ s.enabled[f] \in BOOLEAN /\ s.managed[f] \in BOOLEAN
             /\ mapFromClusterConfig(s).enabled[f] = FormatBool(s.enabled[f])
             /\ mapFromClusterConfig(s).managed[f] = FormatBool(s.managed[f])
  BY DEF ClusterConfigSpec, mapFromClusterConfig
<1> QED
  BY <1>1, <1>2 DEF WrittenDocument, MarshalIndent, ParseConfigFile, IsEnabled, IsManaged

\* MergeAndWriteConfig keeps nothing of the file that it merges with: the merged
\* Config passes through a spec, so what it writes is what WriteClusterConfigToFile
\* would have written, without the pinned versions it set out to keep.
THEOREM MergeKeepsNothing ==
    \A d \in Document, s \in ClusterConfigSpec :
        MergedDocument(d, s) = WrittenDocument(s)
<1> SUFFICES ASSUME NEW d \in Document, NEW s \in ClusterConfigSpec
             PROVE  MapToClusterConfig(mergeConfigs(d.config, s)) = s
  BY DEF MergedDocument, ParseConfigFile
<1>1. MapToClusterConfig(mergeConfigs(d.config, s))
        = MapToClusterConfig(mapFromClusterConfig(s))
  BY DEF MapToClusterConfig, mergeConfigs, mapFromClusterConfig
<1> QED
  BY <1>1, ResourceRoundTrip DEF WrittenDocument, MarshalIndent, ParseConfigFile

================================================================================
