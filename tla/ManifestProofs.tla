----------------------------- MODULE ManifestProofs -----------------------------
(***************************************************************************)
(* What a call of ApplyYAMLFromURL or DeleteYAMLFromURL has done when it   *)
(* returns, for manifests of any length and any number of calls and        *)
(* faults.                                                                 *)
(***************************************************************************)
EXTENDS Manifest, TLAPS

(***************************************************************************)
(* The inductive invariant.                                                *)
(***************************************************************************)

\* The i-th document is as the call wants it, as far as the call is to blame.
Done(i) ==
    manifest[i] \in Object \ missed =>
        \/ op = "apply" /\ cluster[manifest[i]] = "live"
        \/ op = "delete" /\ cluster[manifest[i]] # "live"

\* Every document before the next one is done, and a download that does not break
\* off reaches the end of the manifest.
Progress ==
    /\ pc # "idle" => op # "none" /\ \A i \in 1..at - 1 : Done(i)
    /\ pc = "fetch" => at = 1
    /\ pc \in {"get", "put"} => op = "apply"
    /\ pc = "remove" => op = "delete"
    /\ pc \notin {"idle", "fetch"} /\ ~broken => end = Len(manifest) + 1
    /\ pc = "idle" /\ result = "ok" => \A i \in 1..Len(manifest) : Done(i)

IInv == TypeOK /\ Progress

(***************************************************************************)
(* Types.                                                                  *)
(***************************************************************************)

\* The documents of a manifest, and its objects.
LEMMA ManifestFacts ==
    ASSUME manifest \in Seq(Doc)
    PROVE  /\ Len(manifest) \in Nat
           /\ \A i \in 1..Len(manifest) : manifest[i] \in Doc
           /\ Contents = {manifest[i] : i \in 1..Len(manifest)} \cap Object
BY DEF Contents, Range

\* Counting an event.
LEMMA CountedType ==
    ASSUME TypeOK, NEW e \in {"call", "fault"}, NEW max, Counted(e, max)
    PROVE  count' \in [{"call", "fault"} -> Nat]
BY DEF TypeOK, Counted

\* A fault is a counted event.
LEMMA FaultType ==
    ASSUME TypeOK, Fault
    PROVE  count' \in [{"call", "fault"} -> Nat]
BY CountedType DEF Fault

\* The manifests and the clusters that an execution starts with.
LEMMA InitType == Init => TypeOK
<1> SUFFICES ASSUME Init PROVE TypeOK
  OBVIOUS
<1>1. PICK m \in 0..MaxDocs : manifest \in [1..m -> Doc]
  BY DEF Init, SeqOf
<1>2. m \in Nat /\ m <= MaxDocs
  BY ManifestAssumption
<1>3. manifest \in Seq(Doc) /\ Len(manifest) = m
  BY <1>1, <1>2
<1>4. cluster \in [Object -> {"absent", "live", "deleting"}]
  BY DEF Init
<1>5. count \in [{"call", "fault"} -> Nat]
  BY DEF Init
<1>6. 1 \in 1..Len(manifest) + 1
  BY <1>2, <1>3
<1> QED
  BY <1>2, <1>3, <1>4, <1>5, <1>6 DEF Init, TypeOK

\* What a step of the worker leaves of the stream of documents is in range.
LEMMA Reading ==
    ASSUME TypeOK, at < end
    PROVE  at + 1 \in 1..Len(manifest) + 1 /\ at + 1 <= end /\ at \in 1..Len(manifest)
BY ManifestFacts DEF TypeOK

\* The document at hand is an object of the manifest.
LEMMA AtHand ==
    ASSUME TypeOK, pc \in {"get", "put", "remove"}
    PROVE  /\ at < end /\ at \in 1..Len(manifest)
           /\ manifest[at] \in Object /\ manifest[at] \in Contents
BY Reading, ManifestFacts DEF TypeOK

\* Every step keeps the types.
LEMMA TypeStep ==
    ASSUME IInv, Next
    PROVE  TypeOK'
<1> USE DEF state, stream, Contents
<1>0. TypeOK /\ Len(manifest) \in Nat /\ 1 \in 1..Len(manifest) + 1
  BY ManifestFacts DEF IInv, TypeOK
<1>1. CASE Call \/ Retry
  <2>1. /\ pc' = "fetch" /\ result' = "none" /\ at' = 1 /\ end' = 1 /\ broken' = FALSE
        /\ missed' = {} /\ UNCHANGED <<manifest, cluster, found, fresh>>
        /\ op' \in {"none", "apply", "delete"} /\ pc = "idle"
    BY <1>0, <1>1 DEF Call, Retry, Start, TypeOK
  <2>2. count' \in [{"call", "fault"} -> Nat]
    BY <1>0, <1>1, CountedType DEF Call, Retry, TypeOK
  <2>3. at' \in 1..Len(manifest') + 1 /\ end' \in 1..Len(manifest') + 1 /\ at' <= end'
    BY <1>0, <2>1
  <2>4. found' = "none" /\ fresh' \in BOOLEAN
    BY <1>0, <2>1 DEF TypeOK
  <2> QED
    BY <1>0, <2>1, <2>2, <2>3, <2>4 DEF TypeOK
<1>2. CASE Fetch
  <2>1. /\ UNCHANGED <<manifest, cluster, missed, op, at>> /\ at = 1
        /\ pc = "fetch" /\ found = "none" /\ fresh \in BOOLEAN
    BY <1>0, <1>2 DEF Fetch, IInv, Progress, TypeOK
  <2>2. /\ end' \in 1..Len(manifest) + 1 /\ broken' \in BOOLEAN
        /\ pc' \in {"decode", "idle"} /\ result' \in {"none", "ok", "error"}
        /\ found' = "none" /\ fresh' \in BOOLEAN
    <3>1. \/ end' = Len(manifest) + 1 /\ broken' = FALSE
          \/ end' \in 1..Len(manifest) + 1 /\ broken' = TRUE
          \/ end' = end /\ broken' = broken
      BY <1>2 DEF Fetch
    <3>2. \/ pc' = "decode" /\ UNCHANGED <<result, found, fresh>>
          \/ pc' = "idle" /\ result' = "error" /\ found' = "none" /\ fresh' = FALSE
      BY <1>2 DEF Fetch, Return
    <3>3. broken \in BOOLEAN /\ end \in 1..Len(manifest) + 1 /\ result \in {"none", "ok", "error"}
      BY <1>0 DEF TypeOK
    <3>4. Len(manifest) + 1 \in 1..Len(manifest) + 1
      BY <1>0
    <3> QED
      BY <2>1, <3>1, <3>2, <3>3, <3>4
  <2>3. count' \in [{"call", "fault"} -> Nat]
    BY <1>0, <1>2, FaultType DEF Fetch, TypeOK
  <2>4. at' \in 1..Len(manifest') + 1 /\ end' \in 1..Len(manifest') + 1 /\ at' <= end'
    BY <1>0, <2>1, <2>2
  <2> QED
    BY <1>0, <2>1, <2>2, <2>3, <2>4 DEF TypeOK
<1>4. CASE Decode
  BY <1>0, <1>4, Reading DEF Decode, DecodeError, Return, GoOn, TypeOK
<1>5. CASE Get
  BY <1>0, <1>5, FaultType, AtHand DEF Get, Return, TypeOK
<1>6. CASE Put
  BY <1>0, <1>6, FaultType, AtHand, Reading DEF Put, Written, Passed, GoOn, Return, TypeOK
<1>7. CASE DeleteObject
  BY <1>0, <1>7, FaultType, AtHand, Reading DEF DeleteObject, Deleted, Passed, GoOn, TypeOK
<1>8. CASE Crash
  BY <1>0, <1>8, FaultType DEF Crash, Return, TypeOK
<1>9. ASSUME NEW o \in Object, Finalized(o)
      PROVE  TypeOK'
  BY <1>0, <1>9 DEF Finalized, Stales, TypeOK
<1>10. ASSUME NEW o \in Object, Touched(o)
       PROVE  TypeOK'
  BY <1>0, <1>10, FaultType DEF Touched, TypeOK
<1> QED
  BY <1>1, <1>2, <1>4, <1>5, <1>6, <1>7, <1>8, <1>9, <1>10
  DEF Next, CallStep, ApplyYAMLFromURL, DeleteYAMLFromURL

(***************************************************************************)
(* Progress.                                                               *)
(***************************************************************************)

\* What is done stays done while the call goes on, whatever the others do, and the
\* object at hand is done when it has been put or deleted, or was passed over.
LEMMA DoneStays ==
    ASSUME IInv, Next, op' = op, missed \subseteq missed',
           NEW i \in 1..Len(manifest), Done(i), pc # "fetch" \/ UNCHANGED cluster
    PROVE  Done(i)'
<1> USE DEF state, stream, IInv, Progress
<1>1. manifest' = manifest /\ manifest[i] \in Doc
  BY ManifestFacts
  DEF TypeOK, Next, CallStep, ApplyYAMLFromURL, DeleteYAMLFromURL, Call, Retry, Start,
      Fetch, Decode, Get, Put, DeleteObject, Crash, Finalized, Touched
<1>2. CASE UNCHANGED cluster
  BY <1>1, <1>2 DEF Done
<1>3. CASE Put
  BY <1>1, <1>3, AtHand DEF Put, Written, Passed, Done, TypeOK
<1>4. CASE DeleteObject
  BY <1>1, <1>4, AtHand DEF DeleteObject, Deleted, Done, TypeOK
<1>5. ASSUME NEW o \in Object, Finalized(o) \/ Touched(o)
      PROVE  Done(i)'
  BY <1>1, <1>5 DEF Finalized, Touched, Done, TypeOK
<1> QED
  BY <1>2, <1>3, <1>4, <1>5
  DEF Next, CallStep, ApplyYAMLFromURL, DeleteYAMLFromURL, Call, Retry, Start,
      Fetch, Decode, Get, Crash

\* Every step keeps Progress.
LEMMA ProgressStep ==
    ASSUME IInv, Next
    PROVE  Progress'
<1> USE DEF state, stream, IInv
<1>0. TypeOK /\ TypeOK' /\ Len(manifest) \in Nat /\ at \in Nat /\ manifest \in Seq(Doc)
  BY TypeStep, ManifestFacts DEF TypeOK
<1>1. CASE Call \/ Retry
  BY <1>0, <1>1 DEF Call, Retry, Start, Progress
<1>2. CASE Fetch
  BY <1>0, <1>2 DEF Fetch, Return, Progress, TypeOK
<1>3. CASE Decode
  <2>1. /\ pc = "decode" /\ UNCHANGED <<manifest, cluster, missed, op, end, broken>>
        /\ op \in {"apply", "delete"} /\ \A i \in 1..at - 1 : Done(i)
        /\ ~broken => end = Len(manifest) + 1
        /\ at <= end /\ at \in 1..Len(manifest) + 1 /\ end \in 1..Len(manifest) + 1
    BY <1>0, <1>3 DEF Decode, Progress, TypeOK
  <2>2. \A i \in 1..at - 1 : Done(i)'
    BY <2>1 DEF Done
  <2>3. ASSUME at < end
        PROVE  manifest[at] \in Doc /\ Malformed \notin Object /\ Empty \notin Object
    BY <1>0, <2>1, <2>3, Reading, ManifestFacts, ManifestAssumption DEF TypeOK
  <2>4. CASE at = end
    <3>1. \/ pc' = "idle" /\ result' = "ok" /\ ~broken
          \/ pc' = "idle" /\ result' = "error"
          \/ pc' = "decode" /\ at' = at
      BY <1>3, <2>1, <2>4 DEF Decode, DecodeError, Return
    <3>2. ~broken => at - 1 = Len(manifest)
      BY <1>0, <2>1, <2>4
    <3> QED
      BY <1>0, <2>1, <2>2, <3>1, <3>2 DEF Progress
  <2>5. CASE at < end
    <3>1. \/ pc' = "idle" /\ result' = "error"
          \/ pc' = "decode" /\ at' = at + 1 /\ manifest[at] \notin Object
          \/ pc' = "get" /\ at' = at /\ op = "apply"
          \/ pc' = "remove" /\ at' = at /\ op = "delete"
      <4>1. CASE manifest[at] = Malformed
        BY <1>3, <2>1, <2>3, <2>5, <4>1, ManifestAssumption DEF Decode, DecodeError, Return, GoOn
      <4>2. CASE manifest[at] = Empty
        BY <1>3, <2>1, <2>3, <2>5, <4>2, ManifestAssumption DEF Decode, GoOn
      <4>3. CASE manifest[at] \in Object
        BY <1>3, <2>1, <2>3, <2>5, <4>3, ManifestAssumption DEF Decode
      <4> QED
        BY <2>3, <2>5, <4>1, <4>2, <4>3 DEF Doc
    <3>2. manifest[at] \notin Object => \A i \in 1..at : Done(i)'
      <4> SUFFICES ASSUME manifest[at] \notin Object, NEW i \in 1..at PROVE Done(i)'
        OBVIOUS
      <4>1. CASE i = at
        BY <2>1, <4>1 DEF Done
      <4>2. CASE i \in 1..at - 1
        BY <2>2, <4>2
      <4> QED
        BY <1>0, <4>1, <4>2
    <3>3. (at + 1) - 1 = at
      BY <1>0
    <3> QED
      BY <1>0, <2>1, <2>2, <3>1, <3>2, <3>3 DEF Progress
  <2> QED
    BY <1>0, <2>1, <2>4, <2>5
<1>4. CASE Get
  <2>1. \A i \in 1..at - 1 : Done(i)'
    BY <1>0, <1>4 DEF Get, Progress, Done
  <2> QED
    BY <1>0, <1>4, <2>1 DEF Get, Return, Progress
<1>5. CASE Put \/ DeleteObject
  <2>1. op' = op /\ missed \subseteq missed' /\ pc # "fetch" /\ manifest' = manifest
    BY <1>5 DEF Put, DeleteObject, Passed
  <2>2. \A i \in 1..at - 1 : Done(i)'
    <3> SUFFICES ASSUME NEW i \in 1..at - 1 PROVE Done(i)'
      OBVIOUS
    <3>1. i \in 1..Len(manifest)
      BY <1>0, <1>5, AtHand DEF Put, DeleteObject
    <3>2. Done(i)
      BY <1>5 DEF Put, DeleteObject, Progress
    <3> QED
      BY <2>1, <3>1, <3>2, DoneStays
  <2>3. ASSUME at' = at + 1, NEW i \in 1..Len(manifest), i = at
        PROVE  Done(i)'
    <3>1. manifest[i] \in Object /\ cluster \in [Object -> {"absent", "live", "deleting"}]
      BY <1>5, <2>3, AtHand DEF Put, DeleteObject, TypeOK
    <3>2. CASE Put
      <4>1. op = "apply" /\ cluster' = Written
            /\ (found = "deleting" => missed' = missed \cup {manifest[i]})
        BY <1>0, <2>3, <3>2 DEF Put, Return, Passed, Progress
      <4>2. found = "deleting" => manifest[i] \in missed'
        BY <4>1
      <4>3. found # "deleting" => cluster'[manifest[i]] = "live"
        BY <2>3, <3>1, <4>1 DEF Written
      <4> QED
        BY <2>1, <4>1, <4>2, <4>3 DEF Done
    <3>3. CASE DeleteObject
      <4>1. op = "delete"
        BY <3>3 DEF DeleteObject, Progress
      <4>2. manifest[i] \in missed' \/ cluster'[manifest[i]] # "live"
        BY <2>3, <3>1, <3>3 DEF DeleteObject, Deleted, Passed
      <4> QED
        BY <2>1, <4>1, <4>2 DEF Done
    <3> QED
      BY <1>5, <3>2, <3>3
  <2>4. at \in 1..Len(manifest)
    BY <1>0, <1>5, AtHand DEF Put, DeleteObject
  <2>5. /\ op # "none" /\ pc' \in {"decode", "idle"}
        /\ pc' = "idle" => result' = "error"
        /\ pc' = "decode" => at' = at + 1
        /\ UNCHANGED <<end, broken>> /\ (~broken => end = Len(manifest) + 1)
    BY <1>5 DEF Put, DeleteObject, GoOn, Return, Progress
  <2>6. CASE pc' = "decode"
    <3>1. \A i \in 1..at' - 1 : i = at \/ i \in 1..at - 1
      BY <1>0, <2>5, <2>6
    <3>2. \A i \in 1..at' - 1 : Done(i)'
      BY <2>2, <2>3, <2>4, <2>5, <2>6, <3>1
    <3> QED
      BY <2>1, <2>5, <2>6, <3>2 DEF Progress
  <2>7. CASE pc' = "idle"
    BY <2>1, <2>5, <2>7 DEF Progress
  <2> QED
    BY <2>5, <2>6, <2>7
<1>6. CASE Crash
  BY <1>6 DEF Crash, Return, Progress
<1>7. ASSUME NEW o \in Object, Finalized(o) \/ Touched(o)
      PROVE  Progress'
  <2>1. /\ UNCHANGED <<op, pc, at, end, broken, missed, manifest, result>>
    BY <1>7 DEF Finalized, Touched
  <2>2. ASSUME NEW i \in 1..Len(manifest), Done(i), pc # "fetch"
        PROVE  Done(i)'
    BY <1>7, <2>1, <2>2, DoneStays
  <2>3. \A i \in 1..at - 1 : i \in 1..Len(manifest)
    BY <1>0 DEF TypeOK
  <2> QED
    BY <1>0, <2>1, <2>2, <2>3 DEF Progress
<1> QED
  BY <1>1, <1>2, <1>3, <1>4, <1>5, <1>6, <1>7
  DEF Next, CallStep, ApplyYAMLFromURL, DeleteYAMLFromURL

(***************************************************************************)
(* The theorems.                                                           *)
(***************************************************************************)

\* The inductive invariant holds in every state of every execution.
THEOREM Invariant == Spec => []IInv
<1>1. Init => IInv
  BY InitType DEF Init, IInv, Progress
<1>2. IInv /\ [Next]_vars => IInv'
  <2>1. CASE UNCHANGED vars
    BY <2>1 DEF vars, state, stream, IInv, TypeOK, Progress, Done, Contents
  <2>2. CASE Next
    BY <2>2, TypeStep, ProgressStep DEF IInv
  <2> QED
    BY <2>1, <2>2
<1> QED
  BY <1>1, <1>2, PTL DEF Spec

\* Every variable keeps its type; in particular a decoder is never asked past the
\* end of its download.
THEOREM TypeCorrect == Spec => []TypeOK
BY Invariant, PTL DEF IInv

\* A call that returns without an error has done its work on every object of the
\* manifest, but for those whose deletion it failed to make or found going on.
THEOREM Completion == Spec => []OkMeansDone
<1>1. IInv => OkMeansDone
  <2> SUFFICES ASSUME IInv, pc = "idle", result = "ok", NEW o \in Contents \ missed
               PROVE  /\ op = "apply" => cluster[o] = "live"
                      /\ op = "delete" => cluster[o] # "live"
    BY DEF OkMeansDone
  <2>1. PICK i \in 1..Len(manifest) : o = manifest[i] /\ o \in Object
    BY ManifestFacts DEF IInv, TypeOK
  <2> QED
    BY <2>1 DEF IInv, Progress, Done
<1> QED
  BY <1>1, Invariant, PTL

\* An object is created only after every earlier object of the manifest.
THEOREM CreationOrder == Spec => CreatedInOrder
<1> DEFINE Ordered ==
      \A o \in Object :
          cluster[o] = "absent" /\ cluster'[o] = "live" /\ op = "apply" =>
              \A i \in 1..at - 1 :
                  manifest[i] \in Object =>
                      manifest[i] \in missed \/ cluster[manifest[i]] = "live"
<1>1. IInv /\ [Next]_vars => [Ordered]_cluster
  <2> SUFFICES ASSUME IInv, Next, cluster' # cluster, op = "apply"
               PROVE  Ordered
    BY DEF vars, state
  <2>1. CASE pc # "idle"
    BY <2>1 DEF IInv, Progress, Done
  <2>2. CASE pc = "idle"
    <3>1. PICK o \in Object : Finalized(o)
      BY <2>2 DEF Next, CallStep, ApplyYAMLFromURL, DeleteYAMLFromURL, Call, Retry,
                  Start, Fetch, Decode, Get, Put, DeleteObject, Crash, Touched
    <3> QED
      BY <3>1 DEF Finalized, IInv, TypeOK
  <2> QED
    BY <2>1, <2>2
<1> QED
  BY <1>1, Invariant, PTL DEF Spec, CreatedInOrder

================================================================================
