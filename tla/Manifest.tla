-------------------------------- MODULE Manifest --------------------------------
(***************************************************************************)
(* ApplyYAMLFromURL and DeleteYAMLFromURL: a manifest is downloaded and    *)
(* its documents are decoded one by one, while the download goes on; each  *)
(* object is put into the cluster, or deleted, before the next is decoded. *)
(* Applying ends at the first error, deleting logs errors and goes on.     *)
(*                                                                         *)
(* A download that breaks off is an error of the decoder which every later *)
(* attempt to decode meets again.                                          *)
(***************************************************************************)
EXTENDS Naturals, Sequences, SequencesExt

CONSTANTS
    Object,
    Empty, Malformed,    \* other documents
    MaxDocs,             \* bound: documents of the manifest
    MaxCalls,            \* bound: calls, retries apart
    MaxFaults            \* bound: failed calls, broken downloads, others' writes, restarts

Doc == Object \cup {Empty, Malformed}

ASSUME ManifestAssumption ==
    /\ Empty # Malformed /\ {Empty, Malformed} \cap Object = {}
    /\ {MaxDocs, MaxCalls, MaxFaults} \subseteq Nat

VARIABLES
    manifest,    \* the documents at the URL
    cluster,     \* what the API server has of each object
    op,          \* the call that is running, or was the last
    pc,          \* where it is
    result,      \* what it returned
    at,          \* the document to decode next
    end, broken, \* where the download ends, and whether with an error
    found,       \* the answer of the Get
    fresh,       \* nobody has changed the object since
    missed,      \* history: objects that the call went past and that need not be as it wants
    count

state  == <<cluster, found, fresh, missed>>
stream == <<end, broken>>
vars   == <<manifest, state, stream, op, pc, result, at, count>>

Contents == Range(manifest) \cap Object

TypeOK ==
    /\ manifest \in Seq(Doc) /\ Len(manifest) <= MaxDocs
    /\ cluster \in [Object -> {"absent", "live", "deleting"}]
    /\ op \in {"none", "apply", "delete"}
    /\ pc \in {"idle", "fetch", "decode", "get", "put", "remove"}
    /\ result \in {"none", "ok", "error"}
    /\ at \in 1..Len(manifest) + 1 /\ end \in 1..Len(manifest) + 1
    /\ broken \in BOOLEAN
    /\ pc # "idle" => at <= end
    /\ pc \in {"get", "put", "remove"} => at < end /\ manifest[at] \in Object
    /\ found \in {"none", "absent", "live", "deleting"} /\ fresh \in BOOLEAN
    /\ pc = "put" <=> found # "none"
    /\ pc = "put" /\ fresh => cluster[manifest[at]] = found
    /\ missed \subseteq Contents
    /\ count \in [{"call", "fault"} -> Nat]

\* All of the objects are there, or none.
Init ==
    /\ manifest \in SeqOf(Doc, MaxDocs)
    /\ \E there \in {"absent", "live"} : cluster = [o \in Object |-> there]
    /\ op = "none" /\ pc = "idle" /\ result = "none"
    /\ at = 1 /\ end = 1 /\ broken = FALSE
    /\ found = "none" /\ fresh = FALSE
    /\ missed = {}
    /\ count = [e \in {"call", "fault"} |-> 0]

Counted(what, max) ==
    /\ count[what] < max
    /\ count' = [count EXCEPT ![what] = @ + 1]

Fault == Counted("fault", MaxFaults)

\* An attempt that goes on where the last one ended.
StartOnwards ==
    /\ pc' = "fetch" /\ result' = "none"
    /\ end' = 1 /\ broken' = FALSE
    /\ missed' = {}
    /\ UNCHANGED <<manifest, cluster, found, fresh, at>>

Start ==
    /\ pc' = "fetch" /\ result' = "none"
    /\ at' = 1 /\ end' = 1 /\ broken' = FALSE
    /\ missed' = {}
    /\ UNCHANGED <<manifest, cluster, found, fresh>>

Call ==
    /\ pc = "idle"
    /\ op' \in {"apply", "delete"}
    /\ Start
    /\ Counted("call", MaxCalls)

\* An installation that failed begins again, a removal is over.
Retry ==
    /\ pc = "idle" /\ op = "apply" /\ result = "error"
    /\ Start
    /\ UNCHANGED <<op, count>>

Return(what) ==
    /\ pc' = "idle" /\ result' = what
    /\ found' = "none" /\ fresh' = FALSE

GoOn ==
    /\ pc' = "decode" /\ at' = at + 1
    /\ found' = "none" /\ fresh' = FALSE
    /\ UNCHANGED result

\* http.Get, whose answer is the beginning of a download.
Fetch ==
    /\ pc = "fetch"
    /\ \/ /\ end' = Len(manifest) + 1 /\ broken' = FALSE
          /\ pc' = "decode"
          /\ UNCHANGED <<result, found, fresh, count>>
       \/ /\ Fault
          /\ end' \in 1..Len(manifest) + 1 /\ broken' = TRUE
          /\ pc' = "decode"
          /\ UNCHANGED <<result, found, fresh>>
       \/ /\ Fault
          /\ Return("error")
          /\ UNCHANGED stream
    /\ UNCHANGED <<manifest, cluster, missed, op, at>>

\* Ways to take an error of the decoder: as the end of the manifest, which is what
\* io.EOF is, and as a reason to decode the same once more.
DecodeErrorEnds == Return("ok") /\ UNCHANGED at

DecodeErrorAgain ==
    IF op = "apply" THEN Return("error") /\ UNCHANGED at
    ELSE UNCHANGED <<pc, result, found, fresh, at>>

\* Applying returns it.  Deleting tries the next document, which after a malformed
\* one there is, but not after a download that broke off.
DecodeError ==
    IF op = "apply" THEN Return("error") /\ UNCHANGED at
    ELSE IF at = end THEN UNCHANGED <<pc, result, found, fresh, at>>
    ELSE GoOn

Decode ==
    /\ pc = "decode"
    /\ \/ at = end /\ ~broken /\ Return("ok") /\ UNCHANGED at
       \/ at = end /\ broken /\ DecodeError
       \/ at < end /\ manifest[at] = Malformed /\ DecodeError
       \/ at < end /\ manifest[at] = Empty /\ GoOn
       \/ /\ at < end /\ manifest[at] \in Object
          /\ pc' = IF op = "apply" THEN "get" ELSE "remove"
          /\ UNCHANGED <<result, found, fresh, at>>
    /\ UNCHANGED <<manifest, cluster, missed, stream, op, count>>

(***************************************************************************)
(* createOrUpdateResource: a read, and then a write that is refused if the *)
(* object changed in between.                                              *)
(***************************************************************************)
Get ==
    /\ pc = "get"
    /\ \/ /\ found' = cluster[manifest[at]] /\ fresh' = TRUE
          /\ pc' = "put"
          /\ UNCHANGED <<result, count>>
       \/ Fault /\ Return("error")
    /\ UNCHANGED <<manifest, cluster, missed, stream, op, at>>

\* An update replaces the finalizers too, by none: an object that is being deleted
\* vanishes.
Written ==
    IF found = "deleting" THEN [cluster EXCEPT ![manifest[at]] = "absent"]
    ELSE [cluster EXCEPT ![manifest[at]] = "live"]

Passed(o) == missed' = missed \cup {o}

\* A write that only creates, one of which an error is logged, and the code's own.
CreateOnly ==
    /\ pc = "put"
    /\ IF fresh /\ found = "absent"
       THEN cluster' = Written /\ GoOn
       ELSE UNCHANGED cluster /\ Return("error") /\ UNCHANGED at
    /\ UNCHANGED <<manifest, missed, stream, op, count>>

PutLogging ==
    /\ pc = "put"
    /\ \/ fresh /\ cluster' = Written /\ UNCHANGED <<missed, count>>
       \/ ~fresh /\ Passed(manifest[at]) /\ UNCHANGED <<cluster, count>>
       \/ Fault /\ UNCHANGED <<cluster, missed>>
    /\ GoOn
    /\ UNCHANGED <<manifest, stream, op>>

Put ==
    /\ pc = "put"
    /\ \/ /\ fresh
          /\ cluster' = Written
          /\ IF found = "deleting" THEN Passed(manifest[at]) ELSE UNCHANGED missed
          /\ \/ GoOn /\ UNCHANGED count
             \/ Fault /\ Return("error") /\ UNCHANGED at       \* the reply is lost
       \/ /\ ~fresh                                            \* exists, conflict, not found
          /\ Return("error")
          /\ UNCHANGED <<cluster, missed, at, count>>
       \/ /\ Fault
          /\ Return("error")
          /\ UNCHANGED <<cluster, missed, at>>
    /\ UNCHANGED <<manifest, stream, op>>

(***************************************************************************)
(* Deleting one object.  With finalizers it stays for a while.             *)
(***************************************************************************)
Deleted(o) ==
    \/ cluster[o] = "live" /\ \E s \in {"absent", "deleting"} : cluster' = [cluster EXCEPT ![o] = s]
    \/ cluster[o] # "live" /\ UNCHANGED cluster

DeleteObject ==
    /\ pc = "remove"
    /\ \/ Deleted(manifest[at]) /\ UNCHANGED <<missed, count>>
       \/ Fault /\ Passed(manifest[at]) /\ UNCHANGED cluster
    /\ GoOn
    /\ UNCHANGED <<manifest, stream, op>>

(***************************************************************************)
(* The rest of the cluster.                                                *)
(***************************************************************************)
\* What another writer does to the object at hand makes the copy of it stale.
Stales(o) ==
    fresh' = (fresh /\ ~(pc = "put" /\ manifest[at] = o))

Finalized(o) ==
    /\ cluster[o] = "deleting"
    /\ cluster' = [cluster EXCEPT ![o] = "absent"]
    /\ Stales(o)
    /\ UNCHANGED <<manifest, found, missed, stream, op, pc, result, at, count>>

\* Operators of the cluster update, or create, objects of the manifest as well.
Touched(o) ==
    /\ pc = "put" /\ manifest[at] = o /\ fresh
    /\ Fault
    /\ cluster' = IF cluster[o] = "absent" THEN [cluster EXCEPT ![o] = "live"] ELSE cluster
    /\ fresh' = FALSE
    /\ UNCHANGED <<manifest, found, missed, stream, op, pc, result, at>>

Crash ==
    /\ pc # "idle"
    /\ Fault
    /\ Return("error")
    /\ UNCHANGED <<manifest, cluster, missed, stream, op, at>>

ApplyYAMLFromURL == op = "apply" /\ (Fetch \/ Decode \/ Get \/ Put)

DeleteYAMLFromURL == op = "delete" /\ (Fetch \/ Decode \/ DeleteObject)

CallStep == ApplyYAMLFromURL \/ DeleteYAMLFromURL

Next ==
    \/ Call \/ Retry \/ CallStep \/ Crash
    \/ \E o \in Object : Finalized(o) \/ Touched(o)

\* The worker goes on, and installs again after an error.
Fairness == WF_vars(CallStep) /\ WF_vars(Retry)

Spec == Init /\ [][Next]_vars /\ Fairness

--------------------------------------------------------------------------------
\* A call that returns without an error has applied, or deleted, every object of
\* the manifest, wherever a download broke off and whoever wrote in between: apart
\* from those whose deletion failed, and those that were being deleted.
OkMeansDone ==
    pc = "idle" /\ result = "ok" =>
        \A o \in Contents \ missed :
            /\ op = "apply" => cluster[o] = "live"
            /\ op = "delete" => cluster[o] # "live"

\* Objects are created in the order of the manifest, whose later objects need the
\* earlier ones (namespace and CRD): an error leaves a prefix.
CreatedInOrder ==
    [][\A o \in Object :
          cluster[o] = "absent" /\ cluster'[o] = "live" /\ op = "apply" =>
              \A i \in 1..at - 1 :
                  manifest[i] \in Object =>
                      manifest[i] \in missed \/ cluster[manifest[i]] = "live"]_cluster

\* In the end an installation has applied a manifest that can be read, over what
\* failed attempts have left.
AppliedInTheEnd ==
    <>[](op = "apply" /\ Malformed \notin Range(manifest) => pc = "idle" /\ result = "ok")

\* Every call ends, except one: a removal whose download broke off decodes the same
\* error for ever (downloader.go:286), and the worker with it.
Loops == op = "delete" /\ pc = "decode" /\ broken /\ at = end

CallsEnd == []<>(pc = "idle" \/ Loops)

================================================================================
