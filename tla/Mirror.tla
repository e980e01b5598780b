--------------------------------- MODULE Mirror ---------------------------------
(***************************************************************************)
(* What the operator promises about the configuration, without caches,     *)
(* work queues, temporary files, retries and restarts: the file on the     *)
(* host, the ClusterConfig resources and the ConfigMap are three places    *)
(* that people change as they like, and to which the operator does three   *)
(* things only, each in one step.                                          *)
(*                                                                         *)
(*   Adopt     a resource that asks for the file gets a document that the  *)
(*             file has held since the resource asked;                     *)
(*   WriteOut  the file gets a version of a resource that did not ask for  *)
(*             it, never an older one than before;                         *)
(*   Copy      the ConfigMap gets another document that the file has held. *)
(*                                                                         *)
(* ConfigSync implements this specification.                               *)
(***************************************************************************)
EXTENDS Naturals, Sequences, K4allConfig

CONSTANTS Resource, UserDocument, UserSpec, Absent, Garbage, NoDocument

VARIABLES
    file,     \* what the file holds
    past,     \* the documents that it has held
    since,    \* of each resource: those held since its newest version
    log,      \* the versions of each resource
    out,      \* of each resource: the version last written to the file
    map       \* the ConfigMap

vars == <<file, past, since, log, out, map>>

Version == [alive : BOOLEAN, fileSync : BOOLEAN, spec : ClusterConfigSpec,
            by : {"user", "operator"}]

NoMap == [alive |-> FALSE, doc |-> NoDocument, by |-> "user"]

Init ==
    /\ file \in UserDocument \cup {Absent}
    /\ past = {file} \cap Document
    /\ since = [k \in Resource |-> past]
    /\ log = [k \in Resource |-> << >>]
    /\ out = [k \in Resource |-> 0]
    /\ map = NoMap

FileBecomes(content) ==
    /\ file' = content
    /\ past' = past \cup ({content} \cap Document)
    /\ since' = [k \in Resource |-> since[k] \cup ({content} \cap Document)]

ResourceBecomes(k, v) ==
    /\ log' = [log EXCEPT ![k] = Append(@, v)]
    /\ since' = [since EXCEPT ![k] = {file} \cap Document]

(***************************************************************************)
(* People.                                                                 *)
(***************************************************************************)
WriteFile ==
    /\ \E content \in UserDocument \cup {Absent, Garbage} : FileBecomes(content)
    /\ UNCHANGED <<log, out, map>>

PutResource(k) ==
    /\ \E b \in BOOLEAN, s \in UserSpec :
          ResourceBecomes(k, [alive |-> TRUE, fileSync |-> b, spec |-> s, by |-> "user"])
    /\ UNCHANGED <<file, past, out, map>>

DeleteResource(k) ==
    /\ log[k] # << >>
    /\ ResourceBecomes(k, [log[k][Len(log[k])] EXCEPT !.alive = FALSE, !.by = "user"])
    /\ UNCHANGED <<file, past, out, map>>

ChangeMap ==
    /\ \E b \in BOOLEAN : map' = [alive |-> b, doc |-> NoDocument, by |-> "user"]
    /\ UNCHANGED <<file, past, since, log, out>>

(***************************************************************************)
(* The operator.                                                           *)
(***************************************************************************)
Adopt(k) ==
    /\ log[k] # << >>
    /\ log[k][Len(log[k])].alive /\ log[k][Len(log[k])].fileSync
    /\ \E d \in since[k] :
          ResourceBecomes(k, [alive |-> TRUE, fileSync |-> FALSE,
                              spec |-> MapToClusterConfig(ParseConfigFile(d)),
                              by |-> "operator"])
    /\ UNCHANGED <<file, past, out, map>>

WriteOut(k) ==
    /\ \E i \in 1..Len(log[k]) :
          /\ i >= out[k]
          /\ log[k][i].alive /\ ~log[k][i].fileSync
          /\ FileBecomes(WrittenDocument(log[k][i].spec))
          /\ out' = [out EXCEPT ![k] = i]
    /\ UNCHANGED <<log, map>>

Copy ==
    /\ \E d \in past :
          map' = [alive |-> TRUE, doc |-> MarshalIndent(ParseConfigFile(d)),
                  by |-> "operator"]
    /\ map.alive => map'.doc # map.doc
    /\ UNCHANGED <<file, past, since, log, out>>

Next ==
    \/ WriteFile \/ ChangeMap \/ Copy
    \/ \E k \in Resource : PutResource(k) \/ DeleteResource(k) \/ Adopt(k) \/ WriteOut(k)

Spec == Init /\ [][Next]_vars

================================================================================
