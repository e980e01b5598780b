------------------------------ MODULE FeatureWish ------------------------------
(***************************************************************************)
(* What the feature controllers have in common: each of them watches the   *)
(* ConfigMap k4all-config for the configuration of its own feature.  The   *)
(* ConfigMap is a log of versions, the informer cache a position in it,    *)
(* and the work queue holds the one key that the controller handles.       *)
(***************************************************************************)
EXTENDS Naturals, Sequences, K4allConfig

CONSTANTS
    OwnFeature,   \* the feature of this controller
    Wish,         \* the Configs that come to be in the ConfigMap
    Deleted,      \* there is no ConfigMap
    Garbage,      \* its config.json is not JSON
    MaxWishes     \* bound: versions of the ConfigMap

ASSUME WishAssumption ==
    /\ OwnFeature \in Feature
    /\ Wish \subseteq Config
    /\ {Deleted, Garbage} \cap Config = {}
    /\ MaxWishes \in Nat \ {0}

VARIABLES
    wishes,      \* versions of the ConfigMap
    seen,        \* position of the informer cache in wishes
    queued       \* the key is in the work queue

wishVars == <<wishes, seen, queued>>

Content == Config \cup {Deleted, Garbage}

WishTypeOK ==
    /\ wishes \in Seq(Content) /\ Len(wishes) \in 1..MaxWishes
    /\ seen \in 0..Len(wishes)
    /\ queued \in BOOLEAN

WishInit ==
    /\ \E w \in Wish \cup {Deleted} : wishes = <<w>>
    /\ seen = 0
    /\ queued = FALSE

Newest == wishes[Len(wishes)]

Managed(w) == w \in Config /\ IsManaged(w, OwnFeature)
Enabled(w) == IsEnabled(w, OwnFeature)

Wanted(w)   == Managed(w) /\ Enabled(w)
Unwanted(w) == Managed(w) /\ ~Enabled(w)

WishChanges ==
    /\ Len(wishes) < MaxWishes
    /\ \E w \in (Wish \cup {Deleted, Garbage}) \ {Newest} : wishes' = Append(wishes, w)
    /\ UNCHANGED <<seen, queued>>

\* The event filter drops deletions.
WishArrives ==
    /\ seen < Len(wishes)
    /\ seen' = seen + 1
    /\ queued' = (queued \/ wishes[seen'] # Deleted)
    /\ UNCHANGED wishes

\* The resync of the informer comes every ten hours.
WishResync ==
    /\ seen > 0 /\ wishes[seen] # Deleted
    /\ queued' = TRUE
    /\ UNCHANGED <<wishes, seen>>

\* A restart lists the ConfigMap and hands it to the controller.
WishListed ==
    /\ seen' = Len(wishes)
    /\ queued' = (Newest # Deleted)
    /\ UNCHANGED wishes

\* Reconcile takes the key.  It goes on with a feature that is managed, tries again
\* after an error in the JSON, and is done with everything else.
HasWork == queued /\ seen > 0 /\ Managed(wishes[seen])
NoWork  == queued /\ (seen = 0 \/ ~Managed(wishes[seen]))
Dismiss == queued' = (seen > 0 /\ wishes[seen] = Garbage)

================================================================================
