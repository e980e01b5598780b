--------------------------- MODULE FeatureWishProofs ---------------------------
(***************************************************************************)
(* What the proofs about the feature controllers need to know about the    *)
(* versions of the ConfigMap that a controller has been shown.             *)
(***************************************************************************)
EXTENDS FeatureWish, TLAPS

\* The cache has shown the controller this content, now or earlier.
Shown(w) == \E i \in 1..seen : wishes[i] = w

\* The versions of the ConfigMap are contents, and the cache has shown the first of them.
LEMMA WishFacts ==
    ASSUME WishTypeOK
    PROVE  /\ Len(wishes) \in Nat /\ Len(wishes) \in 1..Len(wishes)
           /\ seen \in Nat /\ seen <= Len(wishes)
           /\ \A i \in 1..Len(wishes) : wishes[i] \in Content
           /\ Newest \in Content
<1>1. wishes \in Seq(Content) /\ Len(wishes) \in 1..MaxWishes /\ seen \in 0..Len(wishes)
  BY DEF WishTypeOK
<1>2. Len(wishes) \in Nat /\ Len(wishes) >= 1
  BY <1>1
<1>3. \A i \in 1..Len(wishes) : wishes[i] \in Content
  BY <1>1
<1> QED
  BY <1>1, <1>2, <1>3 DEF Newest

\* At first there is one version, or none, which nobody has seen.
LEMMA WishInitType == WishInit => WishTypeOK /\ seen = 0
<1> SUFFICES ASSUME WishInit PROVE WishTypeOK /\ seen = 0
  OBVIOUS
<1>1. PICK w \in Wish \cup {Deleted} : wishes = <<w>>
  BY DEF WishInit
<1>2. w \in Content
  BY WishAssumption DEF Content
<1>3. wishes \in Seq(Content) /\ Len(wishes) = 1
  BY <1>1, <1>2
<1>4. seen = 0 /\ queued = FALSE
  BY DEF WishInit
<1>5. 1 \in 1..MaxWishes /\ 0 \in 0..1
  BY WishAssumption
<1> QED
  BY <1>3, <1>4, <1>5 DEF WishTypeOK

\* The steps of people, of the informer, of a restart, and of the worker.
WishNext ==
    \/ WishChanges \/ WishArrives \/ WishResync \/ WishListed
    \/ UNCHANGED <<wishes, seen>> /\ queued' \in BOOLEAN

\* No step changes a version, or takes back what the cache has shown.
LEMMA WishStep ==
    ASSUME WishTypeOK, WishNext
    PROVE  /\ WishTypeOK'
           /\ seen <= seen' /\ seen' \in Nat
           /\ \A i \in 1..seen : wishes'[i] = wishes[i]
<1>0. /\ wishes \in Seq(Content) /\ Len(wishes) \in 1..MaxWishes /\ seen \in 0..Len(wishes)
      /\ queued \in BOOLEAN /\ MaxWishes \in Nat /\ Len(wishes) \in Nat
  BY WishFacts, WishAssumption DEF WishTypeOK
<1>1. CASE WishChanges
  <2>1. PICK w \in (Wish \cup {Deleted, Garbage}) \ {Newest} : wishes' = Append(wishes, w)
    BY <1>1 DEF WishChanges
  <2>2. w \in Content
    BY WishAssumption DEF Content
  <2>3. /\ wishes' \in Seq(Content) /\ Len(wishes') = Len(wishes) + 1
        /\ \A i \in 1..Len(wishes) : wishes'[i] = wishes[i]
    BY <1>0, <2>1, <2>2
  <2>4. seen' = seen /\ queued' = queued /\ Len(wishes) < MaxWishes
    BY <1>1 DEF WishChanges
  <2> QED
    BY <1>0, <2>3, <2>4 DEF WishTypeOK
<1>2. CASE UNCHANGED wishes /\ seen' \in seen..Len(wishes) /\ queued' \in BOOLEAN
  BY <1>0, <1>2 DEF WishTypeOK
<1>3. CASE WishArrives
  <2>1. UNCHANGED wishes /\ seen' \in seen..Len(wishes)
    BY <1>0, <1>3 DEF WishArrives
  <2>2. queued' \in BOOLEAN
    BY <1>0, <1>3 DEF WishArrives
  <2> QED
    BY <1>2, <2>1, <2>2
<1>4. CASE WishResync
  BY <1>0, <1>2, <1>4 DEF WishResync
<1>5. CASE WishListed
  <2>1. UNCHANGED wishes /\ seen' \in seen..Len(wishes)
    BY <1>0, <1>5 DEF WishListed
  <2>2. queued' \in BOOLEAN
    BY <1>5 DEF WishListed
  <2> QED
    BY <1>2, <2>1, <2>2
<1>6. CASE UNCHANGED <<wishes, seen>> /\ queued' \in BOOLEAN
  BY <1>0, <1>2, <1>6
<1> QED
  BY <1>1, <1>3, <1>4, <1>5, <1>6 DEF WishNext

\* What the cache has shown it has shown for good.
LEMMA ShownStays ==
    ASSUME WishTypeOK, WishNext
    PROVE  \A w : Shown(w) => Shown(w)'
<1>1. SUFFICES ASSUME NEW w, Shown(w) PROVE \E i \in 1..seen' : wishes'[i] = w
  BY DEF Shown
<1>2. PICK i \in 1..seen : wishes[i] = w
  BY <1>1 DEF Shown
<1>3. i \in 1..seen' /\ wishes'[i] = w
  BY <1>2, WishStep, WishFacts
<1> QED
  BY <1>3

\* What a pass takes up is a Config that the cache has just shown.
LEMMA WorkIsShown ==
    ASSUME WishTypeOK, HasWork
    PROVE  wishes[seen] \in Config /\ Managed(wishes[seen]) /\ Shown(wishes[seen])
<1>1. seen \in 1..seen
  BY WishFacts DEF HasWork
<1> QED
  BY <1>1 DEF HasWork, Managed, Shown

================================================================================
