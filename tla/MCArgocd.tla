------------------------------- MODULE MCArgocd -------------------------------
(***************************************************************************)
(* Instances of Argocd: Argo CD enabled in two versions, disabled, and     *)
(* enabled with a flag that the controller does not read as "true".        *)
(***************************************************************************)
EXTENDS Argocd

MCFeature == {"argocd"}
MCFlagText == {"true", "True", "false"}
MCTrueSpelling == {"true", "True"}
MCText == {"", "7.8.7", "8.0.0"}
MCExtra == {"none"}

Section(managed, enabled, version) ==
    [version |-> "", base |-> "", emulation |-> "",
     managed |-> [f \in MCFeature |-> managed],
     enabled |-> [f \in MCFeature |-> enabled],
     pinned  |-> [f \in MCFeature |-> version]]

MCWishManaged ==
    {Section("true", "true", ""), Section("true", "true", "8.0.0"),
     Section("true", "false", "")}

MCWish == MCWishManaged \cup {Section("True", "true", "")}

================================================================================
