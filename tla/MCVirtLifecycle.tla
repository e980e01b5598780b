---------------------------- MODULE MCVirtLifecycle ----------------------------
(***************************************************************************)
(* Instances of VirtLifecycle: Virt enabled with each kind of setting for  *)
(* the emulation, disabled, and not managed by the operator.               *)
(***************************************************************************)
EXTENDS VirtLifecycle

MCFeature == {"virt"}
MCFlagText == {"true", "True", "false"}
MCTrueSpelling == {"true", "True"}
MCText == {"", "true", "false", "auto"}
MCExtra == {"none"}

Section(managed, enabled, setting) ==
    [version |-> "", base |-> "", emulation |-> setting,
     managed |-> [f \in MCFeature |-> managed],
     enabled |-> [f \in MCFeature |-> enabled],
     pinned  |-> [f \in MCFeature |-> ""]]

MCWishManaged ==
    {Section("true", "true", "true"), Section("true", "true", "false"),
     Section("true", "false", "auto")}

MCWish ==
    MCWishManaged \cup {Section("true", "true", "auto"), Section("True", "true", "auto")}

================================================================================
