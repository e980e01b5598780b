---------------------------- MODULE MCConfigSync ----------------------------
(***************************************************************************)
(* Instances of ConfigSync: one feature, a document of the installer with  *)
(* a pinned version and a flag spelt "True", one with nothing special, and *)
(* one spec that people apply.                                             *)
(***************************************************************************)
EXTENDS ConfigSync, TLC

MCFeature == {"virt"}
MCFlagText == {"true", "True", "false"}
MCTrueSpelling == {"true", "True"}
MCText == {"", "a"}
MCExtra == {"none", "section"}

Flags(text) == [f \in MCFeature |-> text]

Installed ==
    [config |-> [version |-> "a", base |-> "a", emulation |-> "a",
                 enabled |-> Flags("True"), managed |-> Flags("true"),
                 pinned |-> Flags("a")],
     extra  |-> "section"]

Edited ==
    [config |-> [version |-> "a", base |-> "", emulation |-> "a",
                 enabled |-> Flags("false"), managed |-> Flags("true"),
                 pinned |-> Flags("")],
     extra  |-> "none"]

Applied ==
    [version |-> "a", base |-> "a", emulation |-> "",
     enabled |-> Flags(TRUE), managed |-> Flags(FALSE)]

MCUserDocument == {Installed, Edited}
\* Of one document only.
MCInstalled == {Installed}

MCUserSpec == {Applied}

\* Nothing tells the names of the resources apart.
ResourceSymmetry == Permutations(Resource)

=============================================================================
