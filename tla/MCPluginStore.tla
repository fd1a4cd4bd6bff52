--------------------------- MODULE MCPluginStore ---------------------------
(* Model-checking instance of PluginStore: two plugins, one with a prerelease. *)
EXTENDS PluginStore, TLC

V(major, prerelease) ==
    [major |-> major, minor |-> 0, patch |-> 0, prerelease |-> prerelease]
Rc(n) == <<[numeric |-> FALSE, value |-> 1], [numeric |-> TRUE, value |-> n]>>

Lore1 == [id |-> "lore", version |-> V(1, Rc(2)), build |-> 1]
Lore2 == [id |-> "lore", version |-> V(1, <<>>), build |-> 1]
Dice == [id |-> "dice", version |-> V(1, <<>>), build |-> 1]

MCReleases == {Lore1, Lore2, Dice}
MCNeeds == (Lore1 :> {"yaml"}) @@ (Lore2 :> {"toml"}) @@ (Dice :> {})
MCCatalogs == {{Lore2, Dice}, {Lore1, Dice}}
MCSymmetry == Permutations(Threads)
MCDefault == <<{Dice}, {Lore1, Lore2}>>
MCExperiences == {<<{Lore1, Lore2}>>}
=============================================================================
