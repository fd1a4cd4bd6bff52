---------------------------- MODULE MCPluginHost ----------------------------
(* Model-checking instance of PluginHost: three plugins with a filter and a     *)
(* layer each, one that wants another dependency and one whose order conflicts; *)
(* and a fourth, which requires itself.                                         *)
EXTENDS PluginHost, TLC

MCActivated == <<2, 1, 3, 4>>

Plain == [requires |-> {}, wrong |-> {}, priority |-> 0, before |-> {}, after |-> {}]

MCManifest ==
    (1 :> [Plain EXCEPT !.requires = {2}]) @@
    (2 :> [Plain EXCEPT !.after = {3}]) @@
    (3 :> [Plain EXCEPT !.priority = 5]) @@
    (4 :> [Plain EXCEPT !.requires = {4}])

Command(name, aliases, result_kind) ==
    [kind |-> "command", schema |-> 2, name |-> name, aliases |-> aliases, result_kind |-> result_kind]

Handler(kind, order) == [kind |-> kind, order |-> order]

MCSetup ==
    (1 :> <<Handler("filter", "priority" :> 9), Handler("wrapper", <<>>), Command("roll", {"r"}, 1)>>) @@
    (2 :> <<Handler("wrapper", <<>>), Handler("action", "after" :> {}), Command("r", {}, 2)>>) @@
    (3 :> <<Handler("wrapper", <<>>), Handler("filter", "before" :> {4}),
            [Command("roll", {}, Core) EXCEPT !.schema = 1], Command("help", {}, Core)>>) @@
    (4 :> <<>>)

MCNames == {"roll", "r", "help"}
MCBuiltin == {"help"}
MCSymmetry == Permutations(Callers)
=============================================================================
