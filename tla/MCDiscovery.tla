---------------------------- MODULE MCDiscovery ----------------------------
(* Small instances of Discovery for TLC.                                   *)
EXTENDS Discovery, TLC

Segments == {"a", Wildcard, AnyDepth}
Patterns(n) == UNION {[1 .. l -> Segments] : l \in 1 .. n}
Names == {"a", "b"}

SyncRule(replicate, ignore) ==
  [mounts |-> {"kv", "app"}, replicate |-> replicate, ignore |-> ignore]

TwoMounts == <<"kv", "app">>
\* A name that is secret and directory, two directories, and depth three.
KvPaths == {<<"a">>, <<"a", "a">>, <<"a", "a", "b">>, <<"a", "b", "a">>, <<"b", "a", "a">>}
TwoMountPaths == "kv" :> KvPaths @@ "app" :> {<<"a">>}
TreesOf(n) == {"kv" :> t @@ "app" :> {<<"a">>} :
                 t \in {s \in SUBSET KvPaths : Cardinality(s) <= n}}
SmallTrees == TreesOf(2)

\* One list empty, or two short patterns against each other.
ToIgnore == {<<"a">>, <<Wildcard>>, <<"a", Wildcard>>, <<"a", AnyDepth>>, <<AnyDepth, "a">>}
ManyRules ==
  {SyncRule({}, {})} \cup {SyncRule({p}, {}) : p \in Patterns(3)}
    \cup {SyncRule({}, {p}) : p \in Patterns(3)}
    \cup {SyncRule({p}, {q}) : p \in Patterns(2), q \in ToIgnore}

\* Everything but the secrets right under "a".
ExceptUnderA == {SyncRule({}, {<<"a", Wildcard>>})}
=============================================================================
