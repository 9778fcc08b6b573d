------------------------------ MODULE MCNodeCodec ------------------------------
(***************************************************************************)
(* Small instances of NodeCodec for TLC: the trees of a bounded depth, as  *)
(* functions on positions.                                                 *)
(***************************************************************************)
EXTENDS NodeCodec, SequencesExt

CONSTANTS
    MaxItems,       \* bound: items of a nested list
    MaxDepth,       \* bound: lists inside lists
    MaxLong         \* bound: items of a flat array, past what c_int holds

Scalar(kind, content) ==
    [p \in {<<>>} |-> [kind |-> kind, content |-> content, size |-> 0, keys |-> <<>>]]

\* The list of the given trees, with their positions moved below it.
ListOf(kind, keys, items) ==
    LET moved(i) == {<<i>> \o p : p \in DOMAIN items[i]}
    IN  [p \in {<<>>} \cup UNION {moved(i) : i \in DOMAIN items} |->
            IF p = <<>> THEN [kind |-> kind, content |-> "none", size |-> Len(items), keys |-> keys]
            ELSE items[p[1]][Tail(p)]]

ScalarTrees == {Scalar("number", "text")} \cup {Scalar("string", text) : text \in Contents}
RECURSIVE TreesOf(_)
TreesOf(depth) ==
    IF depth = 0 THEN ScalarTrees
    ELSE LET sub == TreesOf(depth - 1)
         IN  sub \cup {ListOf("array", <<>>, items) : items \in BoundedSeq(sub, MaxItems)}
                 \cup UNION {{ListOf("map", keys, items) : keys \in [1..Len(items) -> Contents]} :
                                items \in BoundedSeq(sub, MaxItems)}

MCTrees ==
    TreesOf(MaxDepth) \cup {Scalar("bytes", content) : content \in Contents}
        \cup {ListOf("array", <<>>, [i \in 1..n |-> Scalar("number", "text")]) : n \in 0..MaxLong}
=============================================================================
