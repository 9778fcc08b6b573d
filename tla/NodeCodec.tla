------------------------------- MODULE NodeCodec -------------------------------
(***************************************************************************)
(* Passing a Node to libmpv: NodeStorage::build lays the tree out as C     *)
(* arrays and strings that the raw nodes point to, libmpv walks them       *)
(* during the call (its copy reads what Node::from_raw reads), and the     *)
(* storage is dropped.  A C list's length is a c_int, a Rust length is     *)
(* not; a string with an interior NUL has no C form.                       *)
(*                                                                         *)
(* A tree is a function on positions: the root is at <<>>, the i-th item   *)
(* of the node at p at Kid(p, i).  An allocation is named by the position  *)
(* of the node it was made for, which also names its address.              *)
(***************************************************************************)
EXTENDS Integers, Sequences

CONSTANTS
    CIntSize,       \* 2^32: c_int wraps at half of it
    Contents,       \* texts, byte arrays and numbers
    WithNul,        \* those of them that have an interior NUL
    Trees           \* the trees that callers pass

Positions == Seq(Nat \ {0})
Root == <<>>
Kid(p, i) == Append(p, i)

\* Mutant: the length counts a terminator.
WithTerminator(n) == n + 1
\* `as c_int`
AsCInt(n) == ((n + CIntSize \div 2) % CIntSize) - CIntSize \div 2
\* list.num.max(0)
Count(num) == IF num < 0 THEN 0 ELSE num

Scalars == {"number", "string", "bytes"}
Lists == {"array", "map"}

\* A node without its items: a scalar with its content, or a list with its
\* length and, in a map, its keys.
Labels == [kind : Scalars, content : Contents, size : {0}, keys : {<<>>}]
    \cup [kind : {"array"}, content : {"none"}, size : Nat, keys : {<<>>}]
    \cup {l \in [kind : {"map"}, content : {"none"}, size : Nat, keys : Seq(Contents)] :
            Len(l.keys) = l.size}

\* The positions of a tree are those that its lists' lengths lead to, and no others.
IsTree(t) ==
    /\ Root \in DOMAIN t /\ DOMAIN t \subseteq Positions /\ t \in [DOMAIN t -> Labels]
    /\ \A p \in DOMAIN t : \A i \in 1..t[p].size : Kid(p, i) \in DOMAIN t
    /\ \A S \in SUBSET DOMAIN t :
        Root \in S /\ (\A p \in S : \A i \in 1..t[p].size : Kid(p, i) \in S) => S = DOMAIN t

ASSUME CodecAssumption ==
    /\ CIntSize \in Nat \ {0} /\ CIntSize % 2 = 0 /\ WithNul \subseteq Contents
    /\ \A t \in Trees : IsTree(t)

VARIABLES
    tree,           \* the caller's tree
    phase,          \* how far the call has come
    calls,          \* the activations of build, the innermost last
    storage,        \* NodeStorage: strings and bytes, the keys' strings, lists
    pending,        \* the raw nodes that libmpv has still to read, with their positions
    read            \* what libmpv has read

codecVars == <<tree, phase, calls, storage, pending, read>>

Activation(p) == [at |-> p, values |-> <<>>, keys |-> <<>>]
NoStorage == [texts |-> <<>>, keys |-> <<>>, lists |-> <<>>]

CodecInit ==
    /\ tree \in Trees /\ phase = "build" /\ calls = <<Activation(Root)>>
    /\ storage = NoStorage /\ pending = {} /\ read = <<>>

-----------------------------------------------------------------------------
\* Building

Put(f, p, v) == [q \in DOMAIN f \cup {p} |-> IF q = p THEN v ELSE f[q]]

Top == calls[Len(calls)]
Label == tree[Top.at]
NextItem == Len(Top.values) + 1

\* Mutant: the string ends at its first NUL.
CStringCut(text) == text \in Contents
\* CString::new
CString(text) == text \notin WithNul

AddValue(call, raw) == [call EXCEPT !.values = Append(@, raw)]
AddKey(call, key) == [call EXCEPT !.keys = Append(@, key)]

\* build returns a raw node: to the loop over its list's items, or, at the root,
\* to the function that then calls libmpv.
Return(u) ==
    LET raw == [format |-> Label.kind, u |-> u]
        last == Len(calls) - 1
    IN  \/ /\ last = 0
           /\ phase' = "call" /\ calls' = <<>> /\ pending' = {[at |-> Root, raw |-> raw]}
        \/ /\ last > 0
           /\ calls' = [SubSeq(calls, 1, last) EXCEPT ![last] = AddValue(@, raw)]
           /\ UNCHANGED <<phase, pending>>

BuildNumber ==
    /\ phase = "build" /\ Label.kind = "number" /\ Return(Label.content)
    /\ UNCHANGED <<tree, storage, read>>

BuildText ==
    /\ phase = "build" /\ Label.kind \in {"string", "bytes"}
    /\ Label.kind = "string" => CString(Label.content)
    /\ storage' = [storage EXCEPT !.texts = Put(@, Top.at, Label.content)]
    /\ Return(Top.at)
    /\ UNCHANGED <<tree, read>>

\* Mutant: the key's string is dropped after its pointer was taken.
BuildItemDangling ==
    /\ phase = "build" /\ Label.kind \in Lists /\ NextItem <= Label.size
    /\ Label.kind = "map" => CString(Label.keys[NextItem])
    /\ LET kid == Kid(Top.at, NextItem)
       IN  calls' = Append([calls EXCEPT ![Len(calls)] =
                IF Label.kind = "map" THEN AddKey(@, kid) ELSE @], Activation(kid))
    /\ UNCHANGED <<tree, phase, storage, pending, read>>

\* The loop over the items builds the next one, after its key.
BuildItem ==
    /\ phase = "build" /\ Label.kind \in Lists /\ NextItem <= Label.size
    /\ LET kid == Kid(Top.at, NextItem)
       IN  \/ /\ Label.kind = "array"
              /\ calls' = Append(calls, Activation(kid)) /\ UNCHANGED storage
           \/ /\ Label.kind = "map" /\ CString(Label.keys[NextItem])
              /\ storage' = [storage EXCEPT !.keys = Put(@, kid, Label.keys[NextItem])]
              /\ calls' = Append([calls EXCEPT ![Len(calls)] = AddKey(@, kid)], Activation(kid))
    /\ UNCHANGED <<tree, phase, pending, read>>

\* Mutant: the last item is left out.
BuildListShort ==
    /\ phase = "build" /\ Label.kind \in Lists /\ NextItem > Label.size
    /\ storage' = [storage EXCEPT !.lists = Put(@, Top.at,
            [num |-> AsCInt(Label.size) - 1, values |-> Top.values, keys |-> Top.keys])]
    /\ Return(Top.at)
    /\ UNCHANGED <<tree, read>>

\* After the loop the arrays move into the storage, and the list that points to them.
BuildList ==
    /\ phase = "build" /\ Label.kind \in Lists /\ NextItem > Label.size
    /\ storage' = [storage EXCEPT !.lists = Put(@, Top.at,
            [num |-> AsCInt(Label.size), values |-> Top.values, keys |-> Top.keys])]
    /\ Return(Top.at)
    /\ UNCHANGED <<tree, read>>

\* A NUL ends every activation, and the storage is dropped with the caller.
Refuse ==
    /\ phase = "build"
    /\ \/ Label.kind = "string" /\ ~CString(Label.content)
       \/ Label.kind = "map" /\ NextItem <= Label.size /\ ~CString(Label.keys[NextItem])
    /\ phase' = "refused" /\ calls' = <<>> /\ storage' = NoStorage
    /\ UNCHANGED <<tree, pending, read>>

-----------------------------------------------------------------------------
\* Reading: Node::from_raw, which is how libmpv reads a node too.  Nothing is
\* changed by it, so the items may be read in any order.

FromRaw(raw) ==
    CASE raw.format = "number" ->
            [kind |-> "number", content |-> raw.u, size |-> 0, keys |-> <<>>]
      [] raw.format \in {"string", "bytes"} ->
            [kind |-> raw.format, content |-> storage.texts[raw.u], size |-> 0, keys |-> <<>>]
      [] raw.format \in Lists ->
            LET list == storage.lists[raw.u]
            IN  [kind |-> raw.format, content |-> "none", size |-> Count(list.num),
                 keys |-> IF raw.format = "map"
                          THEN [i \in 1..Count(list.num) |-> storage.keys[list.keys[i]]]
                          ELSE <<>>]

Items(raw) == IF raw.format \in Lists THEN Count(storage.lists[raw.u].num) ELSE 0

ReadNode ==
    /\ phase = "call"
    /\ \E node \in pending :
        /\ read' = Put(read, node.at, FromRaw(node.raw))
        /\ pending' = (pending \ {node}) \cup
            {[at |-> Kid(node.at, i), raw |-> storage.lists[node.raw.u].values[i]] :
                i \in 1..Items(node.raw)}
    /\ UNCHANGED <<tree, phase, calls, storage>>

\* The call returns and NodeStorage is dropped.
Returns ==
    /\ phase = "call" /\ pending = {}
    /\ phase' = "returned" /\ storage' = NoStorage
    /\ UNCHANGED <<tree, calls, pending, read>>

CodecNext ==
    \/ BuildNumber \/ BuildText \/ BuildItem \/ BuildList \/ Refuse
    \/ ReadNode \/ Returns
CodecSpec == CodecInit /\ [][CodecNext]_codecVars

-----------------------------------------------------------------------------
HasNul ==
    \E p \in DOMAIN tree :
        \/ tree[p].kind = "string" /\ tree[p].content \in WithNul
        \/ \E i \in DOMAIN tree[p].keys : tree[p].keys[i] \in WithNul

Owned(raw) ==
    /\ raw.format \in {"string", "bytes"} => raw.u \in DOMAIN storage.texts
    /\ raw.format \in Lists => raw.u \in DOMAIN storage.lists

\* Every pointer that build has made, in the lists, in its activations and in
\* what libmpv is handed, is to an allocation the storage owns at that moment.
PointersOwned ==
    LET ownsItems(list) ==
            /\ \A i \in DOMAIN list.values : Owned(list.values[i])
            /\ \A i \in DOMAIN list.keys : list.keys[i] \in DOMAIN storage.keys
    IN  /\ \A k \in DOMAIN calls : ownsItems(calls[k])
        /\ \A p \in DOMAIN storage.lists : ownsItems(storage.lists[p])
        /\ \A node \in pending : Owned(node.raw)

\* A list's length never makes libmpv read past its arrays, also when it does
\* not fit into a c_int.
LengthsBounded ==
    \A p \in DOMAIN storage.lists :
        LET list == storage.lists[p]
        IN  /\ list.num <= Len(list.values)
            /\ tree[p].kind = "map" => Len(list.keys) = Len(list.values)

\* A NUL anywhere in the tree is refused before libmpv is called, and only that.
NulRefused ==
    /\ phase = "refused" => HasNul
    /\ phase \in {"call", "returned"} => ~HasNul

\* A label as the other side may know it: a list has the caller's first items, with
\* their keys, and all of them if its length fits into a c_int.
FirstItems(label, whole) ==
    /\ label.kind = whole.kind /\ label.content = whole.content /\ label.size <= whole.size
    /\ whole.size < CIntSize \div 2 => label.size = whole.size
    /\ \A i \in DOMAIN label.keys : label.keys[i] = whole.keys[i]

\* libmpv reads a tree, and the caller's: only a list whose length does not fit is cut,
\* and no item is read that the list it belongs to, as read, does not have.
RoundTrip ==
    phase = "returned" =>
        /\ IsTree(read) /\ DOMAIN read \subseteq DOMAIN tree
        /\ \A p \in DOMAIN read : FirstItems(read[p], tree[p])
=============================================================================
