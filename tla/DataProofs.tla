------------------------------ MODULE DataProofs ------------------------------
(***************************************************************************)
(* The data that crosses the boundary to C, for values of every size: the  *)
(* pixels that render_software lets libmpv write, for every word size,     *)
(* surface and buffer, and the nodes that NodeStorage::build lays out, for *)
(* every tree, whatever its depth, its lists' lengths and the width of a   *)
(* c_int.                                                                  *)
(***************************************************************************)
EXTENDS SoftwareSurface, NodeCodec, SequenceTheorems, TLAPS

\* Multiplication is monotonic: an earlier row starts at a smaller offset.
LEMMA RowsAscend ==
    ASSUME NEW a \in Nat, NEW b \in Nat, NEW k \in Nat, a <= b
    PROVE  a * k <= b * k
<1>1. PICK d \in Nat : b = a + d
  <2>1. b - a \in Nat /\ b = a + (b - a)
    OBVIOUS
  <2>. QED BY <2>1
<1>2. b * k = a * k + d * k
  BY <1>1
<1>3. d * k \in Nat /\ a * k \in Nat
  OBVIOUS
<1>. QED BY <1>2, <1>3

\* The next row starts one stride further.
LEMMA NextRow ==
    ASSUME NEW a \in Nat, NEW k \in Nat
    PROVE  (a + 1) * k = a * k + k
OBVIOUS

\* The fields of a call.
LEMMA CallFields ==
    ASSUME NEW c \in Calls
    PROVE  /\ c.width \in Int /\ c.height \in Int /\ c.bpp \in Nat
           /\ c.stride \in Nat /\ c.stride < Word /\ c.len \in Nat /\ c.len < Word
<1>1. Word - 1 \in Nat
  BY ConstantsAssumption
<1>2. (Word - 1) \div 2 \in Nat /\ (Word - 1) \div 2 <= Word - 1
  BY <1>1
<1>3. c.width \in Int /\ c.height \in Int
  BY ConstantsAssumption DEF Calls
<1>4. c.bpp \in Nat
  BY ConstantsAssumption DEF Calls
<1>5. c.stride \in 0..(Word - 1) /\ c.len \in 0..((Word - 1) \div 2)
  BY DEF Calls
<1>. QED BY <1>1, <1>2, <1>3, <1>4, <1>5, ConstantsAssumption

\* What an accepted call's arguments satisfy stays with the call.
Accepted == outcome \in {"rendering", "error", "done"} => Accepts(call)
Refused == outcome = "refused" => ~Accepts(call)

\* The call is typed, and it goes on exactly if the checks accept it.
THEOREM Typing == Spec => [](TypeOK /\ Accepted /\ Refused)
<1>. USE ConstantsAssumption
<1>1. Init => TypeOK /\ Accepted /\ Refused
  BY DEF Init, TypeOK, Accepted, Refused
<1>2. TypeOK /\ Accepted /\ Refused /\ [Next]_vars => TypeOK' /\ Accepted' /\ Refused'
  <2>. SUFFICES ASSUME TypeOK, Accepted, Refused, [Next]_vars PROVE TypeOK' /\ Accepted' /\ Refused'
    OBVIOUS
  <2>. call.height \in Int
    BY CallFields DEF TypeOK
  <2>. USE DEF TypeOK, Accepted, Refused
  <2>1. CASE Check
    BY <2>1 DEF Check
  <2>2. CASE MpvRefuses
    BY <2>2 DEF MpvRefuses
  <2>3. CASE RenderRow
    BY <2>3 DEF RenderRow
  <2>4. CASE Rendered
    BY <2>4 DEF Rendered
  <2>5. CASE UNCHANGED vars
    BY <2>5 DEF vars
  <2>. QED BY <2>1, <2>2, <2>3, <2>4, <2>5 DEF Next
<1>. QED BY <1>1, <1>2, PTL DEF Spec

\* Every row libmpv writes lies inside the buffer (WritesInside).
THEOREM Bounds == Spec => []WritesInside
<1>1. TypeOK /\ Accepted => WritesInside
  <2>. SUFFICES ASSUME TypeOK, Accepted, outcome = "rendering", row < call.height
       PROVE  /\ row * call.stride >= 0
              /\ row * call.stride + RowBytes(call) <= call.len
              /\ row * call.stride + RowBytes(call) <= (row + 1) * call.stride
    BY DEF WritesInside
  <2>1. /\ call.height \in Nat /\ call.width \in Nat /\ call.stride \in Nat /\ call.len \in Nat
        /\ call.bpp \in Nat /\ row \in Nat /\ row + 1 <= call.height
    BY CallFields DEF TypeOK, Accepted, Accepts
  <2>2. RowBytes(call) <= call.stride /\ call.height * call.stride <= call.len
    BY <2>1 DEF Accepted, Accepts, AtLeastZero
  <2>3. (row + 1) * call.stride = row * call.stride + call.stride
    BY <2>1, NextRow
  <2>4. (row + 1) * call.stride <= call.height * call.stride
    BY <2>1, RowsAscend
  <2>5. row * call.stride \in Nat /\ (row + 1) * call.stride \in Nat
        /\ call.height * call.stride \in Nat /\ RowBytes(call) \in Nat
    BY <2>1 DEF RowBytes
  <2>. QED BY <2>1, <2>2, <2>3, <2>4, <2>5
<1>. QED BY <1>1, Typing, PTL

\* No valid call is refused (OnlyInvalidRefused).
THEOREM NoneTooMany == Spec => []OnlyInvalidRefused
<1>1. TypeOK /\ Refused => OnlyInvalidRefused
  <2>. SUFFICES ASSUME TypeOK, Refused, ~OnlyInvalidRefused PROVE FALSE
    OBVIOUS
  <2>1. /\ call.width \in Int /\ call.height \in Int /\ call.stride \in Nat /\ call.len \in Nat
        /\ call.bpp \in Nat /\ call.stride < Word /\ call.len < Word /\ Word \in Nat
    BY CallFields, ConstantsAssumption DEF TypeOK
  <2>2. call.stride * call.height \in Int /\ RowBytes(call) \in Int
    BY <2>1 DEF RowBytes
  <2>3. /\ ~Accepts(call) /\ call.width >= 0 /\ call.height >= 0
        /\ call.stride * call.height <= call.len /\ RowBytes(call) <= call.stride
    BY <2>1, <2>2 DEF OnlyInvalidRefused, Refused
  <2>4. AtLeastZero(call.height) = call.height
    BY <2>1, <2>3 DEF AtLeastZero
  <2>5. call.stride * call.height < Word /\ RowBytes(call) < Word
    BY <2>1, <2>2, <2>3
  <2>. QED BY <2>1, <2>2, <2>3, <2>4, <2>5 DEF Accepts
<1>. QED BY <1>1, Typing, PTL

-----------------------------------------------------------------------------
\* Nodes: types, and what holds of a step of build, of what it has stored and of
\* what libmpv has read.

Kinds == Scalars \cup Lists
Raws == [format : Kinds, u : Contents \cup Positions]
Activations == [at : Positions, values : Seq(Raws), keys : Seq(Positions)]

\* The raw node that build makes of the node at p.
RawOf(p) ==
    [format |-> tree[p].kind, u |-> IF tree[p].kind = "number" THEN tree[p].content ELSE p]

StorageTypeOK ==
    /\ storage = [texts |-> storage.texts, keys |-> storage.keys, lists |-> storage.lists]
    /\ \A p \in DOMAIN storage.lists :
        storage.lists[p].values \in Seq(Raws) /\ storage.lists[p].keys \in Seq(Positions)

CodecTypeOK ==
    /\ tree \in Trees /\ phase \in {"build", "refused", "call", "returned"}
    /\ calls \in Seq(Activations) /\ StorageTypeOK
    /\ read = [p \in DOMAIN read |-> read[p]]

\* The items so far of the list at p are those of the tree, and owned.
ItemsSound(p, list) ==
    /\ \A i \in 1..Len(list.values) : list.values[i] = RawOf(Kid(p, i)) /\ Owned(list.values[i])
    /\ \A i \in 1..Len(list.keys) : list.keys[i] = Kid(p, i) /\ Kid(p, i) \in DOMAIN storage.keys

KeyCount(p, n) == IF tree[p].kind = "map" THEN n ELSE 0

\* An activation with n items' keys.
CallSound(frame, n) ==
    /\ frame.at \in DOMAIN tree /\ ItemsSound(frame.at, frame)
    /\ Len(frame.values) <= tree[frame.at].size /\ Len(frame.keys) = KeyCount(frame.at, n)

BuildInv ==
    /\ phase # "build" => calls = <<>>
    /\ phase = "build" =>
        /\ calls # <<>> /\ calls[1].at = Root /\ pending = {} /\ read = <<>>
        /\ CallSound(Top, Len(Top.values))
        /\ \A k \in 1..(Len(calls) - 1) :
            /\ CallSound(calls[k], Len(calls[k].values) + 1)
            /\ Len(calls[k].values) < tree[calls[k].at].size
            /\ calls[k + 1].at = Kid(calls[k].at, Len(calls[k].values) + 1)

\* A list in the storage is the one of the node at p.
ListSound(p, list) ==
    /\ p \in DOMAIN tree /\ tree[p].kind \in Lists /\ list.num = AsCInt(tree[p].size)
    /\ Len(list.values) = tree[p].size /\ Len(list.keys) = KeyCount(p, tree[p].size)
    /\ ItemsSound(p, list)

StorageInv ==
    /\ \A p \in DOMAIN storage.texts :
        /\ p \in DOMAIN tree /\ storage.texts[p] = tree[p].content
        /\ tree[p].kind = "string" => tree[p].content \notin WithNul
    /\ \A p \in DOMAIN storage.lists : ListSound(p, storage.lists[p])
    /\ \A p \in DOMAIN tree : \A i \in 1..tree[p].size :
        tree[p].kind = "map" /\ Kid(p, i) \in DOMAIN storage.keys =>
            storage.keys[Kid(p, i)] = tree[p].keys[i] /\ tree[p].keys[i] \notin WithNul

\* A label as libmpv reads it.
CutSize(label) == IF label.kind \in Lists THEN Count(AsCInt(label.size)) ELSE 0
Cut(label) ==
    [kind |-> label.kind, content |-> label.content, size |-> CutSize(label),
     keys |-> IF label.kind = "map" THEN [i \in 1..CutSize(label) |-> label.keys[i]] ELSE <<>>]

Ahead == {node.at : node \in pending}
\* An item of a list that has been read.
IsReadItem(q) == \E p \in DOMAIN read : \E i \in 1..CutSize(tree[p]) : q = Kid(p, i)

ReadInv ==
    /\ \A node \in pending : node.at \in DOMAIN tree /\ node.raw = RawOf(node.at) /\ Owned(node.raw)
    /\ phase = "refused" => pending = {}
    /\ phase \in {"call", "returned"} =>
        /\ Root \in DOMAIN read \cup Ahead
        /\ \A p \in DOMAIN read :
            /\ p \in DOMAIN tree /\ read[p] = Cut(tree[p])
            /\ \A i \in 1..CutSize(tree[p]) : Kid(p, i) \in DOMAIN read \cup Ahead
        /\ \A q \in DOMAIN read \cup Ahead : q = Root \/ IsReadItem(q)
    /\ phase = "returned" => pending = {}

\* What is known of NULs: the root is owned only once all of the tree is.
NulInv ==
    /\ phase = "refused" => HasNul
    /\ phase = "call" => Owned(RawOf(Root))
    /\ phase = "returned" => ~HasNul

CodecInv == BuildInv /\ StorageInv /\ ReadInv /\ NulInv

-----------------------------------------------------------------------------
\* A remainder.
LEMMA Remainder ==
    ASSUME NEW m \in Nat, NEW c \in Nat \ {0}
    PROVE  m % c \in Nat /\ m % c <= m /\ (m < c => m % c = m)
OBVIOUS

\* A cast length is never longer than the length, and exact if it fits.
LEMMA CastBound ==
    ASSUME NEW n \in Nat
    PROVE  AsCInt(n) \in Int /\ AsCInt(n) <= n /\ (n < CIntSize \div 2 => AsCInt(n) = n)
<1>. DEFINE h == CIntSize \div 2
<1>1. CIntSize \in Nat \ {0} /\ h \in Nat /\ 2 * h = CIntSize
  BY CodecAssumption
<1>. HIDE DEF h
<1>2. n + h \in Nat
  BY <1>1
<1>3. (n + h) % CIntSize \in Nat /\ (n + h) % CIntSize <= n + h
      /\ (n + h < CIntSize => (n + h) % CIntSize = n + h)
  BY <1>1, <1>2, Remainder
<1>4. AsCInt(n) = ((n + h) % CIntSize) - h
  BY DEF AsCInt, h
<1>5. AsCInt(n) \in Int /\ AsCInt(n) <= n /\ (n < h => AsCInt(n) = n)
  BY <1>1, <1>3, <1>4
<1>. QED BY <1>5 DEF h

\* Different items have different positions.
LEMMA KidFacts ==
    ASSUME NEW p \in Positions, NEW i \in Nat \ {0}
    PROVE  /\ Kid(p, i) \in Positions
           /\ \A q \in Positions, j \in Nat \ {0} : Kid(p, i) = Kid(q, j) => p = q /\ i = j
<1>1. Kid(p, i) \in Positions
  BY DEF Kid, Positions
<1>2. ASSUME NEW q \in Positions, NEW j \in Nat \ {0}, Kid(p, i) = Kid(q, j)
      PROVE  p = q /\ i = j
  <2>1. Append(p, i) = Append(q, j)
    BY <1>2 DEF Kid
  <2>2. Len(p) = Len(q)
    BY <2>1 DEF Positions
  <2>3. i = j
    BY <2>1, <2>2 DEF Positions
  <2>4. \A k \in 1..Len(p) : p[k] = Append(p, i)[k] /\ q[k] = Append(q, j)[k]
    BY <2>2 DEF Positions
  <2>5. \A k \in 1..Len(p) : p[k] = q[k]
    BY <2>1, <2>4
  <2>. QED BY <2>2, <2>3, <2>5, SeqEqual DEF Positions
<1>. QED BY <1>1, <1>2

\* What the assumption says of the caller's tree.
LEMMA TreeFacts ==
    ASSUME CodecTypeOK
    PROVE  /\ Root \in DOMAIN tree /\ DOMAIN tree \subseteq Positions
           /\ \A p \in DOMAIN tree :
                /\ tree[p] \in Labels /\ tree[p].size \in Nat /\ tree[p].kind \in Kinds
                /\ tree[p].kind \in Scalars => tree[p].content \in Contents /\ tree[p].size = 0
                /\ tree[p].kind \in Lists => tree[p].content = "none"
                /\ tree[p] = [kind |-> tree[p].kind, content |-> tree[p].content,
                              size |-> tree[p].size, keys |-> tree[p].keys]
                /\ tree[p].kind # "map" => tree[p].keys = <<>>
                /\ tree[p].kind = "map" => tree[p].keys \in Seq(Contents) /\ Len(tree[p].keys) = tree[p].size
                /\ \A i \in 1..tree[p].size : Kid(p, i) \in DOMAIN tree
           /\ tree = [p \in DOMAIN tree |-> tree[p]]
           /\ \A S \in SUBSET DOMAIN tree :
                Root \in S /\ (\A p \in S : \A i \in 1..tree[p].size : Kid(p, i) \in S) => S = DOMAIN tree
<1>1. IsTree(tree)
  BY CodecAssumption DEF CodecTypeOK
<1>2. \A p \in DOMAIN tree : tree[p] \in Labels
  BY <1>1 DEF IsTree
<1>3. ASSUME NEW label \in Labels
      PROVE  /\ label.size \in Nat /\ label.kind \in Kinds
             /\ label.kind \in Scalars => label.content \in Contents /\ label.size = 0
             /\ label.kind \in Lists => label.content = "none"
             /\ label = [kind |-> label.kind, content |-> label.content,
                         size |-> label.size, keys |-> label.keys]
             /\ label.kind # "map" => label.keys = <<>>
             /\ label.kind = "map" => label.keys \in Seq(Contents) /\ Len(label.keys) = label.size
  BY DEF Labels, Kinds, Scalars, Lists
<1>4. tree = [p \in DOMAIN tree |-> tree[p]]
  BY <1>1 DEF IsTree
<1>. QED BY <1>1, <1>2, <1>3, <1>4 DEF IsTree

\* The kinds.
LEMMA KindFacts ==
    /\ Kinds = {"number", "string", "bytes", "array", "map"}
    /\ \A k \in Kinds : k \in Lists <=> k \in {"array", "map"}
    /\ Scalars \cap Lists = {}
BY DEF Kinds, Scalars, Lists

\* An activation with one more value or key.
LEMMA AddFacts ==
    ASSUME NEW frame \in Activations, NEW raw \in Raws, NEW key \in Positions
    PROVE  /\ AddValue(frame, raw) \in Activations /\ AddValue(frame, raw).at = frame.at
           /\ AddValue(frame, raw).keys = frame.keys
           /\ AddValue(frame, raw).values = Append(frame.values, raw)
           /\ AddKey(frame, key) \in Activations /\ AddKey(frame, key).at = frame.at
           /\ AddKey(frame, key).values = frame.values
           /\ AddKey(frame, key).keys = Append(frame.keys, key)
<1>. frame.values \in Seq(Raws) /\ frame.keys \in Seq(Positions)
  BY DEF Activations
<1>1. Append(frame.values, raw) \in Seq(Raws) /\ Append(frame.keys, key) \in Seq(Positions)
  OBVIOUS
<1>. QED BY <1>1 DEF Activations, AddValue, AddKey

\* One element of a sequence replaced.
LEMMA Updated ==
    ASSUME NEW E, NEW n \in Nat, NEW u \in Seq(E), Len(u) = n, NEW i \in 1..n, NEW e \in E,
           NEW t, t = [u EXCEPT ![i] = e]
    PROVE  /\ t \in Seq(E) /\ Len(t) = n
           /\ \A k \in 1..n : t[k] = IF k = i THEN e ELSE u[k]
<1>1. u \in [1..n -> E]
  OBVIOUS
<1>2. t \in [1..n -> E] /\ \A k \in 1..n : t[k] = IF k = i THEN e ELSE u[k]
  BY ONLY <1>1, i \in 1..n, e \in E, t = [u EXCEPT ![i] = e]
<1>. QED BY ONLY <1>2, n \in Nat

\* The innermost activation gone, its node appended to the values of the next one.
Popped(s, last, raw) == [SubSeq(s, 1, last) EXCEPT ![last] = AddValue(@, raw)]

LEMMA PopFacts ==
    ASSUME NEW s \in Seq(Activations), NEW raw \in Raws, NEW last \in Nat, last = Len(s) - 1, last > 0,
           NEW t, t = Popped(s, last, raw)
    PROVE  /\ t \in Seq(Activations) /\ Len(t) = last
           /\ \A k \in 1..(last - 1) : t[k] = s[k]
           /\ t[last] = AddValue(s[last], raw)
<1>. PICK u : u = SubSeq(s, 1, last)
  OBVIOUS
<1>1. u \in Seq(Activations) /\ Len(u) = last /\ \A k \in 1..last : u[k] = s[k]
  BY SubSeqProperties
<1>2. AddValue(s[last], raw) \in Activations
  <2>1. Root \in Positions
    BY DEF Positions, Root
  <2>2. last \in 1..Len(s)
    OBVIOUS
  <2>3. s[last] \in Activations
    BY <2>2, ElementOfSeq
  <2>4. \A frame \in Activations : AddValue(frame, raw) \in Activations
    BY <2>1, AddFacts
  <2>. QED BY <2>3, <2>4
<1>3. t = [u EXCEPT ![last] = AddValue(s[last], raw)]
  <2>1. t = [u EXCEPT ![last] = AddValue(u[last], raw)]
    BY Zenon DEF Popped
  <2>2. u[last] = s[last]
    BY <1>1
  <2>. QED BY <2>1, <2>2, Zenon
<1>. PICK longer : longer = AddValue(s[last], raw)
  OBVIOUS
<1>4. last \in 1..last /\ longer \in Activations /\ t = [u EXCEPT ![last] = longer]
  BY <1>2, <1>3
<1>5. /\ t \in Seq(Activations) /\ Len(t) = last
      /\ \A k \in 1..last : t[k] = IF k = last THEN longer ELSE u[k]
  BY ONLY <1>1, <1>4, last \in Nat, Updated
<1>6. \A k \in 1..(last - 1) : k \in 1..last /\ k # last
  OBVIOUS
<1>. QED BY <1>1, <1>4, <1>5, <1>6

\* The next item's activation pushed, on top of the one that waits for it.
Pushed(s, waiting, p) == Append([s EXCEPT ![Len(s)] = waiting], Activation(p))

LEMMA PushFacts ==
    ASSUME NEW s \in Seq(Activations), NEW waiting \in Activations, NEW p \in Positions,
           NEW deep \in Nat \ {0}, deep = Len(s), NEW t, t = Pushed(s, waiting, p)
    PROVE  /\ t \in Seq(Activations) /\ Len(t) = deep + 1
           /\ \A k \in 1..(deep - 1) : t[k] = s[k]
           /\ t[deep] = waiting /\ t[deep + 1] = Activation(p)
<1>. DEFINE u == [s EXCEPT ![Len(s)] = waiting]
<1>1. Len(s) \in 1..Len(s)
  BY EmptySeq
<1>2. u \in Seq(Activations) /\ Len(u) = Len(s)
      /\ \A k \in 1..Len(s) : u[k] = IF k = Len(s) THEN waiting ELSE s[k]
  BY <1>1, ExceptSeq
<1>3. Activation(p) \in Activations
  BY DEF Activation, Activations, Raws
<1>. HIDE DEF u
<1>4. t = Append(u, Activation(p))
  BY DEF u, Pushed
<1>. QED BY <1>1, <1>2, <1>3, <1>4, AppendProperties

-----------------------------------------------------------------------------
\* A step that takes nothing out of the storage.
Grows ==
    /\ tree' = tree
    /\ DOMAIN storage.texts \subseteq DOMAIN storage'.texts
    /\ DOMAIN storage.keys \subseteq DOMAIN storage'.keys
    /\ DOMAIN storage.lists \subseteq DOMAIN storage'.lists

\* What was sound stays so while the storage grows.
LEMMA SoundStays ==
    ASSUME Grows
    PROVE  /\ \A raw : Owned(raw) => Owned(raw)'
           /\ \A p : RawOf(p)' = RawOf(p)
           /\ \A p, list : ItemsSound(p, list) => ItemsSound(p, list)'
           /\ \A frame, n : CallSound(frame, n) => CallSound(frame, n)'
<1>1. ASSUME NEW raw, Owned(raw) PROVE Owned(raw)'
  BY <1>1 DEF Grows, Owned
<1>2. \A p : RawOf(p)' = RawOf(p)
  BY DEF Grows, RawOf
<1>3. ASSUME NEW p, NEW list, ItemsSound(p, list) PROVE ItemsSound(p, list)'
  BY <1>1, <1>2, <1>3 DEF ItemsSound, Grows
<1>4. ASSUME NEW frame, NEW n, CallSound(frame, n) PROVE CallSound(frame, n)'
  BY <1>3, <1>4 DEF CallSound, KeyCount, Grows
<1>. QED BY <1>1, <1>2, <1>3, <1>4

\* While build runs, its innermost activation is at a position of the tree.
LEMMA TopFacts ==
    ASSUME CodecTypeOK, BuildInv, phase = "build"
    PROVE  /\ calls \in Seq(Activations) /\ Len(calls) \in Nat \ {0} /\ Top \in Activations
           /\ Top.at \in DOMAIN tree /\ Top.at \in Positions
           /\ Len(Top.values) \in Nat /\ NextItem \in Nat \ {0}
           /\ Top.values \in Seq(Raws) /\ Top.keys \in Seq(Positions)
           /\ Label \in Labels /\ Label.size \in Nat /\ Label.kind \in Kinds
           /\ RawOf(Top.at) \in Raws
<1>1. calls \in Seq(Activations) /\ calls # <<>> /\ Top.at \in DOMAIN tree
  BY DEF CodecTypeOK, BuildInv, CallSound
<1>2. Len(calls) \in Nat \ {0} /\ Top \in Activations
  BY <1>1, EmptySeq, ElementOfSeq DEF Top
<1>3. Top.values \in Seq(Raws) /\ Top.keys \in Seq(Positions)
  BY <1>2 DEF Activations
<1>4. Len(Top.values) \in Nat /\ NextItem \in Nat \ {0}
  BY <1>3 DEF NextItem
<1>5. /\ Top.at \in Positions /\ Label \in Labels /\ Label.size \in Nat /\ Label.kind \in Kinds
      /\ Label.kind \in Scalars => Label.content \in Contents
  BY <1>1, TreeFacts DEF Label
<1>6. RawOf(Top.at) \in Raws
  BY <1>5 DEF RawOf, Raws, Label, Scalars
<1>. QED BY <1>1, <1>2, <1>3, <1>4, <1>5, <1>6

\* Where a finished node goes: to libmpv, or to the list that waits for it.
Hands(raw) ==
    \/ Len(calls) = 1 /\ phase' = "call" /\ calls' = <<>> /\ pending' = {[at |-> Root, raw |-> raw]}
    \/ /\ Len(calls) > 1 /\ UNCHANGED <<phase, pending>>
       /\ calls' = [SubSeq(calls, 1, Len(calls) - 1) EXCEPT ![Len(calls) - 1] = AddValue(@, raw)]

LEMMA ReturnHands ==
    ASSUME Len(calls) \in Nat, NEW u, Return(u), NEW raw, raw = [format |-> Label.kind, u |-> u]
    PROVE  Hands(raw)
<1>1. Len(calls) - 1 = 0 <=> Len(calls) = 1
  OBVIOUS
<1>2. Len(calls) - 1 > 0 <=> Len(calls) > 1
  OBVIOUS
<1>. QED BY ONLY <1>1, <1>2, Return(u), raw = [format |-> Label.kind, u |-> u], Zenon DEF Return, Hands

\* A finished node goes to the list that waits for it, or, at the root, to libmpv.
LEMMA ReturnKeeps ==
    ASSUME CodecTypeOK, BuildInv, phase = "build", Grows, read' = read,
           NEW raw, raw = RawOf(Top.at), Hands(raw), Owned(raw)'
    PROVE  /\ calls' \in Seq(Activations) /\ phase' \in {"build", "call"}
           /\ BuildInv' /\ ReadInv'
           /\ phase' = "call" => Owned(RawOf(Root))'
<1>1. /\ calls \in Seq(Activations) /\ Len(calls) \in Nat \ {0} /\ raw \in Raws
      /\ Top.at \in DOMAIN tree /\ Root \in DOMAIN tree
      /\ pending = {} /\ read = <<>> /\ calls[1].at = Root
  BY TopFacts, TreeFacts DEF BuildInv
<1>2. CASE Len(calls) = 1
  <2>1. phase' = "call" /\ calls' = <<>> /\ pending' = {[at |-> Root, raw |-> raw]}
    BY <1>1, <1>2 DEF Hands
  <2>2. Top.at = Root
    BY <1>1, <1>2 DEF Top
  <2>3. raw = RawOf(Root)' /\ Owned(raw)' /\ Owned(RawOf(Root))'
    BY <2>2, SoundStays
  <2>4. BuildInv'
    BY <2>1 DEF BuildInv
  <2>5. ReadInv'
    <3>. PICK node : node = [at |-> Root, raw |-> raw]
      OBVIOUS
    <3>1. pending' = {node} /\ node.at = Root /\ node.raw = raw /\ Ahead' = {Root}
      BY <2>1 DEF Ahead
    <3>2. DOMAIN read' = {} /\ tree' = tree /\ phase' = "call"
      BY <1>1, <2>1 DEF Grows
    <3>. QED BY <1>1, <2>3, <3>1, <3>2 DEF ReadInv
  <2>. QED BY <2>1, <2>3, <2>4, <2>5, EmptySeq
<1>3. CASE Len(calls) > 1
  <2>0. PICK last \in Nat \ {0} : last = Len(calls) - 1 /\ Len(calls) = last + 1
    <3>. DEFINE n == Len(calls)
    <3>1. n \in Nat /\ n > 1
      BY <1>1, <1>3
    <3>. HIDE DEF n
    <3>2. n - 1 \in Nat \ {0} /\ n = (n - 1) + 1
      BY <3>1
    <3>. QED BY <3>2 DEF n
  <2>1. calls' = Popped(calls, last, raw) /\ phase' = phase /\ pending' = pending
    BY <1>3, <2>0 DEF Hands, Popped
  <2>2. /\ calls' \in Seq(Activations) /\ Len(calls') = last
        /\ \A k \in 1..(last - 1) : calls'[k] = calls[k]
        /\ calls'[last] = AddValue(calls[last], raw)
    BY <1>1, <2>0, <2>1, PopFacts
  <2>. PICK parent : parent = calls[last]
    OBVIOUS
  <2>. PICK resumed : resumed = calls'[last]
    OBVIOUS
  <2>. PICK n : n = Len(parent.values)
    OBVIOUS
  <2>3. /\ parent \in Activations /\ CallSound(parent, n + 1)
        /\ n < tree[parent.at].size /\ Top.at = Kid(parent.at, n + 1)
    <3>1. last \in 1..(Len(calls) - 1) /\ calls[last + 1] = Top
      BY <2>0 DEF Top
    <3>. QED BY <1>1, <2>0, <3>1, ElementOfSeq DEF BuildInv
  <2>4. /\ resumed.at = parent.at /\ resumed.keys = parent.keys
        /\ resumed.values = Append(parent.values, raw)
    <3>1. Root \in Positions
      BY DEF Positions, Root
    <3>. QED BY <1>1, <2>2, <2>3, <3>1, AddFacts
  <2>5. parent.values \in Seq(Raws) /\ n \in Nat
    BY <2>3 DEF Activations
  <2>6. tree[parent.at].size \in Nat /\ parent.at \in DOMAIN tree /\ tree' = tree
    BY <2>3, TreeFacts DEF CallSound, Grows
  <2>7. ItemsSound(resumed.at, resumed)'
    <3>1. ItemsSound(parent.at, parent)'
      BY <2>3, SoundStays DEF CallSound
    <3>2. raw = RawOf(Kid(parent.at, n + 1))' /\ Owned(raw)'
      BY <2>3, SoundStays
    <3>3. \A i \in 1..(n + 1) : resumed.values[i] = IF i = n + 1 THEN raw ELSE parent.values[i]
      BY <1>1, <2>4, <2>5
    <3>4. Len(resumed.values) = n + 1
      BY <1>1, <2>4, <2>5
    <3>. QED BY <2>4, <2>5, <3>1, <3>2, <3>3, <3>4 DEF ItemsSound
  <2>8. CallSound(resumed, Len(resumed.values))'
    <3>1. Len(resumed.values) = n + 1
      BY <1>1, <2>4, <2>5
    <3>2. Len(parent.keys) = KeyCount(parent.at, n + 1) /\ n + 1 <= tree[parent.at].size
      BY <2>3, <2>5, <2>6 DEF CallSound
    <3>. QED BY <2>4, <2>6, <2>7, <3>1, <3>2 DEF CallSound, KeyCount
  <2>9. ASSUME NEW k \in 1..(last - 1)
        PROVE  /\ CallSound(calls[k], Len(calls[k].values) + 1)'
               /\ (Len(calls[k].values) < tree[calls[k].at].size)'
               /\ (calls[k + 1].at = Kid(calls[k].at, Len(calls[k].values) + 1))'
    <3>1. k \in 1..(Len(calls) - 1) /\ k + 1 \in 1..last
      BY <2>0
    <3>2. calls'[k] = calls[k] /\ calls'[k + 1].at = calls[k + 1].at
      <4>1. k + 1 = last \/ k + 1 \in 1..(last - 1)
        BY <2>0
      <4>. QED BY <2>2, <2>4, <4>1
    <3>3. /\ CallSound(calls[k], Len(calls[k].values) + 1)
          /\ Len(calls[k].values) < tree[calls[k].at].size
          /\ calls[k + 1].at = Kid(calls[k].at, Len(calls[k].values) + 1)
      BY <3>1 DEF BuildInv
    <3>4. CallSound(calls[k], Len(calls[k].values) + 1)'
      <4>. PICK frame : frame = calls[k]
        OBVIOUS
      <4>1. CallSound(frame, Len(frame.values) + 1)'
        BY <3>3, SoundStays
      <4>. QED BY <3>2, <4>1
    <3>. QED BY <2>6, <3>2, <3>3, <3>4
  <2>10. calls'[1].at = Root /\ calls' # <<>> /\ phase' = "build" /\ pending' = {} /\ read' = <<>>
    <3>1. last = 1 \/ 1 \in 1..(last - 1)
      BY <2>0
    <3>. QED BY <1>1, <2>0, <2>1, <2>2, <2>4, <3>1, EmptySeq
  <2>11. BuildInv'
    <3>1. Top' = resumed /\ Len(calls') = last
      BY <2>2 DEF Top
    <3>2. CallSound(Top, Len(Top.values))'
      BY <2>8, <3>1
    <3>. QED BY <2>9, <2>10, <3>1, <3>2 DEF BuildInv
  <2>12. ReadInv'
    BY <2>10 DEF ReadInv
  <2>. QED BY <2>2, <2>10, <2>11, <2>12
<1>4. Len(calls) = 1 \/ Len(calls) > 1
  <2>. PICK n : n = Len(calls)
    OBVIOUS
  <2>. QED BY <1>1
<1>. QED BY <1>2, <1>3, <1>4

-----------------------------------------------------------------------------
\* The storage with one part replaced.
LEMMA Replaced ==
    ASSUME CodecTypeOK, NEW part
    PROVE  /\ LET s == [storage EXCEPT !.texts = part]
              IN  s = [texts |-> part, keys |-> storage.keys, lists |-> storage.lists]
           /\ LET s == [storage EXCEPT !.keys = part]
              IN  s = [texts |-> storage.texts, keys |-> part, lists |-> storage.lists]
           /\ LET s == [storage EXCEPT !.lists = part]
              IN  s = [texts |-> storage.texts, keys |-> storage.keys, lists |-> part]
BY DEF CodecTypeOK, StorageTypeOK

\* The lists in the storage stay sound.
LEMMA ListsStay ==
    ASSUME Grows, StorageInv
    PROVE  /\ \A p, list : ListSound(p, list) => ListSound(p, list)'
           /\ \A p \in DOMAIN storage.lists : ListSound(p, storage.lists[p])
           /\ storage'.lists = storage.lists =>
                \A p \in DOMAIN storage'.lists : ListSound(p, storage.lists[p])'
<1>1. \A p, list : ListSound(p, list) => ListSound(p, list)'
  BY SoundStays DEF ListSound, Grows, KeyCount
<1>2. \A p \in DOMAIN storage.lists : ListSound(p, storage.lists[p])
  BY DEF StorageInv, ListSound
<1>3. ASSUME storage'.lists = storage.lists, NEW p \in DOMAIN storage'.lists
      PROVE  ListSound(p, storage.lists[p])'
  <2>. PICK list : list = storage.lists[p]
    OBVIOUS
  <2>1. ListSound(p, list)'
    BY <1>1, <1>2, <1>3
  <2>. QED BY <1>3, <2>1
<1>. QED BY <1>1, <1>2, <1>3

\* A string without NUL, or bytes, stored for the innermost activation.
LEMMA TextStored ==
    ASSUME CodecTypeOK, BuildInv, StorageInv, phase = "build", Label.kind \in {"string", "bytes"},
           Label.kind = "string" => CString(Label.content), tree' = tree,
           storage' = [storage EXCEPT !.texts = Put(storage.texts, Top.at, Label.content)]
    PROVE  Grows /\ StorageTypeOK' /\ StorageInv' /\ \A raw : raw = RawOf(Top.at) => Owned(raw)'
<1>. PICK p : p = Top.at
  OBVIOUS
<1>. PICK part : part = Put(storage.texts, p, tree[p].content)
  OBVIOUS
<1>1. storage'.texts = part /\ storage'.keys = storage.keys /\ storage'.lists = storage.lists
      /\ storage' = [texts |-> storage'.texts, keys |-> storage'.keys, lists |-> storage'.lists]
  BY Replaced DEF Label
<1>2. p \in DOMAIN tree /\ tree[p].kind \in {"string", "bytes"}
      /\ (tree[p].kind = "string" => tree[p].content \notin WithNul)
  BY TopFacts DEF Label, CString
<1>3. DOMAIN part = DOMAIN storage.texts \cup {p} /\ part[p] = tree[p].content
      /\ \A q \in DOMAIN storage.texts : q # p => part[q] = storage.texts[q]
  BY DEF Put
<1>4. Grows
  BY <1>1, <1>3 DEF Grows
<1>5. StorageTypeOK'
  BY <1>1 DEF CodecTypeOK, StorageTypeOK
<1>6. StorageInv'
  <2>1. ASSUME NEW q \in DOMAIN part
        PROVE  /\ q \in DOMAIN tree /\ part[q] = tree[q].content
               /\ tree[q].kind = "string" => tree[q].content \notin WithNul
    BY <1>2, <1>3 DEF StorageInv
  <2>. QED BY <1>1, <1>4, <2>1, ListsStay DEF StorageInv, Grows
<1>7. \A raw : raw = RawOf(Top.at) => Owned(raw)'
  BY <1>1, <1>2, <1>3, KindFacts DEF RawOf, Owned
<1>. QED BY <1>4, <1>5, <1>6, <1>7

\* A finished list, stored for the innermost activation.
LEMMA ListStored ==
    ASSUME CodecTypeOK, BuildInv, StorageInv, phase = "build", Label.kind \in Lists,
           NextItem > Label.size, tree' = tree,
           storage' = [storage EXCEPT !.lists = Put(storage.lists, Top.at,
                [num |-> AsCInt(Label.size), values |-> Top.values, keys |-> Top.keys])]
    PROVE  Grows /\ StorageTypeOK' /\ StorageInv' /\ \A raw : raw = RawOf(Top.at) => Owned(raw)'
<1>. PICK p : p = Top.at
  OBVIOUS
<1>. PICK list : list = [num |-> AsCInt(tree[p].size), values |-> Top.values, keys |-> Top.keys]
  OBVIOUS
<1>. PICK part : part = Put(storage.lists, p, list)
  OBVIOUS
<1>1. storage'.lists = part /\ storage'.keys = storage.keys /\ storage'.texts = storage.texts
      /\ storage' = [texts |-> storage'.texts, keys |-> storage'.keys, lists |-> storage'.lists]
  BY Replaced DEF Label
<1>2. p \in DOMAIN tree /\ tree[p].kind \in Lists /\ tree[p].size \in Nat
  BY TopFacts DEF Label
<1>3. DOMAIN part = DOMAIN storage.lists \cup {p} /\ part[p] = list
      /\ \A q \in DOMAIN storage.lists : q # p => part[q] = storage.lists[q]
  BY DEF Put
<1>4. Grows
  BY <1>1, <1>3 DEF Grows
<1>5. list.values \in Seq(Raws) /\ list.keys \in Seq(Positions) /\ list.num = AsCInt(tree[p].size)
  BY TopFacts
<1>6. StorageTypeOK'
  BY <1>1, <1>3, <1>5 DEF CodecTypeOK, StorageTypeOK
<1>7. Len(list.values) = tree[p].size /\ Len(list.keys) = KeyCount(p, tree[p].size)
      /\ ItemsSound(p, list)
  <2>1. CallSound(Top, Len(Top.values))
    BY DEF BuildInv
  <2>2. Len(Top.values) = tree[p].size
    <3>. PICK n : n = Len(Top.values)
      OBVIOUS
    <3>1. n \in Nat /\ n <= tree[p].size /\ n + 1 > tree[p].size
      BY <2>1, TopFacts DEF CallSound, NextItem, Label
    <3>. QED BY <1>2, <3>1
  <2>. QED BY <2>1, <2>2 DEF CallSound, ItemsSound
<1>8. StorageInv'
  <2>1. ListSound(p, list)'
    BY <1>2, <1>4, <1>5, <1>7, ListsStay DEF ListSound
  <2>2. ASSUME NEW q \in DOMAIN part PROVE ListSound(q, part[q])'
    <3>. PICK l : l = part[q]
      OBVIOUS
    <3>1. CASE q = p
      BY <1>3, <2>1, <3>1
    <3>2. CASE q # p
      <4>1. ListSound(q, l)'
        BY <1>3, <1>4, <3>2, ListsStay
      <4>. QED BY <4>1
    <3>. QED BY <3>1, <3>2
  <2>. QED BY <1>1, <1>4, <2>2 DEF StorageInv, Grows
<1>9. \A raw : raw = RawOf(Top.at) => Owned(raw)'
  BY <1>1, <1>2, <1>3, KindFacts DEF RawOf, Owned
<1>. QED BY <1>4, <1>6, <1>8, <1>9

\* An entry's key, stored before its value is built.
LEMMA KeyStored ==
    ASSUME CodecTypeOK, BuildInv, StorageInv, phase = "build", Label.kind = "map",
           NextItem <= Label.size, CString(Label.keys[NextItem]), tree' = tree,
           storage' = [storage EXCEPT !.keys = Put(storage.keys, Kid(Top.at, NextItem), Label.keys[NextItem])]
    PROVE  Grows /\ StorageTypeOK' /\ StorageInv' /\ Kid(Top.at, NextItem) \in DOMAIN storage'.keys
<1>. PICK p : p = Top.at
  OBVIOUS
<1>. PICK n : n = NextItem
  OBVIOUS
<1>. PICK kid : kid = Kid(p, n)
  OBVIOUS
<1>. PICK part : part = Put(storage.keys, kid, tree[p].keys[n])
  OBVIOUS
<1>1. storage'.keys = part /\ storage'.texts = storage.texts /\ storage'.lists = storage.lists
      /\ storage' = [texts |-> storage'.texts, keys |-> storage'.keys, lists |-> storage'.lists]
  BY Replaced DEF Label
<1>2. p \in DOMAIN tree /\ p \in Positions /\ tree[p].keys[n] \notin WithNul /\ n \in Nat \ {0}
  BY TopFacts DEF Label, CString
<1>3. DOMAIN part = DOMAIN storage.keys \cup {kid} /\ part[kid] = tree[p].keys[n]
      /\ \A q \in DOMAIN storage.keys : q # kid => part[q] = storage.keys[q]
  BY DEF Put
<1>4. Grows
  BY <1>1, <1>3 DEF Grows
<1>5. StorageTypeOK'
  BY <1>1 DEF CodecTypeOK, StorageTypeOK
<1>6. ASSUME NEW q \in DOMAIN tree, NEW i \in 1..tree[q].size, tree[q].kind = "map", Kid(q, i) \in DOMAIN part
      PROVE  part[Kid(q, i)] = tree[q].keys[i] /\ tree[q].keys[i] \notin WithNul
  <2>1. q \in Positions /\ i \in Nat \ {0}
    BY <1>6, TreeFacts
  <2>2. CASE Kid(q, i) = kid
    <3>1. q = p /\ i = n
      BY <1>2, <2>1, <2>2, KidFacts
    <3>. QED BY <1>2, <1>3, <2>2, <3>1
  <2>3. CASE Kid(q, i) # kid
    BY <1>3, <1>6, <2>3 DEF StorageInv
  <2>. QED BY <2>2, <2>3
<1>7. StorageInv'
  BY <1>1, <1>4, <1>6, ListsStay DEF StorageInv, Grows
<1>. QED BY <1>1, <1>3, <1>4, <1>5, <1>7

\* The next item's activation goes on top of the one that waits for it.
LEMMA PushKeeps ==
    ASSUME CodecTypeOK, BuildInv, ReadInv, phase = "build", Grows, read' = read, phase' = phase,
           pending' = pending, NEW waiting \in Activations, waiting.at = Top.at,
           waiting.values = Top.values, NEW n, n = NextItem, n <= Label.size,
           CallSound(waiting, n)', calls' = Pushed(calls, waiting, Kid(waiting.at, n))
    PROVE  calls' \in Seq(Activations) /\ BuildInv' /\ ReadInv'
<1>. PICK p : p = waiting.at
  OBVIOUS
<1>. PICK kid : kid = Kid(p, n)
  OBVIOUS
<1>. PICK deep : deep = Len(calls)
  OBVIOUS
<1>1. /\ calls \in Seq(Activations) /\ deep \in Nat \ {0} /\ n \in Nat \ {0} /\ calls # <<>>
      /\ Len(waiting.values) \in Nat /\ n = Len(waiting.values) + 1
      /\ p \in DOMAIN tree /\ p \in Positions /\ n <= tree[p].size /\ tree[p].size \in Nat
      /\ pending = {} /\ read = <<>> /\ calls[1].at = Root /\ tree' = tree
  BY TopFacts DEF BuildInv, NextItem, Label, Grows
<1>2. kid \in DOMAIN tree /\ kid \in Positions /\ tree[kid].size \in Nat
  BY <1>1, TreeFacts, KidFacts
<1>3. /\ calls' \in Seq(Activations) /\ Len(calls') = deep + 1
      /\ \A k \in 1..(deep - 1) : calls'[k] = calls[k]
      /\ calls'[deep] = waiting /\ calls'[deep + 1] = Activation(kid)
  <2>1. calls' = Pushed(calls, waiting, kid)
    OBVIOUS
  <2>. PICK t : t = calls'
    OBVIOUS
  <2>2. /\ t \in Seq(Activations) /\ Len(t) = deep + 1
        /\ \A k \in 1..(deep - 1) : t[k] = calls[k]
        /\ t[deep] = waiting /\ t[deep + 1] = Activation(kid)
    <3>1. calls \in Seq(Activations) /\ deep \in Nat \ {0} /\ deep = Len(calls) /\ kid \in Positions
      BY <1>1, <1>2
    <3>2. t = Pushed(calls, waiting, kid)
      BY <2>1
    <3>. PICK s : s = calls
      OBVIOUS
    <3>3. s \in Seq(Activations) /\ deep = Len(s) /\ t = Pushed(s, waiting, kid)
      BY ONLY <3>1, <3>2, s = calls
    <3>4. /\ t \in Seq(Activations) /\ Len(t) = deep + 1
          /\ \A k \in 1..(deep - 1) : t[k] = s[k]
          /\ t[deep] = waiting /\ t[deep + 1] = Activation(kid)
      BY ONLY <3>1, <3>3, waiting \in Activations, PushFacts
    <3>. QED BY ONLY <3>4, s = calls
  <2>. QED BY ONLY <2>2, t = calls'
<1>4. CallSound(Top, Len(Top.values))'
  <2>. PICK frame : frame = Activation(kid)
    OBVIOUS
  <2>1. frame.at = kid /\ frame.values = <<>> /\ frame.keys = <<>>
    BY DEF Activation
  <2>2. Len(frame.values) = 0 /\ Len(frame.keys) = 0
    BY <2>1
  <2>3. Top' = frame
    BY <1>3 DEF Top
  <2>4. CallSound(frame, 0)'
    BY <1>1, <1>2, <2>1, <2>2 DEF CallSound, ItemsSound, KeyCount
  <2>. QED BY <2>2, <2>3, <2>4
<1>5. ASSUME NEW k \in 1..deep
      PROVE  /\ CallSound(calls[k], Len(calls[k].values) + 1)'
             /\ (Len(calls[k].values) < tree[calls[k].at].size)'
             /\ (calls[k + 1].at = Kid(calls[k].at, Len(calls[k].values) + 1))'
  <2>1. CASE k = deep
    <3>1. calls'[k] = waiting /\ calls'[k + 1].at = kid
      BY <1>3, <2>1 DEF Activation
    <3>2. CallSound(calls[k], Len(calls[k].values) + 1)'
      BY <1>1, <3>1
    <3>3. Len(waiting.values) < tree[p].size
      <4>. PICK m : m = Len(waiting.values)
        OBVIOUS
      <4>. QED BY <1>1
    <3>. QED BY <1>1, <3>1, <3>2, <3>3
  <2>2. CASE k # deep
    <3>1. k \in 1..(deep - 1)
      BY <1>1, <2>2
    <3>2. calls'[k] = calls[k] /\ calls'[k + 1].at = calls[k + 1].at
      <4>1. k + 1 = deep \/ k + 1 \in 1..(deep - 1)
        BY <1>1, <3>1
      <4>2. calls[deep].at = waiting.at
        BY DEF Top
      <4>. QED BY <1>3, <3>1, <4>1, <4>2
    <3>3. /\ CallSound(calls[k], Len(calls[k].values) + 1)
          /\ Len(calls[k].values) < tree[calls[k].at].size
          /\ calls[k + 1].at = Kid(calls[k].at, Len(calls[k].values) + 1)
      BY <3>1 DEF BuildInv
    <3>4. CallSound(calls[k], Len(calls[k].values) + 1)'
      <4>. PICK frame : frame = calls[k]
        OBVIOUS
      <4>1. CallSound(frame, Len(frame.values) + 1)'
        BY <3>3, SoundStays
      <4>. QED BY <3>2, <4>1
    <3>. QED BY <1>1, <3>2, <3>3, <3>4
  <2>. QED BY <2>1, <2>2
<1>6. calls'[1].at = Root /\ calls' # <<>>
  <2>1. deep = 1 \/ 1 \in 1..(deep - 1)
    BY <1>1
  <2>2. calls[deep].at = waiting.at
    BY DEF Top
  <2>3. Len(calls') # 0
    BY <1>1, <1>3
  <2>. QED BY <1>1, <1>3, <2>1, <2>2, <2>3
<1>7. BuildInv'
  <2>1. Len(calls') - 1 = deep
    BY <1>1, <1>3
  <2>. QED BY <1>1, <1>4, <1>5, <1>6, <2>1 DEF BuildInv
<1>8. ReadInv'
  BY <1>1 DEF ReadInv
<1>. QED BY <1>3, <1>7, <1>8

\* The loop over a list's items builds the next one.
LEMMA BuildItemKeeps ==
    ASSUME CodecTypeOK, CodecInv, BuildItem
    PROVE  CodecTypeOK' /\ CodecInv'
<1>. PICK frame : frame = Top
  OBVIOUS
<1>. PICK n : n = NextItem
  OBVIOUS
<1>. PICK kid : kid = Kid(frame.at, n)
  OBVIOUS
<1>1. /\ BuildInv /\ StorageInv /\ ReadInv /\ phase = "build" /\ n <= Label.size
      /\ tree' = tree /\ phase' = phase /\ pending' = pending /\ read' = read
      /\ CallSound(frame, Len(frame.values))
  BY DEF CodecInv, BuildItem, BuildInv
<1>2. /\ calls \in Seq(Activations) /\ Len(calls) \in Nat \ {0} /\ frame \in Activations
      /\ frame.at \in DOMAIN tree /\ frame.at \in Positions /\ n \in Nat \ {0} /\ kid \in Positions
      /\ Len(frame.values) \in Nat /\ n = Len(frame.values) + 1 /\ tree[frame.at].size \in Nat
      /\ tree[frame.at].size = Label.size
  BY <1>1, TopFacts, KidFacts DEF NextItem, Label
<1>3. CASE Label.kind = "array"
  <2>1. calls' = Append(calls, Activation(kid)) /\ storage' = storage
    BY <1>3 DEF BuildItem
  <2>2. [calls EXCEPT ![Len(calls)] = frame] = calls
    BY <1>2 DEF Top
  <2>3. calls' = Pushed(calls, frame, kid)
    BY <2>1, <2>2 DEF Pushed
  <2>4. Grows
    BY <1>1, <2>1 DEF Grows
  <2>5. CallSound(frame, n)
    BY <1>1, <1>2, <1>3 DEF CallSound, KeyCount, Label
  <2>6. CallSound(frame, n)'
    BY <2>4, <2>5, SoundStays
  <2>7. calls' \in Seq(Activations) /\ BuildInv' /\ ReadInv'
    BY <1>1, <1>2, <2>3, <2>4, <2>6, PushKeeps
  <2>8. StorageTypeOK' /\ StorageInv'
    <3>1. StorageTypeOK'
      BY <2>1 DEF CodecTypeOK, StorageTypeOK
    <3>2. StorageInv'
      BY <1>1, <2>1, <2>4, ListsStay DEF StorageInv
    <3>. QED BY <3>1, <3>2
  <2>. QED BY <1>1, <2>7, <2>8 DEF CodecTypeOK, CodecInv, NulInv
<1>4. CASE Label.kind = "map"
  <2>. PICK waiting : waiting = AddKey(frame, kid)
    OBVIOUS
  <2>1. /\ storage' = [storage EXCEPT !.keys = Put(storage.keys, Kid(Top.at, NextItem), Label.keys[NextItem])]
        /\ CString(Label.keys[NextItem])
        /\ calls' = Append([calls EXCEPT ![Len(calls)] = AddKey(calls[Len(calls)], kid)], Activation(kid))
    BY <1>4 DEF BuildItem
  <2>2. Grows /\ StorageTypeOK' /\ StorageInv' /\ kid \in DOMAIN storage'.keys
    BY <1>1, <1>4, <2>1, KeyStored
  <2>3. /\ waiting \in Activations /\ waiting.at = frame.at /\ waiting.values = frame.values
        /\ waiting.keys = Append(frame.keys, kid)
    <3>1. RawOf(Top.at) \in Raws
      BY <1>1, TopFacts
    <3>. QED BY <1>2, <3>1, AddFacts
  <2>4. calls' = Pushed(calls, waiting, kid)
    BY <2>1 DEF Pushed, Top
  <2>5. CallSound(waiting, n)'
    <3>1. CallSound(frame, Len(frame.values))'
      BY <1>1, <2>2, SoundStays
    <3>2. frame.keys \in Seq(Positions) /\ Len(frame.keys) = Len(frame.values) /\ tree' = tree
          /\ tree[frame.at].kind = "map" /\ n <= tree[frame.at].size
      BY <1>1, <1>2, <1>4 DEF Activations, CallSound, KeyCount, Label
    <3>3. Len(waiting.keys) = n
          /\ \A i \in 1..n : waiting.keys[i] = IF i = n THEN kid ELSE frame.keys[i]
      BY <1>2, <2>3, <3>2
    <3>4. ItemsSound(waiting.at, waiting)'
      BY <1>2, <2>2, <2>3, <3>1, <3>2, <3>3 DEF CallSound, ItemsSound
    <3>. QED BY <1>2, <2>3, <3>1, <3>2, <3>3, <3>4 DEF CallSound, KeyCount
  <2>6. calls' \in Seq(Activations) /\ BuildInv' /\ ReadInv'
    BY <1>1, <1>2, <2>2, <2>3, <2>4, <2>5, PushKeeps
  <2>. QED BY <1>1, <2>2, <2>6 DEF CodecTypeOK, CodecInv, NulInv
<1>. QED BY <1>3, <1>4 DEF BuildItem

\* A node that is finished and stored is returned.
LEMMA FinishKeeps ==
    ASSUME CodecTypeOK, CodecInv, phase = "build", read' = read,
           Grows, StorageTypeOK', StorageInv',
           NEW u, Return(u), NEW raw, raw = [format |-> Label.kind, u |-> u],
           raw = RawOf(Top.at), Owned(raw)'
    PROVE  CodecTypeOK' /\ CodecInv'
<1>1. BuildInv /\ Len(calls) \in Nat
  BY TopFacts DEF CodecInv
<1>2. Hands(raw)
  BY <1>1, ReturnHands
<1>3. /\ calls' \in Seq(Activations) /\ phase' \in {"build", "call"}
      /\ BuildInv' /\ ReadInv'
      /\ phase' = "call" => Owned(RawOf(Root))'
  BY <1>1, <1>2, ReturnKeeps
<1>4. NulInv'
  BY <1>3 DEF NulInv
<1>5. read' = [p \in DOMAIN read' |-> read'[p]] /\ tree' \in Trees
  BY DEF CodecTypeOK, Grows
<1>. QED BY <1>3, <1>4, <1>5 DEF CodecTypeOK, CodecInv

\* A number is in the raw node itself.
LEMMA BuildNumberKeeps ==
    ASSUME CodecTypeOK, CodecInv, BuildNumber
    PROVE  CodecTypeOK' /\ CodecInv'
<1>1. phase = "build" /\ Label.kind = "number" /\ Return(Label.content)
      /\ tree' = tree /\ storage' = storage /\ read' = read
  BY DEF BuildNumber
<1>2. Grows
  BY <1>1 DEF Grows
<1>3. StorageTypeOK' /\ StorageInv'
  <2>1. StorageTypeOK'
    BY <1>1 DEF CodecTypeOK, StorageTypeOK
  <2>2. StorageInv'
    BY <1>1, <1>2, ListsStay DEF CodecInv, StorageInv
  <2>. QED BY <2>1, <2>2
<1>. PICK u : u = Label.content
  OBVIOUS
<1>. PICK raw : raw = [format |-> Label.kind, u |-> u]
  OBVIOUS
<1>4. raw = RawOf(Top.at) /\ raw.format = "number"
  BY <1>1 DEF RawOf, Label
<1>5. Owned(raw)'
  BY <1>4 DEF Owned, Lists
<1>6. Return(u)
  BY <1>1
<1>. QED BY <1>1, <1>2, <1>3, <1>4, <1>5, <1>6, FinishKeeps

\* A string or bytes.
LEMMA BuildTextKeeps ==
    ASSUME CodecTypeOK, CodecInv, BuildText
    PROVE  CodecTypeOK' /\ CodecInv'
<1>1. phase = "build" /\ Label.kind \in {"string", "bytes"} /\ Return(Top.at)
      /\ (Label.kind = "string" => CString(Label.content)) /\ tree' = tree /\ read' = read
      /\ storage' = [storage EXCEPT !.texts = Put(storage.texts, Top.at, Label.content)]
  BY DEF BuildText
<1>. PICK u : u = Top.at
  OBVIOUS
<1>. PICK raw : raw = [format |-> Label.kind, u |-> u]
  OBVIOUS
<1>2. raw = RawOf(Top.at)
  BY <1>1 DEF RawOf, Label
<1>3. Grows /\ StorageTypeOK' /\ StorageInv' /\ Owned(raw)'
  BY <1>1, <1>2, TextStored DEF CodecInv
<1>4. Return(u)
  BY <1>1
<1>. QED BY <1>1, <1>2, <1>3, <1>4, FinishKeeps

\* A list after its last item.
LEMMA BuildListKeeps ==
    ASSUME CodecTypeOK, CodecInv, BuildList
    PROVE  CodecTypeOK' /\ CodecInv'
<1>1. phase = "build" /\ Label.kind \in Lists /\ NextItem > Label.size /\ Return(Top.at)
      /\ tree' = tree /\ read' = read
      /\ storage' = [storage EXCEPT !.lists = Put(storage.lists, Top.at,
                [num |-> AsCInt(Label.size), values |-> Top.values, keys |-> Top.keys])]
  BY DEF BuildList
<1>. PICK u : u = Top.at
  OBVIOUS
<1>. PICK raw : raw = [format |-> Label.kind, u |-> u]
  OBVIOUS
<1>2. raw = RawOf(Top.at)
  BY <1>1 DEF RawOf, Label, Lists
<1>3. Grows /\ StorageTypeOK' /\ StorageInv' /\ Owned(raw)'
  BY <1>1, <1>2, ListStored DEF CodecInv
<1>4. Return(u)
  BY <1>1
<1>. QED BY <1>1, <1>2, <1>3, <1>4, FinishKeeps

\* A NUL, before which nothing has been handed to libmpv.
LEMMA RefuseKeeps ==
    ASSUME CodecTypeOK, CodecInv, Refuse
    PROVE  CodecTypeOK' /\ CodecInv'
<1>1. /\ BuildInv /\ StorageInv /\ phase = "build" /\ pending = {} /\ read = <<>>
      /\ tree' = tree /\ phase' = "refused" /\ calls' = <<>> /\ storage' = NoStorage
      /\ pending' = pending /\ read' = read
  BY DEF CodecInv, BuildInv, Refuse
<1>2. PICK p \in DOMAIN tree : p = Top.at
  BY <1>1, TopFacts
<1>3. HasNul
  <2>1. CASE Label.kind = "string" /\ ~CString(Label.content)
    BY <1>2, <2>1 DEF HasNul, Label, CString, StorageInv
  <2>2. CASE Label.kind = "map" /\ NextItem <= Label.size /\ ~CString(Label.keys[NextItem])
    <3>. PICK n : n = NextItem
      OBVIOUS
    <3>1. n \in Nat \ {0} /\ n <= tree[p].size /\ tree[p].kind = "map"
      BY <1>1, <1>2, <2>2, TopFacts DEF Label
    <3>2. tree[p].keys \in Seq(Contents) /\ Len(tree[p].keys) = tree[p].size /\ tree[p].size \in Nat
      BY <3>1, TreeFacts
    <3>3. n \in DOMAIN tree[p].keys
      BY <3>1, <3>2
    <3>4. tree[p].keys[n] \in WithNul
      BY <1>2, <2>2 DEF Label, CString
    <3>. QED BY <3>3, <3>4 DEF HasNul
  <2>. QED BY <2>1, <2>2 DEF Refuse
<1>4. CodecTypeOK' /\ StorageInv'
  <2>1. storage'.texts = <<>> /\ storage'.keys = <<>> /\ storage'.lists = <<>>
        /\ storage' = [texts |-> storage'.texts, keys |-> storage'.keys, lists |-> storage'.lists]
    BY <1>1 DEF NoStorage
  <2>2. DOMAIN storage'.texts = {} /\ DOMAIN storage'.keys = {} /\ DOMAIN storage'.lists = {}
    BY <2>1
  <2>3. StorageTypeOK' /\ StorageInv'
    BY <2>1, <2>2 DEF StorageTypeOK, StorageInv
  <2>. QED BY <1>1, <2>3 DEF CodecTypeOK
<1>. QED BY <1>1, <1>3, <1>4 DEF CodecInv, BuildInv, ReadInv, NulInv, HasNul

-----------------------------------------------------------------------------
\* What libmpv reads of an owned node: its label, cut to the cast length, and its
\* items, which are owned too.
LEMMA ReadsCut ==
    ASSUME CodecTypeOK, StorageInv, NEW p \in DOMAIN tree, NEW raw, raw = RawOf(p), Owned(raw)
    PROVE  /\ FromRaw(raw) = Cut(tree[p])
           /\ Items(raw) = CutSize(tree[p])
           /\ \A i \in 1..CutSize(tree[p]) :
                /\ Kid(p, i) \in DOMAIN tree
                /\ storage.lists[raw.u].values[i] = RawOf(Kid(p, i))
                /\ Owned(storage.lists[raw.u].values[i])
<1>. PICK label : label = tree[p]
  OBVIOUS
<1>1. /\ raw.format = label.kind /\ (label.kind = "number" => raw.u = label.content)
      /\ (label.kind # "number" => raw.u = p)
  BY DEF RawOf
<1>2. /\ label.kind \in Kinds /\ label.size \in Nat
      /\ (label.kind \in Scalars => label.size = 0)
      /\ (label.kind \in Lists => label.content = "none")
  BY TreeFacts
<1>3. CASE label.kind = "number"
  BY <1>1, <1>3, KindFacts DEF FromRaw, Items, Cut, CutSize
<1>4. CASE label.kind \in {"string", "bytes"}
  <2>1. storage.texts[p] = label.content
    BY <1>1, <1>4 DEF Owned, StorageInv
  <2>. QED BY <1>1, <1>4, <2>1, KindFacts DEF FromRaw, Items, Cut, CutSize
<1>5. CASE label.kind \in Lists
  <2>. PICK list : list = storage.lists[p]
    OBVIOUS
  <2>. PICK n : n = Count(AsCInt(label.size))
    OBVIOUS
  <2>1. raw.u = p /\ ListSound(p, list)
    BY <1>1, <1>5, KindFacts DEF Owned, StorageInv
  <2>2. list.num = AsCInt(label.size) /\ ItemsSound(p, list)
        /\ Len(list.values) = label.size /\ Len(list.keys) = KeyCount(p, label.size)
    BY <2>1 DEF ListSound
  <2>3. n \in Nat /\ n <= label.size
    BY <1>2, CastBound DEF Count
  <2>4. Items(raw) = n /\ CutSize(label) = n
    BY <1>1, <1>5, <2>1, <2>2 DEF Items, CutSize
  <2>5. ASSUME NEW i \in 1..n
        PROVE  /\ Kid(p, i) \in DOMAIN tree
               /\ list.values[i] = RawOf(Kid(p, i)) /\ Owned(list.values[i])
               /\ label.kind = "map" => storage.keys[list.keys[i]] = label.keys[i]
    <3>1. i \in 1..label.size
      BY <1>2, <2>3
    <3>2. label.kind = "map" => i \in 1..Len(list.keys)
      BY <2>2, <3>1 DEF KeyCount
    <3>3. Kid(p, i) \in DOMAIN tree
      BY <3>1, TreeFacts
    <3>4. list.values[i] = RawOf(Kid(p, i)) /\ Owned(list.values[i])
      BY <2>2, <3>1 DEF ItemsSound
    <3>5. label.kind = "map" => list.keys[i] = Kid(p, i) /\ Kid(p, i) \in DOMAIN storage.keys
      BY <2>2, <3>2 DEF ItemsSound
    <3>. QED BY <3>1, <3>3, <3>4, <3>5 DEF StorageInv
  <2>6. FromRaw(raw) = [kind |-> label.kind, content |-> "none", size |-> n,
            keys |-> IF label.kind = "map" THEN [i \in 1..n |-> storage.keys[list.keys[i]]] ELSE <<>>]
    BY <1>1, <1>5, <2>1, <2>2, KindFacts DEF FromRaw
  <2>7. label.kind = "map" =>
            [i \in 1..n |-> storage.keys[list.keys[i]]] = [i \in 1..n |-> label.keys[i]]
    BY <2>5
  <2>8. FromRaw(raw) = Cut(label)
    BY <1>2, <1>5, <2>4, <2>6, <2>7 DEF Cut
  <2>. QED BY <2>1, <2>4, <2>5, <2>8
<1>. QED BY <1>2, <1>3, <1>4, <1>5, KindFacts

\* libmpv reads a node, and comes to know of its items.
LEMMA ReadNodeKeeps ==
    ASSUME CodecTypeOK, CodecInv, ReadNode
    PROVE  CodecTypeOK' /\ CodecInv'
<1>1. /\ BuildInv /\ StorageInv /\ ReadInv /\ phase = "call" /\ Owned(RawOf(Root))
      /\ tree' = tree /\ phase' = phase /\ calls' = calls /\ storage' = storage
  BY DEF CodecInv, NulInv, ReadNode
<1>2. PICK node \in pending :
        /\ read' = Put(read, node.at, FromRaw(node.raw))
        /\ pending' = (pending \ {node}) \cup
            {[at |-> Kid(node.at, i), raw |-> storage.lists[node.raw.u].values[i]] :
                i \in 1..Items(node.raw)}
  BY DEF ReadNode
<1>. PICK p : p = node.at
  OBVIOUS
<1>. PICK kids : kids = {[at |-> Kid(p, i), raw |-> storage.lists[node.raw.u].values[i]] : i \in 1..CutSize(tree[p])}
  OBVIOUS
<1>3. p \in DOMAIN tree /\ node.raw = RawOf(p) /\ Owned(node.raw)
  BY <1>1 DEF ReadInv
<1>4. /\ FromRaw(node.raw) = Cut(tree[p]) /\ Items(node.raw) = CutSize(tree[p])
      /\ \A i \in 1..CutSize(tree[p]) :
            /\ Kid(p, i) \in DOMAIN tree
            /\ storage.lists[node.raw.u].values[i] = RawOf(Kid(p, i))
            /\ Owned(storage.lists[node.raw.u].values[i])
  BY <1>1, <1>3, ReadsCut
<1>5. pending' = (pending \ {node}) \cup kids
  BY <1>2, <1>4
<1>6. /\ DOMAIN read' = DOMAIN read \cup {p} /\ read'[p] = Cut(tree[p])
      /\ \A q \in DOMAIN read : q # p => read'[q] = read[q]
      /\ read' = [q \in DOMAIN read' |-> read'[q]]
  BY <1>2, <1>4 DEF Put
<1>7. Grows
  BY <1>1 DEF Grows
<1>8. \A kid \in kids : kid.at \in DOMAIN tree /\ kid.raw = RawOf(kid.at) /\ Owned(kid.raw)
  BY <1>4
<1>9. \A other \in pending' :
        other.at \in DOMAIN tree /\ other.raw = RawOf(other.at) /\ Owned(other.raw)
  BY <1>1, <1>5, <1>8 DEF ReadInv
<1>10. Ahead \subseteq Ahead' \cup {p}
  BY <1>5 DEF Ahead
<1>11. \A i \in 1..CutSize(tree[p]) : Kid(p, i) \in Ahead'
  <2>1. ASSUME NEW i \in 1..CutSize(tree[p]) PROVE Kid(p, i) \in Ahead'
    <3>. PICK kid : kid = [at |-> Kid(p, i), raw |-> storage.lists[node.raw.u].values[i]]
      OBVIOUS
    <3>1. kid \in pending' /\ kid.at = Kid(p, i)
      BY <1>5
    <3>. QED BY <3>1 DEF Ahead
  <2>. QED BY <2>1
<1>12. ReadInv'
  <2>1. Root \in DOMAIN read' \cup Ahead'
    BY <1>1, <1>6, <1>10 DEF ReadInv
  <2>2. ASSUME NEW q \in DOMAIN read'
        PROVE  /\ q \in DOMAIN tree /\ read'[q] = Cut(tree[q])
               /\ \A i \in 1..CutSize(tree[q]) : Kid(q, i) \in DOMAIN read' \cup Ahead'
    <3>1. CASE q = p
      BY <1>3, <1>6, <1>11, <3>1
    <3>2. CASE q # p
      <4>1. q \in DOMAIN read /\ read'[q] = read[q]
        BY <1>6, <3>2
      <4>2. q \in DOMAIN tree /\ read[q] = Cut(tree[q])
            /\ \A i \in 1..CutSize(tree[q]) : Kid(q, i) \in DOMAIN read \cup Ahead
        BY <1>1, <4>1 DEF ReadInv
      <4>. QED BY <1>6, <1>10, <4>1, <4>2
    <3>. QED BY <3>1, <3>2
  <2>3. \A other \in pending' :
            other.at \in DOMAIN tree /\ other.raw = RawOf(other.at)' /\ Owned(other.raw)'
    BY <1>7, <1>9, SoundStays
  <2>4. \A q \in DOMAIN read' : Cut(tree[q])' = Cut(tree[q]) /\ CutSize(tree[q])' = CutSize(tree[q])
    BY <1>1
  <2>5. ASSUME NEW q \in DOMAIN read' \cup Ahead', q # Root PROVE IsReadItem(q)'
    <3>1. CASE q \in DOMAIN read \cup Ahead
      <4>1. PICK parent \in DOMAIN read : \E i \in 1..CutSize(tree[parent]) : q = Kid(parent, i)
        BY <1>1, <2>5, <3>1 DEF ReadInv, IsReadItem
      <4>2. parent \in DOMAIN read' /\ CutSize(tree[parent])' = CutSize(tree[parent])
        BY <1>1, <1>6
      <4>. QED BY <1>1, <4>1, <4>2 DEF IsReadItem
    <3>2. CASE q \notin DOMAIN read \cup Ahead
      <4>1. p \in Ahead
        BY DEF Ahead
      <4>2. q \in Ahead'
        BY <1>6, <2>5, <3>2, <4>1
      <4>3. PICK other \in pending' : other.at = q
        BY <4>2 DEF Ahead
      <4>4. other \in kids
        BY <1>5, <3>2, <4>3 DEF Ahead
      <4>5. PICK i \in 1..CutSize(tree[p]) : q = Kid(p, i)
        BY <4>3, <4>4
      <4>. QED BY <1>1, <1>6, <4>5 DEF IsReadItem
    <3>. QED BY <3>1, <3>2
  <2>. QED BY <1>1, <2>1, <2>2, <2>3, <2>4, <2>5 DEF ReadInv
<1>13. BuildInv' /\ StorageInv' /\ StorageTypeOK'
  <2>1. BuildInv'
    BY <1>1 DEF BuildInv
  <2>2. StorageInv'
    BY <1>1, <1>7, ListsStay DEF StorageInv
  <2>3. StorageTypeOK'
    BY <1>1 DEF CodecTypeOK, StorageTypeOK
  <2>. QED BY <2>1, <2>2, <2>3
<1>14. NulInv'
  <2>. PICK raw : raw = RawOf(Root)
    OBVIOUS
  <2>1. Owned(raw)' /\ raw = RawOf(Root)'
    BY <1>1, <1>7, SoundStays
  <2>. QED BY <1>1, <2>1 DEF NulInv
<1>. QED BY <1>1, <1>6, <1>12, <1>13, <1>14 DEF CodecTypeOK, CodecInv

\* A tree whose root is owned has no NUL: owned nodes have owned items, and every
\* node is an item of an item of the root.
LEMMA Clean ==
    ASSUME CodecTypeOK, StorageInv, Owned(RawOf(Root))
    PROVE  ~HasNul
<1>. DEFINE S == {p \in DOMAIN tree : Owned(RawOf(p))}
<1>1. ASSUME NEW p \in S, tree[p].kind \in Lists
      PROVE  ListSound(p, storage.lists[p])
  BY <1>1, KindFacts DEF RawOf, Owned, StorageInv
<1>2. ASSUME NEW p \in S, NEW i \in 1..tree[p].size PROVE Kid(p, i) \in S
  <2>1. tree[p].kind \in Lists
    BY TreeFacts DEF Kinds
  <2>2. ItemsSound(p, storage.lists[p]) /\ Len(storage.lists[p].values) = tree[p].size
    BY <1>1, <2>1 DEF ListSound
  <2>3. Owned(RawOf(Kid(p, i)))
    BY <2>2 DEF ItemsSound
  <2>. QED BY <2>3, TreeFacts
<1>3. S = DOMAIN tree
  <2>1. Root \in S
    BY TreeFacts
  <2>2. S \in SUBSET DOMAIN tree
    OBVIOUS
  <2>. HIDE DEF S
  <2>. QED BY <1>2, <2>1, <2>2, TreeFacts
<1>4. ASSUME NEW p \in DOMAIN tree, tree[p].kind = "string" PROVE tree[p].content \notin WithNul
  <2>1. p \in DOMAIN storage.texts
    BY <1>3, <1>4 DEF RawOf, Owned
  <2>. QED BY <1>4, <2>1 DEF StorageInv
<1>5. ASSUME NEW p \in DOMAIN tree, NEW i \in DOMAIN tree[p].keys PROVE tree[p].keys[i] \notin WithNul
  <2>1. tree[p].kind = "map" /\ i \in 1..tree[p].size
    BY TreeFacts
  <2>2. ItemsSound(p, storage.lists[p]) /\ Len(storage.lists[p].keys) = tree[p].size
    BY <1>1, <1>3, <2>1 DEF ListSound, KeyCount, Lists
  <2>3. Kid(p, i) \in DOMAIN storage.keys
    BY <2>1, <2>2 DEF ItemsSound
  <2>. QED BY <2>1, <2>3 DEF StorageInv
<1>. QED BY <1>4, <1>5 DEF HasNul

\* The call returns.
LEMMA ReturnsKeeps ==
    ASSUME CodecTypeOK, CodecInv, Returns
    PROVE  CodecTypeOK' /\ CodecInv'
<1>1. /\ BuildInv /\ StorageInv /\ ReadInv /\ phase = "call" /\ pending = {} /\ calls = <<>>
      /\ tree' = tree /\ phase' = "returned" /\ calls' = calls /\ storage' = NoStorage
      /\ pending' = pending /\ read' = read /\ ~HasNul
  BY Clean DEF CodecInv, NulInv, BuildInv, Returns
<1>2. storage'.texts = <<>> /\ storage'.keys = <<>> /\ storage'.lists = <<>>
      /\ storage' = [texts |-> storage'.texts, keys |-> storage'.keys, lists |-> storage'.lists]
  BY <1>1 DEF NoStorage
<1>3. DOMAIN storage'.texts = {} /\ DOMAIN storage'.keys = {} /\ DOMAIN storage'.lists = {}
  BY <1>2
<1>4. StorageTypeOK' /\ StorageInv'
  BY <1>2, <1>3 DEF StorageTypeOK, StorageInv
<1>5. ReadInv'
  BY <1>1 DEF ReadInv, Ahead, IsReadItem
<1>6. BuildInv' /\ NulInv'
  BY <1>1 DEF BuildInv, NulInv, HasNul
<1>. QED BY <1>1, <1>4, <1>5, <1>6 DEF CodecTypeOK, CodecInv

-----------------------------------------------------------------------------
\* The codec is typed, and its inductive invariant holds: a node that an
\* activation, a list or libmpv refers to is one of the caller's tree and owned,
\* and what was read is the tree's label with its length cast to a c_int.
THEOREM CodecInductive == CodecSpec => [](CodecTypeOK /\ CodecInv)
<1>1. CodecInit => CodecTypeOK /\ CodecInv
  <2>. SUFFICES ASSUME CodecInit PROVE CodecTypeOK /\ CodecInv
    OBVIOUS
  <2>. PICK frame : frame = Activation(Root)
    OBVIOUS
  <2>1. /\ tree \in Trees /\ phase = "build" /\ calls = <<frame>> /\ pending = {} /\ read = <<>>
        /\ storage = NoStorage
    BY DEF CodecInit
  <2>2. /\ storage.texts = <<>> /\ storage.keys = <<>> /\ storage.lists = <<>>
        /\ storage = [texts |-> storage.texts, keys |-> storage.keys, lists |-> storage.lists]
    BY <2>1 DEF NoStorage
  <2>3. DOMAIN storage.texts = {} /\ DOMAIN storage.keys = {} /\ DOMAIN storage.lists = {}
    BY <2>2
  <2>4. StorageTypeOK /\ StorageInv
    BY <2>2, <2>3 DEF StorageTypeOK, StorageInv
  <2>5. frame \in Activations /\ frame.at = Root /\ frame.values = <<>> /\ frame.keys = <<>>
    BY DEF Activation, Activations, Raws, Root, Positions
  <2>6. CodecTypeOK
    BY <2>1, <2>4, <2>5 DEF CodecTypeOK
  <2>7. Len(calls) = 1 /\ Top = frame /\ calls # <<>> /\ calls[1] = frame
    BY <2>1 DEF Top
  <2>8. Root \in DOMAIN tree /\ tree[Root].size \in Nat
    BY <2>6, TreeFacts
  <2>9. CallSound(frame, 0)
    BY <2>5, <2>8 DEF CallSound, ItemsSound, KeyCount
  <2>10. BuildInv
    BY <2>1, <2>5, <2>7, <2>9 DEF BuildInv
  <2>11. ReadInv /\ NulInv
    BY <2>1 DEF ReadInv, NulInv
  <2>. QED BY <2>4, <2>6, <2>10, <2>11 DEF CodecInv
<1>2. CodecTypeOK /\ CodecInv /\ [CodecNext]_codecVars => CodecTypeOK' /\ CodecInv'
  <2>. SUFFICES ASSUME CodecTypeOK, CodecInv, [CodecNext]_codecVars PROVE CodecTypeOK' /\ CodecInv'
    OBVIOUS
  <2>1. CASE BuildNumber
    BY <2>1, BuildNumberKeeps
  <2>2. CASE BuildText
    BY <2>2, BuildTextKeeps
  <2>3. CASE BuildItem
    BY <2>3, BuildItemKeeps
  <2>4. CASE BuildList
    BY <2>4, BuildListKeeps
  <2>5. CASE Refuse
    BY <2>5, RefuseKeeps
  <2>6. CASE ReadNode
    BY <2>6, ReadNodeKeeps
  <2>7. CASE Returns
    BY <2>7, ReturnsKeeps
  <2>8. CASE UNCHANGED codecVars
    <3>1. /\ tree' = tree /\ phase' = phase /\ calls' = calls /\ storage' = storage
          /\ pending' = pending /\ read' = read
      BY <2>8 DEF codecVars
    <3>2. Grows
      BY <3>1 DEF Grows
    <3>3. CodecTypeOK'
      BY <3>1 DEF CodecTypeOK, StorageTypeOK
    <3>4. StorageInv'
      BY <3>1, <3>2, ListsStay DEF CodecInv, StorageInv
    <3>5. BuildInv'
      BY <3>1 DEF CodecInv, BuildInv, CallSound, ItemsSound, RawOf, Owned, KeyCount, Top
    <3>6. ReadInv'
      BY <3>1, <3>2, SoundStays DEF CodecInv, ReadInv, Ahead, IsReadItem
    <3>7. NulInv'
      BY <3>1 DEF CodecInv, NulInv, HasNul, RawOf, Owned
    <3>. QED BY <3>3, <3>4, <3>5, <3>6, <3>7 DEF CodecInv
  <2>. QED BY <2>1, <2>2, <2>3, <2>4, <2>5, <2>6, <2>7, <2>8 DEF CodecNext
<1>. QED BY <1>1, <1>2, PTL DEF CodecSpec

\* Every pointer that build makes is to an allocation the storage owns
\* (PointersOwned): the lists' from StorageInv, the activations' from BuildInv, and
\* those libmpv holds from ReadInv.
THEOREM NodesOwned == CodecSpec => []PointersOwned
<1>1. CodecTypeOK /\ CodecInv => PointersOwned
  <2>. SUFFICES ASSUME CodecTypeOK, CodecInv PROVE PointersOwned
    OBVIOUS
  <2>1. ASSUME NEW p, NEW list, list.values \in Seq(Raws), list.keys \in Seq(Positions), ItemsSound(p, list)
        PROVE  /\ \A i \in DOMAIN list.values : Owned(list.values[i])
               /\ \A i \in DOMAIN list.keys : list.keys[i] \in DOMAIN storage.keys
    BY <2>1 DEF ItemsSound
  <2>2. ASSUME NEW k \in DOMAIN calls
        PROVE  /\ \A i \in DOMAIN calls[k].values : Owned(calls[k].values[i])
               /\ \A i \in DOMAIN calls[k].keys : calls[k].keys[i] \in DOMAIN storage.keys
    <3>1. calls \in Seq(Activations) /\ Len(calls) \in Nat /\ k \in 1..Len(calls)
      BY DEF CodecTypeOK
    <3>2. calls[k] \in Activations
      BY <3>1, ElementOfSeq
    <3>3. phase = "build"
      BY <3>1, EmptySeq DEF CodecInv, BuildInv
    <3>4. ItemsSound(calls[k].at, calls[k])
      <4>1. CASE k = Len(calls)
        BY <3>3, <4>1 DEF CodecInv, BuildInv, Top, CallSound
      <4>2. CASE k # Len(calls)
        <5>1. k \in 1..(Len(calls) - 1)
          BY <3>1, <4>2
        <5>. QED BY <3>3, <5>1 DEF CodecInv, BuildInv, CallSound
      <4>. QED BY <4>1, <4>2
    <3>. QED BY <2>1, <3>2, <3>4 DEF Activations
  <2>3. ASSUME NEW p \in DOMAIN storage.lists
        PROVE  /\ \A i \in DOMAIN storage.lists[p].values : Owned(storage.lists[p].values[i])
               /\ \A i \in DOMAIN storage.lists[p].keys : storage.lists[p].keys[i] \in DOMAIN storage.keys
    BY <2>1 DEF CodecTypeOK, StorageTypeOK, CodecInv, StorageInv, ListSound
  <2>4. \A node \in pending : Owned(node.raw)
    BY DEF CodecInv, ReadInv
  <2>. QED BY <2>2, <2>3, <2>4 DEF PointersOwned
<1>. QED BY <1>1, CodecInductive, PTL

\* The length that libmpv is told of never exceeds the arrays (LengthsBounded):
\* a cast to c_int can only make it smaller.
THEOREM NodeLengths == CodecSpec => []LengthsBounded
<1>1. CodecTypeOK /\ CodecInv => LengthsBounded
  <2>. SUFFICES ASSUME CodecTypeOK, CodecInv, NEW p \in DOMAIN storage.lists
       PROVE  /\ storage.lists[p].num <= Len(storage.lists[p].values)
              /\ tree[p].kind = "map" => Len(storage.lists[p].keys) = Len(storage.lists[p].values)
    BY DEF LengthsBounded
  <2>1. ListSound(p, storage.lists[p])
    BY DEF CodecInv, StorageInv
  <2>2. p \in DOMAIN tree /\ tree[p].size \in Nat
    BY <2>1, TreeFacts DEF ListSound
  <2>. QED BY <2>1, <2>2, CastBound DEF ListSound, KeyCount
<1>. QED BY <1>1, CodecInductive, PTL

\* libmpv is called exactly for the trees without a NUL (NulRefused): a refused
\* tree has one, and an owned root is that of a tree without.
THEOREM NodeNuls == CodecSpec => []NulRefused
<1>1. CodecTypeOK /\ CodecInv => NulRefused
  BY Clean DEF CodecInv, NulInv, NulRefused
<1>. QED BY <1>1, CodecInductive, PTL


-----------------------------------------------------------------------------
\* What has been read when the call returns.
LEMMA ReadFacts ==
    ASSUME CodecTypeOK, CodecInv, phase = "returned"
    PROVE  /\ Root \in DOMAIN read /\ DOMAIN read \subseteq DOMAIN tree
           /\ \A p \in DOMAIN read :
                read[p] = Cut(tree[p]) /\ \A i \in 1..CutSize(tree[p]) : Kid(p, i) \in DOMAIN read
           /\ \A q \in DOMAIN read : q = Root \/ IsReadItem(q)
<1>1. Ahead = {}
  BY DEF CodecInv, ReadInv, Ahead
<1>. QED BY <1>1 DEF CodecInv, ReadInv

\* A cut label is a label, of the same kind and with the first items.
LEMMA CutFacts ==
    ASSUME CodecTypeOK, NEW p \in DOMAIN tree
    PROVE  /\ Cut(tree[p]) \in Labels /\ FirstItems(Cut(tree[p]), tree[p])
           /\ CutSize(tree[p]) \in 0..tree[p].size /\ Cut(tree[p]).size = CutSize(tree[p])
<1>. PICK label : label = tree[p]
  OBVIOUS
<1>. PICK n : n = CutSize(label)
  OBVIOUS
<1>1. /\ label.size \in Nat /\ label.kind \in Kinds
      /\ (label.kind \in Scalars => label.content \in Contents /\ label.size = 0)
      /\ (label.kind \in Lists => label.content = "none")
      /\ (label.kind # "map" => label.keys = <<>>)
      /\ (label.kind = "map" => label.keys \in Seq(Contents) /\ Len(label.keys) = label.size)
  BY TreeFacts
<1>2. n \in Nat /\ n <= label.size /\ (label.size < CIntSize \div 2 => n = label.size)
  BY <1>1, CastBound, KindFacts DEF CutSize, Count, Kinds
<1>. PICK keys : keys = IF label.kind = "map" THEN [i \in 1..n |-> label.keys[i]] ELSE <<>>
  OBVIOUS
<1>. PICK cut : cut = [kind |-> label.kind, content |-> label.content, size |-> n, keys |-> keys]
  OBVIOUS
<1>3. Cut(label) = cut
  BY DEF Cut
<1>4. CASE label.kind = "map"
  <2>1. label.keys \in [1..label.size -> Contents]
    BY <1>1, <1>4
  <2>2. keys \in [1..n -> Contents]
    <3>. PICK whole : whole = label.keys
      OBVIOUS
    <3>1. \A i \in 1..n : i \in 1..label.size
      BY <1>1, <1>2
    <3>2. \A i \in 1..n : whole[i] \in Contents
      BY <2>1, <3>1
    <3>3. keys = [i \in 1..n |-> whole[i]]
      BY <1>4
    <3>. QED BY ONLY <3>2, <3>3
  <2>3. keys \in Seq(Contents) /\ Len(keys) = n /\ DOMAIN keys = 1..n
    BY <1>2, <2>2
  <2>4. cut \in Labels
    BY <1>1, <1>2, <1>4, <2>3, KindFacts DEF Labels
  <2>5. \A i \in DOMAIN keys : keys[i] = label.keys[i]
    BY <1>4, <2>3
  <2>. QED BY <1>2, <1>3, <2>4, <2>5 DEF FirstItems
<1>5. CASE label.kind # "map"
  <2>1. keys = <<>> /\ label.keys = <<>>
    BY <1>1, <1>5
  <2>2. cut \in Labels
    BY <1>1, <1>2, <1>5, <2>1, KindFacts DEF Labels, Kinds, Scalars, Lists
  <2>. QED BY <1>2, <1>3, <2>1, <2>2 DEF FirstItems
<1>. QED BY <1>4, <1>5

\* Labels of one length that agree on their first items are the same.
LEMMA SameLabel ==
    ASSUME NEW label \in Labels, NEW whole \in Labels,
           FirstItems(label, whole), label.size = whole.size
    PROVE  label = whole
<1>1. /\ label = [kind |-> label.kind, content |-> label.content, size |-> label.size, keys |-> label.keys]
      /\ whole = [kind |-> whole.kind, content |-> whole.content, size |-> whole.size, keys |-> whole.keys]
      /\ label.kind = whole.kind /\ label.content = whole.content
  BY DEF Labels, FirstItems
<1>2. CASE label.kind = "map"
  <2>. PICK a : a = label.keys
    OBVIOUS
  <2>. PICK b : b = whole.keys
    OBVIOUS
  <2>1. a \in Seq(Contents) /\ Len(a) = label.size
    BY <1>2 DEF Labels, Scalars
  <2>2. b \in Seq(Contents) /\ Len(b) = label.size
    BY <1>1, <1>2 DEF Labels, Scalars
  <2>3. \A i \in DOMAIN a : a[i] = b[i]
    BY DEF FirstItems
  <2>4. \A i \in 1..Len(a) : a[i] = b[i]
    BY <2>1, <2>3
  <2>5. a = b
    BY <2>1, <2>2, <2>4, SeqEqual
  <2>. QED BY <1>1, <2>5
<1>3. CASE label.kind # "map"
  <2>1. label.keys = <<>> /\ whole.keys = <<>>
    BY <1>1, <1>3 DEF Labels
  <2>. QED BY <1>1, <2>1
<1>. QED BY <1>2, <1>3

\* libmpv reads the caller's tree, with the lists cut whose length does not fit
\* (RoundTrip).  What is read contains the root and, with each node, the items it is
\* read to have; that it contains no others makes the rest of the caller's tree, too,
\* closed under items, so that no smaller set is a tree.
THEOREM NodesArrive == CodecSpec => []RoundTrip
<1>1. CodecTypeOK /\ CodecInv => RoundTrip
  <2>. SUFFICES ASSUME CodecTypeOK, CodecInv, phase = "returned"
       PROVE  /\ IsTree(read) /\ DOMAIN read \subseteq DOMAIN tree
              /\ \A p \in DOMAIN read : FirstItems(read[p], tree[p])
    BY DEF RoundTrip
  <2>1. ASSUME NEW p \in DOMAIN read
        PROVE  /\ p \in DOMAIN tree /\ p \in Positions /\ tree[p].size \in Nat
               /\ read[p] \in Labels /\ FirstItems(read[p], tree[p])
               /\ read[p].size = CutSize(tree[p]) /\ CutSize(tree[p]) \in 0..tree[p].size
               /\ \A i \in 1..read[p].size : Kid(p, i) \in DOMAIN read
    BY ReadFacts, CutFacts, TreeFacts
  <2>2. read \in [DOMAIN read -> Labels]
    BY <2>1 DEF CodecTypeOK
  <2>3. ASSUME NEW S \in SUBSET DOMAIN read, Root \in S,
               \A p \in S : \A i \in 1..read[p].size : Kid(p, i) \in S
        PROVE  S = DOMAIN read
    <3>. DEFINE all == S \cup (DOMAIN tree \ DOMAIN read)
    <3>1. ASSUME NEW p \in all, NEW i \in 1..tree[p].size PROVE Kid(p, i) \in all
      <4>1. p \in DOMAIN tree /\ p \in Positions /\ i \in Nat \ {0} /\ Kid(p, i) \in DOMAIN tree
        BY <2>1, TreeFacts
      <4>2. CASE Kid(p, i) \notin DOMAIN read
        BY <4>1, <4>2
      <4>3. CASE Kid(p, i) \in DOMAIN read
        <5>1. Kid(p, i) # Root
          BY <4>1 DEF Kid, Root, Positions
        <5>2. PICK parent \in DOMAIN read : \E j \in 1..CutSize(tree[parent]) : Kid(p, i) = Kid(parent, j)
          BY <4>3, <5>1, ReadFacts DEF IsReadItem
        <5>. PICK j \in 1..CutSize(tree[parent]) : Kid(p, i) = Kid(parent, j)
          BY <5>2
        <5>3. parent \in Positions /\ j \in Nat \ {0} /\ j \in 1..read[parent].size
          BY <2>1
        <5>4. p = parent /\ i = j
          BY <4>1, <5>3, KidFacts
        <5>. QED BY <2>3, <5>3, <5>4
      <4>. QED BY <4>2, <4>3
    <3>2. all \in SUBSET DOMAIN tree /\ Root \in all
      BY <2>1, <2>3
    <3>3. all = DOMAIN tree
      <4>. HIDE DEF all
      <4>. QED BY <3>1, <3>2, TreeFacts
    <3>. QED BY <2>1, <3>3
  <2>. QED BY <2>1, <2>2, <2>3, ReadFacts DEF IsTree
<1>. QED BY <1>1, CodecInductive, PTL

\* If every length fits into a c_int, libmpv reads the whole of the caller's tree.
ReadsWhole ==
    phase = "returned" /\ (\A p \in DOMAIN tree : tree[p].size < CIntSize \div 2) => read = tree
THEOREM NodesWhole == CodecSpec => []ReadsWhole
<1>1. CodecTypeOK /\ RoundTrip => ReadsWhole
  <2>. SUFFICES ASSUME CodecTypeOK, RoundTrip, phase = "returned",
                       \A p \in DOMAIN tree : tree[p].size < CIntSize \div 2
       PROVE  read = tree
    BY DEF ReadsWhole
  <2>1. /\ IsTree(read) /\ DOMAIN read \subseteq DOMAIN tree
        /\ \A p \in DOMAIN read : FirstItems(read[p], tree[p])
    BY DEF RoundTrip
  <2>2. ASSUME NEW p \in DOMAIN read PROVE read[p].size = tree[p].size
    BY <2>1, <2>2 DEF FirstItems
  <2>3. DOMAIN read = DOMAIN tree
    <3>1. DOMAIN read \in SUBSET DOMAIN tree /\ Root \in DOMAIN read
          /\ \A p \in DOMAIN read : \A i \in 1..tree[p].size : Kid(p, i) \in DOMAIN read
      BY <2>1, <2>2 DEF IsTree
    <3>. QED BY <3>1, TreeFacts
  <2>4. ASSUME NEW p \in DOMAIN tree PROVE read[p] = tree[p]
    <3>. PICK label : label = read[p]
      OBVIOUS
    <3>. PICK whole : whole = tree[p]
      OBVIOUS
    <3>1. label \in Labels /\ whole \in Labels /\ FirstItems(label, whole) /\ label.size = whole.size
      BY <2>1, <2>2, <2>3, TreeFacts DEF IsTree
    <3>. QED BY <3>1, SameLabel
  <2>5. read = [p \in DOMAIN read |-> read[p]] /\ tree = [p \in DOMAIN tree |-> tree[p]]
    BY TreeFacts DEF CodecTypeOK
  <2>. QED BY <2>3, <2>4, <2>5
<1>. QED BY <1>1, CodecInductive, NodesArrive, PTL
=============================================================================
