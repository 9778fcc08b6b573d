---------------------------- MODULE SoftwareSurface ----------------------------
(***************************************************************************)
(* RenderInner::render_software: the checks that keep a safe function safe *)
(* although libmpv gets a bare pointer to the pixels.  libmpv then writes  *)
(* row after row, each at a multiple of the stride.  The crate computes in *)
(* usize (below Word) from i32 sizes, so products may overflow and sizes   *)
(* may be negative.                                                        *)
(***************************************************************************)
EXTENDS Integers

CONSTANTS
    Word,           \* 2^64 (2^32): usize is 0..Word-1
    I32Max,         \* 2^31 - 1
    PixelSizes      \* SwPixelFormat::bytes_per_pixel of the formats

ASSUME ConstantsAssumption ==
    Word \in Nat \ {0} /\ I32Max \in Nat /\ PixelSizes \subseteq Nat \ {0}

VARIABLES
    call,           \* the arguments of the call
    outcome,        \* how far it has come
    row             \* the next row libmpv writes

vars == <<call, outcome, row>>

\* A slice has at most isize::MAX bytes.
Calls == [width : (-I32Max - 1)..I32Max, height : (-I32Max - 1)..I32Max, bpp : PixelSizes,
          stride : 0..(Word - 1), len : 0..((Word - 1) \div 2)]

Init == call \in Calls /\ outcome = "entry" /\ row = 0

AtLeastZero(n) == IF n < 0 THEN 0 ELSE n
RowBytes(c) == c.width * c.bpp

\* Mutant: the product wraps around.
AcceptsWrapped(c) ==
    /\ c.width >= 0 /\ c.height >= 0 /\ c.len >= (c.stride * AtLeastZero(c.height)) % Word
    /\ RowBytes(c) < Word /\ c.stride >= RowBytes(c)

\* Mutant: a buffer of exactly the needed size is refused.
AcceptsLarger(c) ==
    /\ c.stride * AtLeastZero(c.height) < Word
    /\ c.width >= 0 /\ c.height >= 0 /\ c.len > c.stride * AtLeastZero(c.height)
    /\ RowBytes(c) < Word /\ c.stride >= RowBytes(c)

\* checked_mul of the needed size, the sizes' signs, the buffer's length,
\* checked_mul of the row's size, and the stride.
Accepts(c) ==
    /\ c.stride * AtLeastZero(c.height) < Word
    /\ c.width >= 0 /\ c.height >= 0 /\ c.len >= c.stride * AtLeastZero(c.height)
    /\ RowBytes(c) < Word /\ c.stride >= RowBytes(c)

Check ==
    /\ outcome = "entry"
    /\ outcome' = IF Accepts(call) THEN "rendering" ELSE "refused"
    /\ UNCHANGED <<call, row>>

\* libmpv may refuse the frame itself, before it writes anything.
MpvRefuses ==
    /\ outcome = "rendering" /\ row = 0 /\ outcome' = "error"
    /\ UNCHANGED <<call, row>>

RenderRow ==
    /\ outcome = "rendering" /\ row < call.height
    /\ row' = row + 1
    /\ UNCHANGED <<call, outcome>>

Rendered ==
    /\ outcome = "rendering" /\ row = call.height /\ outcome' = "done"
    /\ UNCHANGED <<call, row>>

Next == Check \/ MpvRefuses \/ RenderRow \/ Rendered
Spec == Init /\ [][Next]_vars

TypeOK ==
    /\ call \in Calls /\ outcome \in {"entry", "refused", "rendering", "error", "done"}
    /\ row \in Nat /\ (row = 0 \/ row <= call.height)

\* The row libmpv writes next lies in the buffer and does not run into the row
\* after it, whatever the arguments of the safe render_software were.
WritesInside ==
    outcome = "rendering" /\ row < call.height =>
        LET first == row * call.stride
        IN  /\ first >= 0 /\ first + RowBytes(call) <= call.len
            /\ first + RowBytes(call) <= (row + 1) * call.stride

\* The overflow and sign checks refuse no call that is valid by the plain
\* condition "stride * height bytes, rows of at most stride bytes".
OnlyInvalidRefused ==
    outcome = "refused" =>
        \/ call.width < 0 \/ call.height < 0
        \/ call.stride * call.height > call.len \/ RowBytes(call) > call.stride
=============================================================================
