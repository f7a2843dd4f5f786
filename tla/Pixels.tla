------------------------------- MODULE Pixels -------------------------------
(***************************************************************************)
(* The colour conversion of plugins/common/common.cpp, which every decoded *)
(* and every encoded picture goes through: the walks of the pointers over  *)
(* the planes, and the integer arithmetic with its clipping table.         *)
(*                                                                         *)
(* "rgb": ConvertYuv420pToRGB24 and ConvertNv12ToRGB24, two rows at a      *)
(* time; "yuv": the sampling of U and V in ConvertRGBToYUV420p; "colour":  *)
(* one pixel.  Addresses count pixels, and chroma samples.                 *)
(***************************************************************************)
EXTENDS Integers, Sequences

CONSTANTS
  PxSizes,   \* pictures <<width, height>>, both even as in 4:2:0 video
  PxLevels   \* bytes tried as colour components

ASSUME PxAssumption ==
  /\ \A s \in PxSizes : /\ s \in (Nat \ {0}) \X (Nat \ {0})
                        /\ s[1] % 2 = 0 /\ s[2] % 2 = 0
  /\ PxLevels \subseteq 0..255

VARIABLE px

PxNone == <<>>

PxWalkInitial(at, s) ==
  px = [at |-> at, w |-> s[1], h |-> s[2], i |-> 0, j |-> 0,
        p1 |-> 0, p2 |-> s[1],      \* py1, py2 = py1 + width; pu1, pu3 = pu1 + w
        d1 |-> 0, d2 |-> s[1],      \* d1, d2 = d1 + 3*width
        src |-> 0,                  \* src1, src2, or u, v of the result
        out |-> [p \in 0..(s[1] * s[2] - 1) |-> PxNone], c |-> PxNone]

PxInitial(on) ==
  IF ~on THEN px = [at |-> "off"]
  ELSE \/ \E s \in PxSizes, at \in {"rgb", "yuv"} : PxWalkInitial(at, s)
       \/ \E c \in PxLevels \X PxLevels \X PxLevels : px = [at |-> "colour", c |-> c]

-----------------------------------------------------------------------------
(* The walks *)

\* One block of two by two pixels: up-left, down-left, up-right, down-right,
\* each from its own luma and the chroma of the block.
PxBlock ==
  /\ px.at = "rgb" /\ px.j < px.h /\ px.i < px.w
  /\ px' = [px EXCEPT
       !.out = [@ EXCEPT ![px.d1] = <<px.p1, px.src>>, ![px.d2] = <<px.p2, px.src>>,
                         ![px.d1 + 1] = <<px.p1 + 1, px.src>>,
                         ![px.d2 + 1] = <<px.p2 + 1, px.src>>],
       !.p1 = @ + 2, !.p2 = @ + 2, !.d1 = @ + 2, !.d2 = @ + 2, !.src = @ + 1, !.i = @ + 2]

\* Mutant: the source pointers stay in their row.
PxRowEndShort ==
  /\ px.at = "rgb" /\ px.j < px.h /\ px.i >= px.w
  /\ px' = [px EXCEPT !.d1 = @ + px.w, !.d2 = @ + px.w, !.i = 0, !.j = @ + 2]

\* The row below was done together with this one.
PxRowEnd ==
  /\ px.at = "rgb" /\ px.j < px.h /\ px.i >= px.w
  /\ px' = [px EXCEPT !.d1 = @ + px.w, !.d2 = @ + px.w, !.p1 = @ + px.w, !.p2 = @ + px.w,
                      !.i = 0, !.j = @ + 2]

\* One sample of U and of V: the mean of pu1..pu4.
PxSample ==
  /\ px.at = "yuv" /\ px.j < px.h /\ px.i < px.w
  /\ px' = [px EXCEPT
       !.out = [@ EXCEPT ![px.src] = <<px.p1, px.p1 + 1, px.p2, px.p2 + 1>>],
       !.p1 = @ + 2, !.p2 = @ + 2, !.src = @ + 1, !.i = @ + 2]

PxSampleRow ==
  /\ px.at = "yuv" /\ px.j < px.h /\ px.i >= px.w
  /\ px' = [px EXCEPT !.p1 = @ + px.w, !.p2 = @ + px.w, !.i = 0, !.j = @ + 2]

PxNext == PxBlock \/ PxRowEnd \/ PxSample \/ PxSampleRow

PxSpec == (\E on \in BOOLEAN : PxInitial(on)) /\ [][PxNext]_px

-----------------------------------------------------------------------------
(* The arithmetic.  x >> 16 is the floor of x / 65536, as \div is. *)

\* The tables: 76309*(i-16), (i-128)*104597 and so on.
PxLuma(y) == 76309 * (y - 16)
PxRed(y, v) == (PxLuma(y) + 104597 * (v - 128)) \div 65536
PxGreen(y, u, v) == (PxLuma(y) - 25675 * (u - 128) - 53279 * (v - 128)) \div 65536
PxBlue(y, u) == (PxLuma(y) + 132201 * (u - 128)) \div 65536

PxIndex(x) == 384 + x

\* clp: 384 times 0, 0..255, 384 times 255.
PxClp(i) == IF i < 384 THEN 0 ELSE IF i < 640 THEN i - 384 ELSE 255

PxToRgb(y, u, v) ==
  <<PxClp(PxIndex(PxRed(y, v))), PxClp(PxIndex(PxGreen(y, u, v))), PxClp(PxIndex(PxBlue(y, u)))>>

\* InitLookupTable: the factor times i << 8, without its fraction.  Factors
\* are given in thousandths: 256/1000 is 32/125.
PxTable(factor, i) == (factor * i * 32) \div 125

PxToYuv(r, g, b) ==
  <<(PxTable(65481, r) + PxTable(128553, g) + PxTable(24966, b) + 1048576) \div 65536,
    (PxTable(112000, b) - PxTable(37797, r) - PxTable(74203, g) + 8388608) \div 65536,
    (PxTable(112000, r) - PxTable(93786, g) - PxTable(18214, b) + 8388608) \div 65536>>

-----------------------------------------------------------------------------
(* Properties *)

\* Every pixel of the picture is written, from the luma of its own place and
\* the chroma of the block it is in, and nothing outside the planes is
\* read or written (ConvertYuv420pToRGB24: five pointers advanced by hand).
PxPictureExact ==
  px.at = "rgb" =>
    /\ px.i < px.w /\ px.j < px.h =>
         px.d2 + 1 < px.w * px.h /\ px.p2 + 1 < px.w * px.h /\ 4 * px.src < px.w * px.h
    /\ px.j >= px.h =>
         \A r \in 0..(px.h - 1), k \in 0..(px.w - 1) :
           px.out[r * px.w + k] = <<r * px.w + k, (r \div 2) * (px.w \div 2) + k \div 2>>

\* Every chroma sample is the mean of the four pixels of its block
\* (ConvertRGBToYUV420p: eight pointers advanced by hand).
PxSamplesExact ==
  px.at = "yuv" /\ px.j >= px.h =>
    \A r \in 0..(px.h \div 2 - 1), k \in 0..(px.w \div 2 - 1) :
      LET p == 2 * r * px.w + 2 * k
      IN  px.out[r * (px.w \div 2) + k] = <<p, p + 1, p + px.w, p + px.w + 1>>

\* No triple of bytes reaches outside the 1024 entries of the clipping table,
\* whose 384 entries on either side are just enough.
PxClipInTable ==
  px.at = "colour" =>
    LET y == px.c[1]
        u == px.c[2]
        v == px.c[3]
    IN  \A x \in {PxRed(y, v), PxGreen(y, u, v), PxBlue(y, u)} : PxIndex(x) \in 0..1023

\* A colour that is converted to YUV fits into bytes, and comes back within 5
\* of what it was: the two sets of tables belong together.
PxRoundTrip ==
  px.at = "colour" =>
    LET yuv == PxToYuv(px.c[1], px.c[2], px.c[3])
        rgb == PxToRgb(yuv[1], yuv[2], yuv[3])
    IN  \A m \in 1..3 : yuv[m] \in 0..255 /\ rgb[m] - px.c[m] \in -5..5

\* Both conversions read and write every sample where it belongs, and undo each
\* other as far as the tables go (common.cpp).
PxCorrect == PxPictureExact /\ PxSamplesExact /\ PxClipInTable /\ PxRoundTrip
=============================================================================
