------------------------------ MODULE Overlay -------------------------------
(***************************************************************************)
(* The on-screen display plugin (osd.cpp): the frames and names drawn into *)
(* the planes of a picture in two pixel formats, and the life of the       *)
(* encoder behind it, which is created with the first packet and may fail  *)
(* half way.                                                               *)
(*                                                                         *)
(* A drawing is the set of the addresses it colours in a plane.            *)
(***************************************************************************)
EXTENDS Integers, FiniteSets, Sequences

CONSTANTS
  OsdWidth, OsdHeight,   \* of the picture, both even
  OsdGlyphs,             \* bitmaps [w, h, up, dots]: horiBearingY, the pixels set
  OsdPackets             \* bound: packets

ASSUME OsdSizeAssumption ==
  OsdWidth \in Nat /\ OsdHeight \in Nat /\ OsdWidth % 2 = 0 /\ OsdHeight % 2 = 0

\* A bitmap has no dot outside its columns.
ASSUME OsdGlyphAssumption ==
  \A g \in OsdGlyphs :
    /\ g.w \in Nat /\ g.up \in Int
    /\ \A d \in g.dots : d[1] \in Nat /\ d[2] \in 0..(g.w - 1)

VARIABLE osd

OsdPart == {"ctx", "avpkt", "frame"}

\* What CreateEncoder does, in its order; "rect" is the choice of
\* set_rect_text, which cannot fail.
OsdSteps == <<"codec", "ctx", "avpkt", "rect", "open", "frame", "buffer", "writable">>

\* The steps CreateEncoder may have got through when it returns.
OsdReached == (0..Len(OsdSteps)) \ {3}

OsdInitial(on) ==
  IF ~on THEN osd = [at |-> "off"]
  ELSE \/ osd = [at |-> "started", init |-> FALSE, done |-> 0,
                 held |-> [p \in OsdPart |-> 0], packets |-> 0]
       \/ \E x \in 0..(OsdWidth - 1), y \in 0..(OsdHeight - 1),
             w \in 0..OsdWidth, h \in 0..OsdHeight :
            /\ x + w <= OsdWidth /\ y + h <= OsdHeight
            /\ osd = [at |-> "drawn", x |-> (x \div 2) * 2, y |-> (y \div 2) * 2,
                      w |-> (w \div 2) * 2, h |-> (h \div 2) * 2]

-----------------------------------------------------------------------------
(* The encoder *)

\* Mutant: init is set only when the encoder is complete.
OsdInitSetLate(n) == n = Len(OsdSteps)

\* osd->encoder.init = 1 comes before CreateEncoder, whatever that returns.
OsdInitSet(n) == TRUE

\* CreateEncoder gets through its first n steps.
OsdCreate(n) ==
  [osd EXCEPT !.init = OsdInitSet(n), !.done = n,
              !.held = [p \in OsdPart |->
                          @[p] + Cardinality({k \in 1..n : OsdSteps[k] = p})]]

\* OSDProcess: set_rect_text is called through its pointer, and Encoding reads
\* the format of the frame, neither of them tested.  (Without the last two steps
\* the sizes to copy are still 0, and the library refuses the empty frame.)
OsdProcess ==
  /\ osd.at = "started" /\ osd.packets < OsdPackets
  /\ \E n \in OsdReached :
       LET s == IF osd.init THEN osd ELSE OsdCreate(n)
       IN  osd' = [s EXCEPT !.packets = @ + 1, !.at = IF s.done >= 6 THEN @ ELSE "crashed"]

\* OSDStop: DestroyEncoder frees what the pointers point to.
OsdStop ==
  /\ osd.at = "started"
  /\ osd' = [osd EXCEPT !.at = "stopped",
                        !.held = [p \in OsdPart |-> IF @[p] > 0 THEN @[p] - 1 ELSE 0]]

OsdNext == OsdProcess \/ OsdStop

OsdSpec == (\E on \in BOOLEAN : OsdInitial(on)) /\ [][OsdNext]_osd

-----------------------------------------------------------------------------
(* Nv12pSetRect and Yuv420pSetRect *)

\* Luma, the same in both: two lines above and below, two columns on the left
\* and two to the right of the box.
OsdLuma(x, y, w, h) ==
  UNION {{OsdWidth * i + x + k :
            k \in {0, 1, w, w + 1}
                  \cup (IF i \in {y, y + 1, y + h - 1, y + h - 2} THEN 0..(w - 1) ELSE {})} :
         i \in y..(y + h - 1)}

\* The bytes of the interleaved plane: U at even, V at odd addresses.
OsdNv12Chroma(x, y, w, h) ==
  LET top == y \div 2
      end == (y + h) \div 2
  IN  UNION {{OsdWidth * i + x + k :
                k \in {0, 1, w, w + 1} \cup (IF i \in {top, end - 1} THEN 0..(w - 1) ELSE {})} :
             i \in top..(end - 1)}

\* The samples of the U plane, and the same ones of the V plane.
OsdYuvChroma(x, y, w, h) ==
  LET top == y \div 2
      end == (y + h) \div 2
  IN  UNION {{(OsdWidth * i + x) \div 2 + k :
                k \in {0, w \div 2} \cup (IF i \in {top, end - 1} THEN 0..(w \div 2 - 1) ELSE {})} :
             i \in top..(end - 1)}

(* Nv12SetText and Yuv420pSetText, of one character at ft_x = x *)

OsdTextTop(g, y) == IF y - g.up - 6 < 0 THEN 0 ELSE y - g.up - 6

OsdTextLuma(g, x, y) ==
  {OsdWidth * (OsdTextTop(g, y) + d[1]) + x + d[2] : d \in g.dots}

OsdTextChroma(g, x, y) ==
  {(OsdWidth \div 2) * (OsdTextTop(g, y) \div 2 + d[1] \div 2) + x \div 2 + d[2] \div 2 : d \in g.dots}

-----------------------------------------------------------------------------
(* Properties *)

\* The sample that colours a pixel.
OsdSampleOf(a) == ((a \div OsdWidth) \div 2) * (OsdWidth \div 2) + (a % OsdWidth) \div 2

\* The box touches the right border: the line to its right, two columns that
\* belong to no row of it, goes on at the left of the row below.
OsdAtRight == osd.h > 0 /\ osd.x + osd.w = OsdWidth

\* It touches the bottom as well: below its last row the plane has ended.
OsdInCorner == OsdAtRight /\ osd.y + osd.h = OsdHeight

\* The columns at which a character of the name may begin.
OsdTextColumns == {osd.x + 2 * k : k \in 0..OsdWidth}

\* A frame looks the same in both formats: the bytes written to the
\* interleaved plane are exactly the samples written to the two planes.
OsdFormatsAgree ==
  osd.at = "drawn" =>
    OsdNv12Chroma(osd.x, osd.y, osd.w, osd.h)
      = UNION {{2 * k, 2 * k + 1} : k \in OsdYuvChroma(osd.x, osd.y, osd.w, osd.h)}

\* A frame stays within the planes except for a box in the corner, of which two
\* pixels and one sample are written behind them; and every pixel of a frame has
\* its colour, the sample of the pixel is written too, except for a box at the
\* right border, of which the line that goes on at the left is one row too high.
OsdFrameColoured ==
  osd.at = "drawn" =>
    LET luma == OsdLuma(osd.x, osd.y, osd.w, osd.h)
        chroma == OsdYuvChroma(osd.x, osd.y, osd.w, osd.h)
        pixels == OsdWidth * OsdHeight
        samples == (OsdWidth \div 2) * (OsdHeight \div 2)
    IN  /\ luma \ 0..(pixels - 1) = IF OsdInCorner THEN {pixels, pixels + 1} ELSE {}
        /\ chroma \ 0..(samples - 1) = IF OsdInCorner THEN {samples} ELSE {}
        /\ {OsdSampleOf(a) : a \in luma}
             = chroma \cup (IF OsdAtRight THEN {(osd.y \div 2) * (OsdWidth \div 2)} ELSE {})

\* A character is within the luma exactly if no dot of it is below the picture,
\* where what runs over the right border goes on in the next row.  If it does not
\* run over, the samples are within their planes as well, and from an even line on
\* it has its colour.  (From an odd line on, the rows of chroma are those of the
\* line above.)
OsdTextColoured ==
  osd.at = "drawn" =>
    \A g \in OsdGlyphs, x \in OsdTextColumns :
      LET top == OsdTextTop(g, osd.y)
          luma == OsdTextLuma(g, x, osd.y)
          chroma == OsdTextChroma(g, x, osd.y)
          within == luma \subseteq 0..(OsdWidth * OsdHeight - 1)
      IN  /\ within <=> \A d \in g.dots : top + d[1] + (x + d[2]) \div OsdWidth < OsdHeight
          /\ x + g.w <= OsdWidth =>
               /\ within => chroma \subseteq 0..((OsdWidth \div 2) * (OsdHeight \div 2) - 1)
               /\ top % 2 = 0 => {OsdSampleOf(a) : a \in luma} = chroma

\* When the task stops, every part of the encoder that was made is freed,
\* wherever CreateEncoder gave up and however many packets came after it.
OsdStopFrees ==
  osd.at = "stopped" => \A p \in OsdPart : osd.held[p] = 0

\* What is drawn has its colour, in both formats alike and inside the picture but
\* for boxes at its right border, and the encoder leaves nothing behind (osd.cpp).
OsdCorrect == OsdFormatsAgree /\ OsdFrameColoured /\ OsdTextColoured /\ OsdStopFrees
=============================================================================
