---------------------------- MODULE PortraitGeometry ----------------------------
(* The numbers of the portrait pipeline (portrait/): whether a face box is used, *)
(* which matte, and the frame that is cut.  A picture has a width, a height, a   *)
(* face box (in thousandths), the matte of the model and the matte that a        *)
(* refinement makes of it; a matte has what integrity.py measures (in percent)   *)
(* and the box of its foreground after smoothing.                                *)
EXTENDS Integers

CONSTANT NoBox   \* no foreground, no frame

Boxes == [x0 : Int, y0 : Int, x1 : Int, y1 : Int]

ASSUME NoBoxAssumption == NoBox \notin Boxes

Smaller(a, b) == IF a <= b THEN a ELSE b
Larger(a, b) == IF a >= b THEN a ELSE b

-------------------------------------------------------------------------------
(* integrity.py, matte.py                                                       *)

ValidFaceBox(f) ==
  /\ f.x >= 0 /\ f.y >= 0 /\ f.w \in 30..1000 /\ f.h \in 30..1000
  /\ f.x + f.w <= 1000 /\ f.y + f.h <= 1000

\* validate_portrait_matte
Sound(matte) ==
  /\ matte.face >= 55 /\ matte.overlap >= 55
  /\ matte.head >= 45 /\ matte.balance >= 35

\* Without a component at the face that covers it, nothing is removed.
Refined(pic) == IF pic.anchored /\ pic.coverage >= 55 THEN pic.cleaned ELSE pic.raw

\* refinement_is_acceptable
Acceptable(raw, refined) ==
  /\ Sound(refined)
  /\ refined.face >= raw.face - 15 /\ refined.balance >= raw.balance - 25

\* _resolve_matte
Resolved(pic) == IF Acceptable(pic.raw, Refined(pic)) THEN Refined(pic) ELSE pic.raw

\* The picture has a portrait: it is not rejected, and a foreground is left.
Croppable(pic) == Sound(pic.raw) /\ Resolved(pic).box # NoBox

-------------------------------------------------------------------------------
(* crop.py: box is the foreground, w and h are the size of the frame.           *)

HeadTop(pic) == (pic.face.y * pic.height) \div 1000
HeadExtent(pic) ==
  Larger(8, ((pic.face.y + pic.face.h) * pic.height) \div 1000 - HeadTop(pic))
HeadCentre(pic) == ((2 * pic.face.x + pic.face.w) * pic.width) \div 2000

\* Enough for the head and for the shoulders.
WantedHeight(box, head) ==
  LET width == Larger((75 * head) \div 52, (100 * (box.x1 - box.x0)) \div 84)
  IN  Larger(16, (4 * width + 1) \div 3)

\* The largest frame in the source.
Largest(width, height) ==
  IF (3 * height) \div 4 <= width
    THEN [w |-> (3 * height) \div 4, h |-> height]
  ELSE [w |-> width, h |-> (4 * width + 1) \div 3]

\* Mutant: the frame is not fitted to the width.
BugSize(h, width, height) ==
  IF h <= height THEN [w |-> (3 * h) \div 4, h |-> h] ELSE Largest(width, height)

Size(h, width, height) ==
  LET w == (3 * h) \div 4
      fit == Largest(width, height)
  IN  IF w <= width /\ h <= height THEN [w |-> w, h |-> h]
      ELSE [w |-> Smaller(Larger(12, Smaller(w, fit.w)), width),
            h |-> Smaller(Larger(12, Smaller(h, fit.h)), height)]

HairPad(h) == Larger(2, (2 * h) \div 100)

\* A margin above the head and above the hair; then down to the shoulders, as far
\* as the hair allows; then up, into the source.
Top(box, head, h, height) ==
  LET above == Larger(0, Smaller(head - (10 * h) \div 100, box.y0 - HairPad(h)))
      missing == box.y1 + Larger(2, (4 * h) \div 100) - (above + h)
      slack == Larger(0, box.y0 - HairPad(h) - above)
      top == IF missing > 0 THEN above + Smaller(missing, slack) ELSE above
  IN  Smaller(top, height - h)

\* To the nearest, a half to the even one.
Tenth(n) == (n + 4 + (IF (n \div 10) % 2 = 1 THEN 1 ELSE 0)) \div 10

Margin(w) == Larger(2, (4 * w) \div 100)

\* Around the face, between the margins of the shoulders if there is room.
Left(box, centre, w, width) ==
  LET lo == box.x1 + Margin(w) - w
      hi == box.x0 - Margin(w)
      middle == Tenth(7 * centre + 3 * ((box.x0 + box.x1) \div 2)) - w \div 2
      left == IF lo <= hi THEN Larger(lo, Smaller(hi, middle)) ELSE middle
  IN  Smaller(Larger(0, left), width - w)

PassportCrop(pic) ==
  LET box == Resolved(pic).box
      size == Size(WantedHeight(box, HeadExtent(pic)), pic.width, pic.height)
      x0 == Left(box, HeadCentre(pic), size.w, pic.width)
      y0 == Top(box, HeadTop(pic), size.h, pic.height)
  IN  [x0 |-> x0, y0 |-> y0, x1 |-> x0 + size.w, y1 |-> y0 + size.h]

-------------------------------------------------------------------------------
\* A frame in the source, which has the pixels it is cut from.
InSource(c, width, height) ==
  /\ 0 <= c.x0 /\ c.x0 < c.x1 /\ c.x1 <= width
  /\ 0 <= c.y0 /\ c.y0 < c.y1 /\ c.y1 <= height

\* A frame with the hair and its pad, with both shoulders if it has room for them,
\* and of the shape 3:4 to the pixel.
WellFramed(c, box, width, height) ==
  LET w == c.x1 - c.x0
      h == c.y1 - c.y0
  IN  /\ c.y0 <= Larger(0, box.y0 - HairPad(h))
      /\ box.x1 - box.x0 + 2 * Margin(w) <= w => c.x0 <= box.x0 /\ box.x1 <= c.x1
      /\ width >= 12 /\ height >= 16 => 4 * w - 3 * h \in -3..3
===============================================================================
