------------------------ MODULE MCExperimentTransaction ------------------------
(* An instance of ExperimentTransaction for TLC.                                *)
EXTENDS ExperimentTransaction, TLC

Reply(kind, code, class, count, second) ==
  [kind |-> kind, status |-> code,
   text |-> [class |-> class, count |-> count, second |-> second, conforms |-> TRUE]]
Text(class, count, second) == Reply("text", 200, class, count, second)
Failure(kind, code) == Reply(kind, code, "LIVE", "ONE", "NONE")

\* A person, an attack, a contradiction of counts, a text without a count or with a
\* field too many, no text, what is repeated and what is not.
MCReplies ==
  {Text("LIVE", "ONE", "NONE"), Text("PRINT_ATTACK", "ONE", "NONE"),
   Text("LIVE", "ONE", "BACKGROUND"), Text("LIVE", Missing, "NONE"),
   [Text("LIVE", "ONE", "NONE") EXCEPT !.text.conforms = FALSE],
   Failure("empty", 200), Failure("timeout", 0), Failure("other", 0)}
  \cup {Failure("status", s) : s \in {302, 401, 408, 422, 429, 501}}

Box(x0, y0, x1, y1) == [x0 |-> x0, y0 |-> y0, x1 |-> x1, y1 |-> y1]
Matte(face, balance, box) ==
  [face |-> face, head |-> 60, overlap |-> face, balance |-> balance, box |-> box]
Picture(width, height, raw, cleaned) ==
  [bytes |-> 2, width |-> width, height |-> height,
   face |-> [x |-> 250, y |-> 250, w |-> 400, h |-> 250],
   anchored |-> TRUE, coverage |-> 80, raw |-> raw, cleaned |-> cleaned]

Good(box) == Matte(90, 80, box)

Wide == Picture(640, 480, Good(Box(200, 40, 460, 480)), Good(Box(200, 40, 460, 480)))

\* A phone, a wide and a tiny picture, one whose refinement damages the face, one
\* with a broken matte, one whose foreground is lost; the wide one with another face
\* box and without one.
MCCaptures ==
  {Picture(720, 1280, Good(Box(20, 200, 700, 1280)), Good(Box(30, 210, 690, 1280))),
   Wide,
   Picture(20, 30, Good(Box(0, 0, 20, 30)), Good(Box(2, 1, 19, 30))),
   Picture(720, 1280, Matte(90, 80, Box(100, 150, 640, 1280)),
           Matte(70, 80, Box(300, 400, 640, 1280))),
   Picture(720, 1280, Matte(40, 80, Box(60, 200, 660, 1280)), Good(Box(60, 200, 660, 1280))),
   Picture(720, 1280, Good(NoBox), Good(NoBox)),
   [Wide EXCEPT !.face.x = 350], [Wide EXCEPT !.face.h = 0]}

\* One image, three, three that are too large together, two.
MCFrames ==
  {[count |-> 1, size |-> 2], [count |-> 3, size |-> 2], [count |-> 3, size |-> 6],
   [count |-> 2, size |-> 2]}

Symmetry == Permutations(Requests)
===============================================================================
