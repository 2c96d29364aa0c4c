----------------------------- MODULE MCLiveQuality -----------------------------
(* An instance of LiveQuality: the preview shows pictures around every threshold, *)
(* the burst takes six kinds of pictures.                                        *)
EXTENDS LiveQuality

Face(confidence, coverage, x, y) ==
  [confidence |-> confidence, coverage |-> coverage, x |-> x, y |-> y]
Eyes(x, y, eyes) == [x |-> x, y |-> y, eyes |-> eyes]

Person == Face(90, 30, 50, 50)
Passerby == Face(80, 5, 90, 90)
Open == Eyes(50, 50, "open")

Scene(faces, landmarks) == [faces |-> faces, landmarks |-> landmarks]

\* The last two: the landmarker sees a face that the detector does not, or only the one
\* in the background.
MCScenes ==
  {Scene(<<>>, <<>>), Scene(<<Person>>, <<Open>>), Scene(<<Person>>, <<Eyes(50, 50, "closed")>>),
   Scene(<<Person>>, <<Eyes(50, 50, "unknown")>>), Scene(<<Person>>, <<>>),
   Scene(<<Face(50, 8, 55, 50)>>, <<Eyes(55, 50, "open")>>),
   Scene(<<Face(90, 7, 50, 50)>>, <<Open>>), Scene(<<Face(90, 61, 50, 50)>>, <<Open>>),
   Scene(<<Face(90, 30, 75, 80)>>, <<Eyes(75, 80, "open")>>),
   Scene(<<Face(90, 30, 76, 80)>>, <<Eyes(76, 80, "open")>>),
   Scene(<<Person, Face(80, 9, 20, 20)>>, <<Open, Eyes(20, 20, "closed")>>),
   Scene(<<Person, Passerby>>, <<Open, Eyes(90, 90, "closed")>>),
   Scene(<<Person, Passerby>>, <<Eyes(50, 50, "closed"), Eyes(90, 90, "open")>>),
   Scene(<<Person, Face(80, 40, 99, 99)>>, <<Open, Eyes(99, 99, "open")>>),
   Scene(<<Person>>, <<Eyes(20, 20, "closed"), Open>>),
   Scene(<<Person, Passerby>>, <<Eyes(90, 90, "open")>>)}

Light(mean, dark, bright) == [mean |-> mean, dark |-> dark, bright |-> bright]
MCLights == {Light(50, 0, 0), Light(24, 0, 0), Light(86, 0, 0), Light(50, 41, 0),
             Light(50, 20, 0), Light(25, 10, 10), Light(50, 0, 36)}

Picture(light, contrast, sharpness, scene) ==
  [built |-> TRUE, detected |-> TRUE, large |-> TRUE, mean |-> light.mean,
   dark |-> light.dark, bright |-> light.bright, contrast |-> contrast,
   sharpness |-> sharpness, faces |-> scene.faces, landmarks |-> scene.landmarks]

Good(scene) == Picture(Light(50, 0, 0), 8, 100, scene)

\* At most one flaw besides those of the faces.
MCFrames ==
  UNION {{Good(scene), [Good(scene) EXCEPT !.large = FALSE], [Good(scene) EXCEPT !.contrast = 7],
          [Good(scene) EXCEPT !.sharpness = 69]}
         \cup {Picture(light, 8, 100, scene) : light \in MCLights} : scene \in MCScenes}

\* Two of them have the same quality and another confidence; one is not analysed.
Alone(face) == Good(Scene(<<face>>, <<Eyes(face.x, face.y, "open")>>))
MCBurstFrames ==
  {Alone(Person), Alone(Face(90, 30, 55, 50)), Alone(Face(40, 30, 50, 50)),
   Alone(Face(80, 30, 50, 50)), [Alone(Person) EXCEPT !.sharpness = 99],
   [Alone(Person) EXCEPT !.built = FALSE, !.detected = FALSE, !.faces = <<>>, !.landmarks = <<>>]}
===============================================================================
