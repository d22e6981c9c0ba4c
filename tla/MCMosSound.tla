---- MODULE MCMosSound ----
(* Two channels, one note of room, bytes of four values. *)
EXTENDS MosSound
Note(s, h, env, d) == [s |-> s, h |-> h, env |-> env, d |-> d]
Single == Note(0, FALSE, FALSE, 1)
Held == Note(0, TRUE, FALSE, 1)
Endless == Note(0, FALSE, FALSE, 3)
Enveloped == Note(0, FALSE, TRUE, 0)
Chord == Note(1, FALSE, FALSE, 1)
ShortChord == Note(1, FALSE, TRUE, 0)
MixedNotes == {Held, Endless, Enveloped, Chord}
ChordNotes == {Single, Enveloped, Chord, ShortChord}
====
