--------------------------- MODULE MCSpeechQueue ---------------------------
(* Small instances of SpeechQueue for TLC. *)
EXTENDS SpeechQueue, TLC

(* Texts other than the voice thread's answer are alike. *)
TextSymmetry == Permutations(Texts \ {Reply})
=============================================================================
