----------------------------- MODULE SpeechTexts -----------------------------
(* What is said in SpeechQueue, and how much of it may wait.                 *)
EXTENDS Integers

CONSTANTS
  Texts,     \* the requests, each made at most once, none of them blank
  Reply,     \* the one the voice thread makes
  Stop,      \* None, the sentinel of the queue
  MaxQueue   \* _MAX_QUEUE_SIZE

ASSUME SpeechAssumption ==
  /\ Reply \in Texts /\ Stop \notin Texts
  /\ MaxQueue \in Nat \ {0}
=============================================================================
