\* A timeout of three turns, and up to three messages that mean nothing to
\* the loop: it can be used up by messages, by seconds, or by both.
CONSTANTS
  Timeout = 3
  CountModulus = 8
  MaxOther = 3
SPECIFICATION Spec
INVARIANTS
  ReturnIsJustified
  EndIsQueued
  WaitIsBounded
PROPERTY RequestEnds
