---------------------------- MODULE MCLiveStates ----------------------------
(* TLC instance: a light with its state and its brightness.                   *)
EXTENDS LiveStates

CONSTANTS s, b, on, level

\* Both channels, the state alone, or one numeric command that feeds both.
Readbacks == {[ch \in Channel |-> IF ch = s THEN on ELSE level],
              [ch \in Channel |-> IF ch = s THEN on ELSE None],
              [ch \in Channel |-> level]}
=============================================================================
