--------------------------- MODULE MCHandoffRelay ---------------------------
(* Small instances of the handoff relay for TLC. *)
EXTENDS HandoffRelay

CONSTANTS h1, j1, j2

Carrier == [m \in Message |-> IF m = h1 THEN j1 ELSE j2]

\* The run sends the first message and its processor sends the second.
Nested == [m \in Message |-> IF m = h1 THEN {Run} ELSE {j1}]
=============================================================================
