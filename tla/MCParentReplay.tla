--------------------------- MODULE MCParentReplay ---------------------------
(***************************************************************************)
(* Small instances of ParentReplay.                                        *)
(***************************************************************************)
EXTENDS ParentReplay

CONSTANTS s1, s2, req, alt

EmptySlot == [active |-> Null, ctip |-> Null, value |-> 0]

\* Replay version 5: the empty bootstrap.
BetanetBootstrap == [s \in Slots |-> EmptySlot]

\* Replay version 4: some other slot is active and holds a treasury.
AlphaBootstrap ==
  [s \in Slots |-> IF s = ConfiguredSlot THEN EmptySlot
     ELSE [active |-> req, ctip |-> [height |-> 0, tx |-> 0, vout |-> 1], value |-> 1]]
=============================================================================
