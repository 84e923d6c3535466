---------------------------- MODULE MCUdsPlugin -----------------------------
(***************************************************************************)
(* UdsPlugin for TLC: any frames in any order, of lengths on both sides of *)
(* every boundary of the two announcing frames.                            *)
(***************************************************************************)
EXTENDS UdsPlugin

CONSTANTS MaxProcessed  \* bound: payloads processed per id

Heard_ ==
    LET F(p, n, s) == [pci |-> p, length |-> n, seq |-> s,
                       data |-> [i \in 1 .. 7 |->
                           IF i = 1 THEN SecurityAccess ELSE RequestSeed]]
    IN  {F("single", n, 0) : n \in {0, 1, 2, 7, 8, 15}}
          \cup {F("first", n, 0) : n \in {0, 5, 6, 7, 13, 14, 111, 112, 4095}}
          \cup {F("consecutive", 0, s) : s \in 0 .. 15}
          \cup {F(p, 0, 0) : p \in {"flowControl", "other"}}

BoundedNext ==
    Next /\ \A id \in UdsId : Len(processed'[id]) <= MaxProcessed

BoundedSpec == Init /\ [][BoundedNext]_pluginVars
=============================================================================
