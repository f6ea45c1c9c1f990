------------------------------- MODULE MCMac ---------------------------------
(* Two nodes among others, for TLC. *)
EXTENDS Mac

CONSTANTS n1, n2, far

TwoNodes == {n1, n2}
OneFar   == {far}

\* Another program's frame, with the length its header has in the standard.
Other(type, intra, dm, sm, dest, source, len) ==
    [type |-> type, intrapan |-> intra, dstmode |-> dm, srcmode |-> sm,
     dst |-> dest, src |-> source, paylen |-> len,
     rawlen |-> 3 + len
       + (CASE dm \in {"NOADDR", "RESERVED"} -> 0 [] dm = "ADDR2" -> 4 [] dm = "ADDR8" -> 10)
       + (CASE sm \in {"NOADDR", "RESERVED"} -> 0 [] sm = "ADDR2" -> 2 [] sm = "ADDR8" -> 8)
       + (IF intra \/ sm \in {"NOADDR", "RESERVED"} THEN 0 ELSE 2)]

\* Acknowledgements, beacons, commands, data between PANs, and data whose
\* addresses are long, missing, or those of another node.
OtherFrames ==
    {Other("ACK", FALSE, "NOADDR", "NOADDR", None, None, 0),
     Other("BEACON", FALSE, "NOADDR", "ADDR2", None, far, 4),
     Other("MACCMD", TRUE, "ADDR2", "ADDR2", n1, far, 1),
     Other("DATA", FALSE, "ADDR2", "ADDR2", n1, far, 6),
     Other("DATA", TRUE, "ADDR2", "ADDR2", far, far, 6),
     Other("DATA", TRUE, "ADDR8", "ADDR2", far, far, 5),
     Other("DATA", TRUE, "RESERVED", "ADDR2", far, far, 5),
     Other("DATA", TRUE, "ADDR2", "ADDR8", n1, far, 5)}

SomeLens == {116, 117}
SomeMtus == {5, 51, 127}
=============================================================================
