-------------------------- MODULE MCProbeInventory --------------------------
(***************************************************************************)
(* Drivers with up to two devices; numbers inside, at and outside of each  *)
(* bound the probe or the parser has.  The text of a report has about 300  *)
(* bytes and 80 more for each row with a short name; 160 characters are up *)
(* to 480 bytes, so that two long names are as much beyond the scaled      *)
(* limit as the rows of many hundreds of devices are beyond the real one.  *)
(***************************************************************************)
EXTENDS ProbeInventory, Functions

MCBytes(rep) ==
    LET RowBytes(row) == 80 + (IF row.name = "long" THEN 480 ELSE 20) IN
    FoldFunction(+, 300, [i \in DOMAIN rep.devices |-> RowBytes(rep.devices[i])])

MCVersions == {0, 1000, 12000, 99999, 100000}
MCCounts == {-1, 0, 1, 2, 1025}
MCNames == {"plain", "long", "empty", "rooted", "drive"}
MCMajors == {0, 8, 12, 100}
MCMinors == {0, 9, 10, 100}
=============================================================================
