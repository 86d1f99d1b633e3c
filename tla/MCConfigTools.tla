--------------------------- MODULE MCConfigTools ---------------------------
(* Small instances of ConfigTools for TLC.                                 *)
EXTENDS ConfigTools, TLC

Symmetry == Permutations(Call)

Rule1to2 == << "r1", "r2" >>

\* Node n1 has a device behind a VMD controller, in domain 10000, with the bus
\* address of one in domain 0; n2 has domains of four digits only.
PciDevice(dom, addr) == [dom |-> dom, addr |-> addr]
TwoListings ==
    [n \in Node |-> IF n = "n1" THEN << PciDevice(65536, "01:00.0"), PciDevice(0, "01:00.0") >>
                                ELSE << PciDevice(0, "02:00.0"), PciDevice(1, "01:00.0") >>]

Path(dom, addr) == [dom |-> dom, addr |-> addr]
\* The last of them is not there: n2's device at that address is in domain 1.
ThreeWanted == { [node |-> "n1", path |-> Path(0, "01:00.0")],
                 [node |-> "n2", path |-> Path(NoDomain, "01:00.0")],
                 [node |-> "n2", path |-> Path(0, "01:00.0")] }
=============================================================================
