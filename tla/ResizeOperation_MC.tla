-------------------------- MODULE ResizeOperation_MC ---------------------------
(* Every pair of an old and a new place on a few sectors, with a file system  *)
(* as long as the partition or one sector shorter; a logical volume keeps its *)
(* first sector.                                                              *)
EXTENDS ResizeOperation

CONSTANT MaxSector

MCRequests ==
    { r \in [first : 0 .. MaxSector, last : 0 .. MaxSector,
             newFirst : 0 .. MaxSector, newLast : 0 .. MaxSector,
             fsLength : 1 .. MaxSector + 1, extended : BOOLEAN, checks : BOOLEAN, lvm : BOOLEAN] :
        /\ r.first <= r.last /\ r.newFirst <= r.newLast
        /\ <<r.first, r.last>> # <<r.newFirst, r.newLast>>
        /\ r.fsLength \in {r.last - r.first, r.last - r.first + 1}
        /\ r.extended => ~r.checks
        /\ r.lvm => ~r.extended /\ r.newFirst = r.first }
================================================================================
