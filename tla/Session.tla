------------------------------ MODULE Session ------------------------------
(***************************************************************************)
(* A session of a front end: devices are scanned, and mount points edited, *)
(* while the scanner's thread reads the file that the helper writes.       *)
(***************************************************************************)
EXTENDS DeviceScan

vars == <<scanVars, fstabVars>>

Init == ScanInit /\ FstabInit

Next == \/ ScanNext /\ UNCHANGED fstabVars
        \/ FstabNext /\ UNCHANGED scanVars

Spec == Init /\ [][Next]_vars
==============================================================================
