----------------------------- MODULE Session_MC -----------------------------
(* A disk that comes and goes, an array that mdadm.conf names, a volume group;  *)
(* an fstab that names a second disk.                                           *)
EXTENDS Session

CONSTANTS sda, sdb, md0, vg0, home, media, tmpfs

Order == (md0 :> 1) @@ (sda :> 2) @@ (sdb :> 3) @@ (vg0 :> 4)

E(first, last, type) == [first |-> first, last |-> last, extended |-> type = "Extended", type |-> type, on |-> NoPoint]
Content(table, parts, whole) == [table |-> table, parts |-> parts, whole |-> whole, readOnly |-> FALSE, smart |-> NoAnswer]

Gpt      == Content("gpt", <<E(2, 5, "Ext4"), E(8, 9, "Luks")>>, "Unknown")
\* The chain of logical partitions need not follow the sectors.
Msdos    == Content("msdos", <<E(2, 3, "Ext4"), E(4, 17, "Extended"), E(18, 19, "Swap"),
                               [E(12, 13, "Lvm2_PV") EXCEPT !.on = vg0], E(6, 7, "Ext4")>>, "Unknown")
FatDisk  == Content("msdos", <<>>, "Fat32")
Whole    == Content(NoTable, <<>>, "Ext4")
Nothing  == Content(NoTable, <<>>, "Unknown")
ReadOnly == [Gpt EXCEPT !.readOnly = TRUE]

\* Answers of smartctl: attributes at the threshold, above and below, with bad sectors, without a
\* threshold, with values that cannot be.
A(value, worst, raw, prefailure) == [value |-> value, worst |-> worst, thresh |-> 50, raw |-> raw, prefailure |-> prefailure]
Says(quirk, table) == [passed |-> TRUE, sectors |-> 2 ^ 20, quirk |-> quirk, table |-> table]
Answers ==
    {Says({}, (5 :> A(50, 50, 3, TRUE)) @@ (197 :> A(60, 60, 0, TRUE))),
     Says({}, (5 :> A(60, 60, 3, TRUE)) @@ (1 :> A(51, 50, 9, TRUE))),
     Says({}, (1 :> A(0, 50, 9, TRUE)) @@ (231 :> A(60, 60, 200, FALSE)) @@ (190 :> A(60, 60, 30, FALSE))
              @@ (9 :> A(40, 40, 300000, FALSE)) @@ (12 :> A(60, 60, 7, FALSE))),
     Says({"5_UNKNOWN", "190_UNKNOWN"}, (5 :> A(60, 60, 3, TRUE)) @@ (190 :> A(60, 60, 30, FALSE))
              @@ (197 :> [A(1, 1, 0, TRUE) EXCEPT !.thresh = 254])),
     Says({}, (197 :> A(60, 60, Long - 1, TRUE)))}

Ordered  == {Gpt, Msdos, FatDisk, Whole, Nothing, ReadOnly} \cup {[Nothing EXCEPT !.smart = a] : a \in Answers}

OnArray == Content("msdos", <<E(2, 5, "Ext4")>>, "Unknown")

\* A comment, a swap partition, a network or memory file system and the edited partition.
Swap == Line(4, Node(sdb, 2), NoPoint, TRUE)
TheFiles == {<<Line(0, tmpfs, NoPoint, FALSE), Line(5, tmpfs, media, FALSE), Swap>>,
             <<Swap, Line(6, Node(sda, 1), home, FALSE), Line(4, Node(sdb, 1), media, FALSE)>>}
EditedPartition == Node(sda, 1)
==============================================================================
