------------------------- MODULE FileSystemJobs_proofs -------------------------
(***************************************************************************)
(* Proofs about the jobs on a file system, for every choice of types, of   *)
(* the partition's length, of the commands that are installed and for any  *)
(* number of operations.  What they need of the classes is stated once     *)
(* (ClassSound) and looked up type by type.  The invariant says what each  *)
(* of the jobs that is still ahead is going to establish.                  *)
(***************************************************************************)
EXTENDS FileSystemJobs, SequenceTheorems, TLAPS

IsSeq(s) == \E S : s \in Seq(S)

--------------------------------------------------------------------------------
(* Short sequences.                                                        *)

\* Sequences of up to three elements.
LEMMA Lists ==
    /\ IsSeq(<< >>) /\ Len(<< >>) = 0
    /\ \A x : IsSeq(<<x>>) /\ Len(<<x>>) = 1 /\ <<x>>[1] = x
    /\ \A x, y : IsSeq(<<x, y>>) /\ Len(<<x, y>>) = 2 /\ <<x, y>>[1] = x /\ <<x, y>>[2] = y
    /\ \A x, y, z : /\ IsSeq(<<x, y, z>>) /\ Len(<<x, y, z>>) = 3
                    /\ <<x, y, z>>[1] = x /\ <<x, y, z>>[2] = y /\ <<x, y, z>>[3] = z
<1>1. << >> \in Seq({}) /\ Len(<< >>) = 0
  OBVIOUS
<1>2. \A x : <<x>> \in Seq({x}) /\ Len(<<x>>) = 1 /\ <<x>>[1] = x
  OBVIOUS
<1>3. \A x, y : <<x, y>> \in Seq({x, y}) /\ Len(<<x, y>>) = 2 /\ <<x, y>>[1] = x /\ <<x, y>>[2] = y
  OBVIOUS
<1>4. \A x, y, z : /\ <<x, y, z>> \in Seq({x, y, z}) /\ Len(<<x, y, z>>) = 3
                   /\ <<x, y, z>>[1] = x /\ <<x, y, z>>[2] = y /\ <<x, y, z>>[3] = z
  OBVIOUS
<1> QED
  BY <1>1, <1>2, <1>3, <1>4 DEF IsSeq

\* The length and the domain of a sequence.
LEMMA Domains ==
    ASSUME NEW s, IsSeq(s)
    PROVE  Len(s) \in Nat /\ DOMAIN s = 1 .. Len(s) /\ (s # << >> => Len(s) >= 1)
<1>1. PICK S : s \in Seq(S)
  BY DEF IsSeq
<1> QED
  BY <1>1, LenProperties, EmptySeq

\* The rest of a sequence.
LEMMA Tails ==
    ASSUME NEW s, IsSeq(s), s # << >>
    PROVE  /\ IsSeq(Tail(s)) /\ Len(Tail(s)) = Len(s) - 1 /\ Head(s) = s[1]
           /\ \A i \in 1 .. Len(s) - 1 : Tail(s)[i] = s[i + 1]
<1>1. PICK S : s \in Seq(S)
  BY DEF IsSeq
<1> QED
  BY <1>1, HeadTailProperties DEF IsSeq

--------------------------------------------------------------------------------
(* What the proofs need of the classes.                                    *)

Unwritten == {"unformatted", "freebsdswap"}
Fillers   == {"f2fs", "jfs", "linuxswap", "xfs"}

\* One command, and its failure counts.
Single(s, effects) == IsSeq(s) /\ Len(s) = 1 /\ s[1].does \in effects /\ ~s[1].lax
\* The command that changes the length counts, and what is mounted for it is unmounted.
Resizes(s, effects) ==
    \/ Single(s, effects)
    \/ /\ IsSeq(s) /\ Len(s) = 2 /\ s[1].does = "try"
       /\ s[2].does \in effects /\ ~s[2].lax
    \/ /\ IsSeq(s) /\ Len(s) = 3 /\ s[1].does = "mount" /\ s[3].does = "umount" /\ s[3].lax
       /\ s[2].does \in effects /\ ~s[2].lax
\* The pool is exported and imported again.
Reimports(s) == /\ IsSeq(s) /\ Len(s) = 2
                /\ s[1].does = "export" /\ s[2].does = "import" /\ ~s[2].lax

\* What the method m of class t runs.
Form(m, s, t) ==
    LET resize == IF t \in Fillers THEN {"resize", "fill"} ELSE {"resize"}
    IN  /\ m # "remove"
        /\ m = "check" => Single(s, {"check"})
        /\ m = "resize" => Resizes(s, resize)
        /\ m = "resizeOnline" => Single(s, resize)
        /\ m = "writeLabel" =>
              \/ t # "zfs" /\ Single(s, {"label"})
              \/ t = "zfs" /\ Reimports(s)
              \/ t = "ntfs" /\ IsSeq(s) /\ Len(s) = 1 /\ s[1].does = "label"
        /\ m = "writeLabelOnline" => Single(s, {"label"})
        /\ m = "create" => IF t \in Unwritten THEN s = << >> ELSE Single(s, {"format"})
        /\ m = "createWithLabel" => Single(s, {"formatLabel"})
        /\ m = "copy" => Single(s, IF t = "linuxswap" THEN {"fillCopy"} ELSE {"copy"})
        /\ m = "updateUUID" => Single(s, {"uuid"})
        /\ m = "updateBootSector" => /\ IsSeq(s) /\ Len(s) = 2
                                     /\ s[1].does = "boot" /\ s[2].does = "boot"

\* The methods that a class overrides.
Overridden(f, t) == IF t \in DOMAIN Runs(f) THEN DOMAIN Runs(f)[t] ELSE {}
\* The operations that it supports online like offline.
AlsoOnline(t)    == IF t \in DOMAIN Onlines THEN Onlines[t] ELSE {}

\* A class overrides the methods of what it supports.
Covers(f, t) ==
    LET can == DOMAIN Inits(f)[t]
    IN  /\ ("Grow" \in can \/ "Shrink" \in can) /\ t # "freebsdswap" => "resize" \in Overridden(f, t)
        /\ "Shrink" \in can /\ t # "linuxswap" => t \notin Fillers
        /\ \A o \in can \cap AlsoOnline(t) : o \in {"Grow", "Shrink"} => "resizeOnline" \in Overridden(f, t)
        /\ "SetLabel" \in can /\ t # "bcachefs" =>
              /\ "writeLabel" \in Overridden(f, t)
              /\ "SetLabel" \in AlsoOnline(t) => "writeLabelOnline" \in Overridden(f, t)
        /\ "Create" \in can => "create" \in Overridden(f, t)
        /\ "CreateWithLabel" \in can => "createWithLabel" \in Overridden(f, t) /\ t \notin Unwritten
        /\ "Copy" \in can /\ Inits(f)[t]["Copy"].by = "tool" => "copy" \in Overridden(f, t)

ClassSound(f, t) == /\ \A m \in Overridden(f, t) : Form(m, Runs(f)[t][m], t)
                    /\ Covers(f, t)

\* The commands of one step.
LEMMA Commands ==
    /\ \A c, d : Cmd(c, d).does = d /\ ~Cmd(c, d).lax /\ Lax(c, d).does = d /\ Lax(c, d).lax
    /\ \A d : Write(d).does = d /\ ~Write(d).lax
BY DEF Cmd, Lax, Write

\* The forms of the methods.
LEMMA Forms ==
    /\ \A c, d, effects : d \in effects => Single(<<Cmd(c, d)>>, effects)
    /\ \A d, effects : d \in effects => Single(<<Write(d)>>, effects)
    /\ \A c, d, effects : d \in effects => Resizes(<<Cmd(c, d)>>, effects)
    /\ \A c, b, d, effects : d \in effects => Resizes(<<Cmd(c, "try"), Cmd(b, d)>>, effects)
    /\ \A c, b, d, effects : d \in effects =>
          /\ Resizes(Mounted(Cmd(b, "mount"), Cmd(c, d)), effects)
          /\ Resizes(Mounted(Lax(b, "mount"), Cmd(c, d)), effects)
    /\ \A b, c : Reimports(<<Cmd(b, "export"), Cmd(c, "import")>>)
    /\ \A c : IsSeq(<<Lax(c, "label")>>) /\ Len(<<Lax(c, "label")>>) = 1 /\ <<Lax(c, "label")>>[1].does = "label"
    /\ /\ IsSeq(<<Write("boot"), Write("boot")>>) /\ Len(<<Write("boot"), Write("boot")>>) = 2
       /\ <<Write("boot"), Write("boot")>>[1].does = "boot"
       /\ <<Write("boot"), Write("boot")>>[2].does = "boot"
BY Lists, Commands DEF Single, Resizes, Reimports, Mounted

\* A table over another one.
LEMMA OverDomain ==
    ASSUME NEW own, NEW base
    PROVE  DOMAIN (own ++ base) = DOMAIN own \cup DOMAIN base
BY DEF ++

LEMMA OverOwn ==
    ASSUME NEW own, NEW base, NEW x, x \in DOMAIN own
    PROVE  (own ++ base)[x] = own[x]
BY DEF ++

LEMMA OverBase ==
    ASSUME NEW own, NEW base, NEW x, x \in DOMAIN base, x \notin DOMAIN own
    PROVE  (own ++ base)[x] = base[x]
BY DEF ++

\* What is only checked is copied by the library.
LEMMA CopyByCore ==
    ASSUME NEW base, NEW own, own = Blocks \/ \E c : own = Checked(c)
    PROVE  /\ DOMAIN (own ++ base) = {"Copy", "Move", "Backup"} \cup DOMAIN base
           /\ (own ++ base)["Copy"].by = "core"
<1>1. DOMAIN own = {"Copy", "Move", "Backup"}
  BY DEF Checked, Blocks
<1>2. own["Copy"].by = "core"
  BY DEF Checked, Blocks, Core
<1>3. (own ++ base)["Copy"] = own["Copy"]
  BY <1>1, OverOwn
<1>4. DOMAIN (own ++ base) = DOMAIN own \cup DOMAIN base
  BY OverDomain
<1> QED
  BY <1>1, <1>2, <1>3, <1>4

\* The library copies what it only checks.
LEMMA CheckedDomain ==
    \A c, base : DOMAIN (Checked(c) ++ base) = {"Copy", "Move", "Backup"} \cup DOMAIN base
BY CopyByCore

LEMMA BlocksDomain == \A base : DOMAIN (Blocks ++ base) = {"Copy", "Move", "Backup"} \cup DOMAIN base
BY CopyByCore

LEMMA CopiedByCore ==
    /\ \A base, c : (Checked(c) ++ base)["Copy"].by = "core"
    /\ \A base : (Blocks ++ base)["Copy"].by = "core"
BY CopyByCore

\* What the classes that the library copies for support.
LEMMA Supports ==
    ASSUME NEW f
    PROVE  /\ DOMAIN Ext2Init = {"Copy", "Move", "Backup", "Create", "Check", "Grow", "Shrink", "SetLabel", "UpdateUUID"}
           /\ DOMAIN Fat12Init = {"Copy", "Move", "Backup", "Create", "Check", "SetLabel", "UpdateUUID"}
           /\ DOMAIN Fat16Init = {"Copy", "Move", "Backup", "Create", "Check", "SetLabel", "UpdateUUID", "Grow", "Shrink"}
           /\ DOMAIN ExfatInit(f) = {"Copy", "Move", "Backup", "Create", "Check", "SetLabel"}
           /\ DOMAIN BtrfsInit = {"Copy", "Move", "Backup", "Create", "Check", "Grow", "Shrink", "SetLabel", "UpdateUUID"}
           /\ DOMAIN BcachefsInit = {"Copy", "Move", "Backup", "Create", "Check", "Grow", "SetLabel"}
           /\ DOMAIN F2fsInit = {"Copy", "Move", "Backup", "Create", "Check", "Grow", "SetLabel"}
           /\ DOMAIN HfsInit = {"Copy", "Move", "Backup", "Create", "Check"}
           /\ DOMAIN HfsplusInit = {"Copy", "Move", "Backup", "Create", "Check"}
           /\ DOMAIN JfsInit = {"Copy", "Move", "Backup", "Create", "Check", "Grow", "SetLabel"}
           /\ DOMAIN MinixInit = {"Copy", "Move", "Backup", "Create", "Check"}
           /\ DOMAIN Nilfs2Init = {"Copy", "Move", "Backup", "Create", "Grow", "Shrink", "SetLabel", "UpdateUUID"}
           /\ DOMAIN Ocfs2Init = {"Copy", "Move", "Backup", "Create", "Check", "Grow", "SetLabel", "UpdateUUID"}
           /\ DOMAIN UdfInit = {"Copy", "Move", "Backup", "Create", "CreateWithLabel", "SetLabel", "UpdateUUID"}
           /\ DOMAIN Reiser4Init = {"Copy", "Move", "Backup", "Create", "Check"}
           /\ DOMAIN ReiserfsInit = {"Copy", "Move", "Backup", "Create", "Check", "Grow", "Shrink", "SetLabel", "UpdateUUID"}
           /\ Ext2Init["Copy"].by = "core"
           /\ Fat12Init["Copy"].by = "core"
           /\ Fat16Init["Copy"].by = "core"
           /\ ExfatInit(f)["Copy"].by = "core"
           /\ BtrfsInit["Copy"].by = "core"
           /\ BcachefsInit["Copy"].by = "core"
           /\ F2fsInit["Copy"].by = "core"
           /\ HfsInit["Copy"].by = "core"
           /\ HfsplusInit["Copy"].by = "core"
           /\ JfsInit["Copy"].by = "core"
           /\ MinixInit["Copy"].by = "core"
           /\ Nilfs2Init["Copy"].by = "core"
           /\ Ocfs2Init["Copy"].by = "core"
           /\ UdfInit["Copy"].by = "core"
           /\ Reiser4Init["Copy"].by = "core"
           /\ ReiserfsInit["Copy"].by = "core"
<1>1. DOMAIN Ext2Init = {"Copy", "Move", "Backup", "Create", "Check", "Grow", "Shrink", "SetLabel", "UpdateUUID"}
  BY CheckedDomain DEF Ext2Init
<1>2. Ext2Init["Copy"].by = "core"
  BY CopiedByCore DEF Ext2Init
<1>3. DOMAIN Fat12Init = {"Copy", "Move", "Backup", "Create", "Check", "SetLabel", "UpdateUUID"}
  BY BlocksDomain DEF Fat12Init
<1>4. Fat12Init["Copy"].by = "core"
  BY CopiedByCore DEF Fat12Init
<1>5. DOMAIN Fat16Init = {"Copy", "Move", "Backup", "Create", "Check", "SetLabel", "UpdateUUID", "Grow", "Shrink"}
  <2>1. \A base : DOMAIN (Fat12Init ++ base) = DOMAIN Fat12Init \cup DOMAIN base
    BY OverDomain
  <2> QED
    BY <1>3, <2>1 DEF Fat16Init
<1>6. Fat16Init["Copy"].by = "core"
  BY <1>3, <1>4, OverOwn DEF Fat16Init
<1>7. DOMAIN ExfatInit(f) = {"Copy", "Move", "Backup", "Create", "Check", "SetLabel"}
  BY CheckedDomain DEF ExfatInit
<1>8. ExfatInit(f)["Copy"].by = "core"
  BY CopiedByCore DEF ExfatInit
<1>9. DOMAIN BtrfsInit = {"Copy", "Move", "Backup", "Create", "Check", "Grow", "Shrink", "SetLabel", "UpdateUUID"}
  BY CheckedDomain DEF BtrfsInit
<1>10. BtrfsInit["Copy"].by = "core"
  BY CopiedByCore DEF BtrfsInit
<1>11. DOMAIN BcachefsInit = {"Copy", "Move", "Backup", "Create", "Check", "Grow", "SetLabel"}
  BY CheckedDomain DEF BcachefsInit
<1>12. BcachefsInit["Copy"].by = "core"
  BY CopiedByCore DEF BcachefsInit
<1>13. DOMAIN F2fsInit = {"Copy", "Move", "Backup", "Create", "Check", "Grow", "SetLabel"}
  BY CheckedDomain DEF F2fsInit
<1>14. F2fsInit["Copy"].by = "core"
  BY CopiedByCore DEF F2fsInit
<1>15. DOMAIN HfsInit = {"Copy", "Move", "Backup", "Create", "Check"}
  BY CheckedDomain DEF HfsInit
<1>16. HfsInit["Copy"].by = "core"
  BY CopiedByCore DEF HfsInit
<1>17. DOMAIN HfsplusInit = {"Copy", "Move", "Backup", "Create", "Check"}
  BY CheckedDomain DEF HfsplusInit
<1>18. HfsplusInit["Copy"].by = "core"
  BY CopiedByCore DEF HfsplusInit
<1>19. DOMAIN JfsInit = {"Copy", "Move", "Backup", "Create", "Check", "Grow", "SetLabel"}
  BY CheckedDomain DEF JfsInit
<1>20. JfsInit["Copy"].by = "core"
  BY CopiedByCore DEF JfsInit
<1>21. DOMAIN MinixInit = {"Copy", "Move", "Backup", "Create", "Check"}
  BY CheckedDomain DEF MinixInit
<1>22. MinixInit["Copy"].by = "core"
  BY CopiedByCore DEF MinixInit
<1>23. DOMAIN Ocfs2Init = {"Copy", "Move", "Backup", "Create", "Check", "Grow", "SetLabel", "UpdateUUID"}
  BY CheckedDomain DEF Ocfs2Init
<1>24. Ocfs2Init["Copy"].by = "core"
  BY CopiedByCore DEF Ocfs2Init
<1>25. DOMAIN UdfInit = {"Copy", "Move", "Backup", "Create", "CreateWithLabel", "SetLabel", "UpdateUUID"}
  BY BlocksDomain DEF UdfInit
<1>26. UdfInit["Copy"].by = "core"
  BY CopiedByCore DEF UdfInit
<1>27. DOMAIN Reiser4Init = {"Copy", "Move", "Backup", "Create", "Check"}
  BY CheckedDomain DEF Reiser4Init
<1>28. Reiser4Init["Copy"].by = "core"
  BY CopiedByCore DEF Reiser4Init
<1>29. DOMAIN ReiserfsInit = {"Copy", "Move", "Backup", "Create", "Check", "Grow", "Shrink", "SetLabel", "UpdateUUID"}
  BY CheckedDomain DEF ReiserfsInit
<1>30. ReiserfsInit["Copy"].by = "core"
  BY CopiedByCore DEF ReiserfsInit
<1>31. DOMAIN Nilfs2Init = {"Copy", "Move", "Backup", "Create", "Grow", "Shrink", "SetLabel", "UpdateUUID"}
  BY BlocksDomain DEF Nilfs2Init
<1>32. Nilfs2Init["Copy"].by = "core"
  BY CopiedByCore DEF Nilfs2Init
<1> QED
  BY <1>1, <1>2, <1>3, <1>4, <1>5, <1>6, <1>7, <1>8, <1>9, <1>10, <1>11, <1>12, <1>13, <1>14, <1>15, <1>16, <1>17, <1>18, <1>19, <1>20, <1>21, <1>22, <1>23, <1>24, <1>25, <1>26, <1>27, <1>28, <1>29, <1>30, <1>31, <1>32

\* The classes of the types.
LEMMA TableOf ==
    ASSUME NEW f
    PROVE  /\ Inits(f)["ext2"] = Ext2Init /\ Inits(f)["ext3"] = Ext2Init /\ Inits(f)["ext4"] = Ext2Init
           /\ Inits(f)["fat12"] = Fat12Init /\ Inits(f)["fat16"] = Fat16Init
           /\ Inits(f)["fat32"] = Fat16Init /\ Inits(f)["exfat"] = ExfatInit(f)
           /\ Inits(f)["btrfs"] = BtrfsInit /\ Inits(f)["bcachefs"] = BcachefsInit
           /\ Inits(f)["f2fs"] = F2fsInit /\ Inits(f)["hfs"] = HfsInit
           /\ Inits(f)["hfsplus"] = HfsplusInit /\ Inits(f)["jfs"] = JfsInit
           /\ Inits(f)["linuxswap"] = LinuxswapInit /\ Inits(f)["freebsdswap"] = FreebsdswapInit
           /\ Inits(f)["minix"] = MinixInit /\ Inits(f)["nilfs2"] = Nilfs2Init
           /\ Inits(f)["ntfs"] = NtfsInit /\ Inits(f)["ocfs2"] = Ocfs2Init /\ Inits(f)["udf"] = UdfInit
           /\ Inits(f)["reiser4"] = Reiser4Init /\ Inits(f)["reiserfs"] = ReiserfsInit
           /\ Inits(f)["xfs"] = XfsInit /\ Inits(f)["zfs"] = ZfsInit /\ Inits(f)["apfs"] = ApfsInit
           /\ Inits(f)["bitlocker"] = BitlockerInit /\ Inits(f)["ufs"] = UfsInit
           /\ Inits(f)["unknown"] = UnknownInit /\ Inits(f)["unformatted"] = UnformattedInit
           /\ Inits(f)["hpfs"] = HpfsInit /\ Inits(f)["iso9660"] = HpfsInit
           /\ Inits(f)["linuxraidmember"] = HpfsInit /\ "ext2" \in DOMAIN Runs(f)
           /\ "ext3" \in DOMAIN Runs(f) /\ "ext4" \in DOMAIN Runs(f) /\ "fat12" \in DOMAIN Runs(f)
           /\ "fat16" \in DOMAIN Runs(f) /\ "fat32" \in DOMAIN Runs(f) /\ "exfat" \in DOMAIN Runs(f)
           /\ "btrfs" \in DOMAIN Runs(f) /\ "bcachefs" \in DOMAIN Runs(f) /\ "f2fs" \in DOMAIN Runs(f)
           /\ "hfs" \in DOMAIN Runs(f) /\ "hfsplus" \in DOMAIN Runs(f) /\ "jfs" \in DOMAIN Runs(f)
           /\ "linuxswap" \in DOMAIN Runs(f) /\ "freebsdswap" \in DOMAIN Runs(f)
           /\ "minix" \in DOMAIN Runs(f) /\ "nilfs2" \in DOMAIN Runs(f) /\ "ntfs" \in DOMAIN Runs(f)
           /\ "ocfs2" \in DOMAIN Runs(f) /\ "udf" \in DOMAIN Runs(f) /\ "reiser4" \in DOMAIN Runs(f)
           /\ "reiserfs" \in DOMAIN Runs(f) /\ "xfs" \in DOMAIN Runs(f) /\ "zfs" \in DOMAIN Runs(f)
           /\ "unformatted" \in DOMAIN Runs(f) /\ "apfs" \notin DOMAIN Runs(f)
           /\ "bitlocker" \notin DOMAIN Runs(f) /\ "ufs" \notin DOMAIN Runs(f)
           /\ "unknown" \notin DOMAIN Runs(f) /\ "hpfs" \notin DOMAIN Runs(f)
           /\ "iso9660" \notin DOMAIN Runs(f) /\ "linuxraidmember" \notin DOMAIN Runs(f)
           /\ Runs(f)["ext2"] = Ext2Runs /\ Runs(f)["ext3"] = Ext3Runs /\ Runs(f)["ext4"] = Ext4Runs
           /\ Runs(f)["fat12"] = Fat12Runs /\ Runs(f)["fat16"] = Fat16Runs
           /\ Runs(f)["fat32"] = Fat32Runs /\ Runs(f)["exfat"] = ExfatRuns(f)
           /\ Runs(f)["btrfs"] = BtrfsRuns /\ Runs(f)["bcachefs"] = BcachefsRuns
           /\ Runs(f)["f2fs"] = F2fsRuns /\ Runs(f)["hfs"] = HfsRuns /\ Runs(f)["hfsplus"] = HfsplusRuns
           /\ Runs(f)["jfs"] = JfsRuns /\ Runs(f)["linuxswap"] = LinuxswapRuns
           /\ Runs(f)["freebsdswap"] = FreebsdswapRuns /\ Runs(f)["minix"] = MinixRuns
           /\ Runs(f)["nilfs2"] = Nilfs2Runs /\ Runs(f)["ntfs"] = NtfsRuns
           /\ Runs(f)["ocfs2"] = Ocfs2Runs /\ Runs(f)["udf"] = UdfRuns
           /\ Runs(f)["reiser4"] = Reiser4Runs /\ Runs(f)["reiserfs"] = ReiserfsRuns
           /\ Runs(f)["xfs"] = XfsRuns /\ Runs(f)["zfs"] = ZfsRuns
           /\ Runs(f)["unformatted"] = UnformattedRuns /\ "ext2" \in DOMAIN Onlines
           /\ "ext3" \in DOMAIN Onlines /\ "ext4" \in DOMAIN Onlines /\ "fat12" \in DOMAIN Onlines
           /\ "fat16" \in DOMAIN Onlines /\ "fat32" \in DOMAIN Onlines /\ "exfat" \in DOMAIN Onlines
           /\ "btrfs" \in DOMAIN Onlines /\ "bcachefs" \in DOMAIN Onlines /\ "f2fs" \in DOMAIN Onlines
           /\ "hfs" \in DOMAIN Onlines /\ "hfsplus" \in DOMAIN Onlines /\ "jfs" \in DOMAIN Onlines
           /\ "linuxswap" \in DOMAIN Onlines /\ "freebsdswap" \in DOMAIN Onlines
           /\ "minix" \in DOMAIN Onlines /\ "nilfs2" \in DOMAIN Onlines /\ "ntfs" \in DOMAIN Onlines
           /\ "ocfs2" \in DOMAIN Onlines /\ "udf" \in DOMAIN Onlines /\ "reiser4" \in DOMAIN Onlines
           /\ "reiserfs" \in DOMAIN Onlines /\ "xfs" \in DOMAIN Onlines /\ "zfs" \in DOMAIN Onlines
           /\ "apfs" \notin DOMAIN Onlines /\ "bitlocker" \notin DOMAIN Onlines
           /\ "ufs" \notin DOMAIN Onlines /\ "unknown" \notin DOMAIN Onlines
           /\ "unformatted" \notin DOMAIN Onlines /\ "hpfs" \notin DOMAIN Onlines
           /\ "iso9660" \notin DOMAIN Onlines /\ "linuxraidmember" \notin DOMAIN Onlines
           /\ Onlines["ext2"] = Ext2Online /\ Onlines["ext3"] = Ext3Online
           /\ Onlines["ext4"] = Ext4Online /\ Onlines["fat12"] = Fat12Online
           /\ Onlines["fat16"] = Fat16Online /\ Onlines["fat32"] = Fat32Online
           /\ Onlines["exfat"] = ExfatOnline /\ Onlines["btrfs"] = BtrfsOnline
           /\ Onlines["bcachefs"] = BcachefsOnline /\ Onlines["f2fs"] = F2fsOnline
           /\ Onlines["hfs"] = HfsOnline /\ Onlines["hfsplus"] = HfsplusOnline
           /\ Onlines["jfs"] = JfsOnline /\ Onlines["linuxswap"] = LinuxswapOnline
           /\ Onlines["freebsdswap"] = FreebsdswapOnline /\ Onlines["minix"] = MinixOnline
           /\ Onlines["nilfs2"] = Nilfs2Online /\ Onlines["ntfs"] = NtfsOnline
           /\ Onlines["ocfs2"] = Ocfs2Online /\ Onlines["udf"] = UdfOnline
           /\ Onlines["reiser4"] = Reiser4Online /\ Onlines["reiserfs"] = ReiserfsOnline
           /\ Onlines["xfs"] = XfsOnline /\ Onlines["zfs"] = ZfsOnline
<1>1. /\ Inits(f)["ext2"] = Ext2Init /\ Inits(f)["ext3"] = Ext2Init /\ Inits(f)["ext4"] = Ext2Init
      /\ Inits(f)["fat12"] = Fat12Init /\ Inits(f)["fat16"] = Fat16Init /\ Inits(f)["fat32"] = Fat16Init
      /\ Inits(f)["exfat"] = ExfatInit(f) /\ Inits(f)["btrfs"] = BtrfsInit
      /\ Inits(f)["bcachefs"] = BcachefsInit /\ Inits(f)["f2fs"] = F2fsInit /\ Inits(f)["hfs"] = HfsInit
      /\ Inits(f)["hfsplus"] = HfsplusInit /\ Inits(f)["jfs"] = JfsInit
      /\ Inits(f)["linuxswap"] = LinuxswapInit /\ Inits(f)["freebsdswap"] = FreebsdswapInit
      /\ Inits(f)["minix"] = MinixInit /\ Inits(f)["nilfs2"] = Nilfs2Init /\ Inits(f)["ntfs"] = NtfsInit
      /\ Inits(f)["ocfs2"] = Ocfs2Init /\ Inits(f)["udf"] = UdfInit /\ Inits(f)["reiser4"] = Reiser4Init
      /\ Inits(f)["reiserfs"] = ReiserfsInit /\ Inits(f)["xfs"] = XfsInit /\ Inits(f)["zfs"] = ZfsInit
      /\ Inits(f)["apfs"] = ApfsInit /\ Inits(f)["bitlocker"] = BitlockerInit
      /\ Inits(f)["ufs"] = UfsInit /\ Inits(f)["unknown"] = UnknownInit
      /\ Inits(f)["unformatted"] = UnformattedInit /\ Inits(f)["hpfs"] = HpfsInit
      /\ Inits(f)["iso9660"] = HpfsInit /\ Inits(f)["linuxraidmember"] = HpfsInit
  BY DEF Inits
<1>2. /\ "ext2" \in DOMAIN Runs(f) /\ "ext3" \in DOMAIN Runs(f) /\ "ext4" \in DOMAIN Runs(f)
      /\ "fat12" \in DOMAIN Runs(f) /\ "fat16" \in DOMAIN Runs(f) /\ "fat32" \in DOMAIN Runs(f)
      /\ "exfat" \in DOMAIN Runs(f) /\ "btrfs" \in DOMAIN Runs(f) /\ "bcachefs" \in DOMAIN Runs(f)
      /\ "f2fs" \in DOMAIN Runs(f) /\ "hfs" \in DOMAIN Runs(f) /\ "hfsplus" \in DOMAIN Runs(f)
      /\ "jfs" \in DOMAIN Runs(f) /\ "linuxswap" \in DOMAIN Runs(f) /\ "freebsdswap" \in DOMAIN Runs(f)
      /\ "minix" \in DOMAIN Runs(f) /\ "nilfs2" \in DOMAIN Runs(f) /\ "ntfs" \in DOMAIN Runs(f)
      /\ "ocfs2" \in DOMAIN Runs(f) /\ "udf" \in DOMAIN Runs(f) /\ "reiser4" \in DOMAIN Runs(f)
      /\ "reiserfs" \in DOMAIN Runs(f) /\ "xfs" \in DOMAIN Runs(f) /\ "zfs" \in DOMAIN Runs(f)
      /\ "unformatted" \in DOMAIN Runs(f) /\ "apfs" \notin DOMAIN Runs(f)
      /\ "bitlocker" \notin DOMAIN Runs(f) /\ "ufs" \notin DOMAIN Runs(f)
      /\ "unknown" \notin DOMAIN Runs(f) /\ "hpfs" \notin DOMAIN Runs(f)
      /\ "iso9660" \notin DOMAIN Runs(f) /\ "linuxraidmember" \notin DOMAIN Runs(f)
  BY DEF Runs
<1>3. /\ Runs(f)["ext2"] = Ext2Runs /\ Runs(f)["ext3"] = Ext3Runs /\ Runs(f)["ext4"] = Ext4Runs
      /\ Runs(f)["fat12"] = Fat12Runs /\ Runs(f)["fat16"] = Fat16Runs /\ Runs(f)["fat32"] = Fat32Runs
      /\ Runs(f)["exfat"] = ExfatRuns(f) /\ Runs(f)["btrfs"] = BtrfsRuns
      /\ Runs(f)["bcachefs"] = BcachefsRuns /\ Runs(f)["f2fs"] = F2fsRuns /\ Runs(f)["hfs"] = HfsRuns
      /\ Runs(f)["hfsplus"] = HfsplusRuns /\ Runs(f)["jfs"] = JfsRuns
      /\ Runs(f)["linuxswap"] = LinuxswapRuns /\ Runs(f)["freebsdswap"] = FreebsdswapRuns
      /\ Runs(f)["minix"] = MinixRuns /\ Runs(f)["nilfs2"] = Nilfs2Runs /\ Runs(f)["ntfs"] = NtfsRuns
      /\ Runs(f)["ocfs2"] = Ocfs2Runs /\ Runs(f)["udf"] = UdfRuns /\ Runs(f)["reiser4"] = Reiser4Runs
      /\ Runs(f)["reiserfs"] = ReiserfsRuns /\ Runs(f)["xfs"] = XfsRuns /\ Runs(f)["zfs"] = ZfsRuns
      /\ Runs(f)["unformatted"] = UnformattedRuns
  BY DEF Runs
<1>4. /\ "ext2" \in DOMAIN Onlines /\ "ext3" \in DOMAIN Onlines /\ "ext4" \in DOMAIN Onlines
      /\ "fat12" \in DOMAIN Onlines /\ "fat16" \in DOMAIN Onlines /\ "fat32" \in DOMAIN Onlines
      /\ "exfat" \in DOMAIN Onlines /\ "btrfs" \in DOMAIN Onlines /\ "bcachefs" \in DOMAIN Onlines
      /\ "f2fs" \in DOMAIN Onlines /\ "hfs" \in DOMAIN Onlines /\ "hfsplus" \in DOMAIN Onlines
      /\ "jfs" \in DOMAIN Onlines /\ "linuxswap" \in DOMAIN Onlines /\ "freebsdswap" \in DOMAIN Onlines
      /\ "minix" \in DOMAIN Onlines /\ "nilfs2" \in DOMAIN Onlines /\ "ntfs" \in DOMAIN Onlines
      /\ "ocfs2" \in DOMAIN Onlines /\ "udf" \in DOMAIN Onlines /\ "reiser4" \in DOMAIN Onlines
      /\ "reiserfs" \in DOMAIN Onlines /\ "xfs" \in DOMAIN Onlines /\ "zfs" \in DOMAIN Onlines
      /\ "apfs" \notin DOMAIN Onlines /\ "bitlocker" \notin DOMAIN Onlines
      /\ "ufs" \notin DOMAIN Onlines /\ "unknown" \notin DOMAIN Onlines
      /\ "unformatted" \notin DOMAIN Onlines /\ "hpfs" \notin DOMAIN Onlines
      /\ "iso9660" \notin DOMAIN Onlines /\ "linuxraidmember" \notin DOMAIN Onlines
  BY DEF Onlines
<1>5. /\ Onlines["ext2"] = Ext2Online /\ Onlines["ext3"] = Ext3Online /\ Onlines["ext4"] = Ext4Online
      /\ Onlines["fat12"] = Fat12Online /\ Onlines["fat16"] = Fat16Online
      /\ Onlines["fat32"] = Fat32Online /\ Onlines["exfat"] = ExfatOnline
      /\ Onlines["btrfs"] = BtrfsOnline /\ Onlines["bcachefs"] = BcachefsOnline
      /\ Onlines["f2fs"] = F2fsOnline /\ Onlines["hfs"] = HfsOnline
      /\ Onlines["hfsplus"] = HfsplusOnline /\ Onlines["jfs"] = JfsOnline
      /\ Onlines["linuxswap"] = LinuxswapOnline /\ Onlines["freebsdswap"] = FreebsdswapOnline
      /\ Onlines["minix"] = MinixOnline /\ Onlines["nilfs2"] = Nilfs2Online
      /\ Onlines["ntfs"] = NtfsOnline /\ Onlines["ocfs2"] = Ocfs2Online /\ Onlines["udf"] = UdfOnline
      /\ Onlines["reiser4"] = Reiser4Online /\ Onlines["reiserfs"] = ReiserfsOnline
      /\ Onlines["xfs"] = XfsOnline /\ Onlines["zfs"] = ZfsOnline
  BY DEF Onlines
<1> QED
  BY <1>1, <1>2, <1>3, <1>4, <1>5

\* What the classes inherit that are derived from others.
LEMMA Inherited ==
    /\ DOMAIN Ext3Runs = {"create", "resizeOnline"} \cup DOMAIN Ext2Runs
    /\ DOMAIN Ext4Runs = {"create", "resizeOnline"} \cup DOMAIN Ext2Runs
    /\ \A m \in DOMAIN Ext2Runs : m # "create" => /\ m # "resizeOnline"
                                                  /\ Ext3Runs[m] = Ext2Runs[m] /\ Ext4Runs[m] = Ext2Runs[m]
    /\ Ext3Runs["create"] = <<Cmd("mkfs.ext3", "format")>>
    /\ Ext4Runs["create"] = <<Cmd("mkfs.ext4", "format")>>
    /\ Ext3Runs["resizeOnline"] = Ext2Runs.resize /\ Ext4Runs["resizeOnline"] = Ext2Runs.resize
    /\ DOMAIN Fat16Runs = {"resize"} \cup DOMAIN Fat12Runs
    /\ Fat16Runs["resize"] = <<Cmd("fatresize", "resize")>>
    /\ \A m \in DOMAIN Fat12Runs : m # "resize" /\ Fat16Runs[m] = Fat12Runs[m]
    /\ DOMAIN Fat32Runs = {"updateUUID"} \cup DOMAIN Fat16Runs
    /\ Fat32Runs["updateUUID"] = <<Write("uuid")>>
    /\ \A m \in DOMAIN Fat16Runs : m # "updateUUID" => Fat32Runs[m] = Fat16Runs[m]
<1>1. /\ DOMAIN Ext2Runs = {"check", "create", "resize", "writeLabel", "writeLabelOnline", "updateUUID"}
      /\ DOMAIN Fat12Runs = {"check", "create", "writeLabel", "updateUUID"}
  BY DEF Ext2Runs, Fat12Runs
<1>2. /\ DOMAIN Ext3Runs = {"create", "resizeOnline"} \cup DOMAIN Ext2Runs
      /\ Ext3Runs["create"] = <<Cmd("mkfs.ext3", "format")>> /\ Ext3Runs["resizeOnline"] = Ext2Runs.resize
      /\ \A m \in DOMAIN Ext2Runs : m # "create" => Ext3Runs[m] = Ext2Runs[m]
  <2> DEFINE own == [create |-> <<Cmd("mkfs.ext3", "format")>>, resizeOnline |-> Ext2Runs.resize]
  <2>1. /\ DOMAIN own = {"create", "resizeOnline"} /\ own["create"] = <<Cmd("mkfs.ext3", "format")>>
        /\ own["resizeOnline"] = Ext2Runs.resize
    OBVIOUS
  <2>2. Ext3Runs = own ++ Ext2Runs
    BY DEF Ext3Runs
  <2> HIDE DEF own
  <2>3. DOMAIN Ext3Runs = DOMAIN own \cup DOMAIN Ext2Runs
    BY <2>2, OverDomain
  <2>4. \A m \in DOMAIN own : Ext3Runs[m] = own[m]
    BY <2>2, OverOwn
  <2>5. \A m \in DOMAIN Ext2Runs : m \notin DOMAIN own => Ext3Runs[m] = Ext2Runs[m]
    BY <2>2, OverBase
  <2> QED
    BY <1>1, <2>1, <2>3, <2>4, <2>5
<1>3. /\ DOMAIN Ext4Runs = {"create", "resizeOnline"} \cup DOMAIN Ext2Runs
      /\ Ext4Runs["create"] = <<Cmd("mkfs.ext4", "format")>> /\ Ext4Runs["resizeOnline"] = Ext2Runs.resize
      /\ \A m \in DOMAIN Ext2Runs : m # "create" => Ext4Runs[m] = Ext2Runs[m]
  <2> DEFINE own == [create |-> <<Cmd("mkfs.ext4", "format")>>, resizeOnline |-> Ext2Runs.resize]
  <2>1. /\ DOMAIN own = {"create", "resizeOnline"} /\ own["create"] = <<Cmd("mkfs.ext4", "format")>>
        /\ own["resizeOnline"] = Ext2Runs.resize
    OBVIOUS
  <2>2. Ext4Runs = own ++ Ext2Runs
    BY DEF Ext4Runs
  <2> HIDE DEF own
  <2>3. DOMAIN Ext4Runs = DOMAIN own \cup DOMAIN Ext2Runs
    BY <2>2, OverDomain
  <2>4. \A m \in DOMAIN own : Ext4Runs[m] = own[m]
    BY <2>2, OverOwn
  <2>5. \A m \in DOMAIN Ext2Runs : m \notin DOMAIN own => Ext4Runs[m] = Ext2Runs[m]
    BY <2>2, OverBase
  <2> QED
    BY <1>1, <2>1, <2>3, <2>4, <2>5
<1>4. /\ DOMAIN Fat16Runs = {"resize"} \cup DOMAIN Fat12Runs
      /\ Fat16Runs["resize"] = <<Cmd("fatresize", "resize")>>
      /\ \A m \in DOMAIN Fat12Runs : Fat16Runs[m] = Fat12Runs[m]
  <2> DEFINE own == [resize |-> <<Cmd("fatresize", "resize")>>]
  <2>1. DOMAIN own = {"resize"} /\ own["resize"] = <<Cmd("fatresize", "resize")>>
    OBVIOUS
  <2>2. Fat16Runs = own ++ Fat12Runs
    BY DEF Fat16Runs
  <2> HIDE DEF own
  <2>3. DOMAIN Fat16Runs = DOMAIN own \cup DOMAIN Fat12Runs
    BY <2>2, OverDomain
  <2>4. \A m \in DOMAIN own : Fat16Runs[m] = own[m]
    BY <2>2, OverOwn
  <2>5. \A m \in DOMAIN Fat12Runs : m \notin DOMAIN own => Fat16Runs[m] = Fat12Runs[m]
    BY <2>2, OverBase
  <2> QED
    BY <1>1, <2>1, <2>3, <2>4, <2>5
<1>5. /\ DOMAIN Fat32Runs = {"updateUUID"} \cup DOMAIN Fat16Runs
      /\ Fat32Runs["updateUUID"] = <<Write("uuid")>>
      /\ \A m \in DOMAIN Fat16Runs : m # "updateUUID" => Fat32Runs[m] = Fat16Runs[m]
  <2> DEFINE own == [updateUUID |-> <<Write("uuid")>>]
  <2>1. DOMAIN own = {"updateUUID"} /\ own["updateUUID"] = <<Write("uuid")>>
    OBVIOUS
  <2>2. Fat32Runs = own ++ Fat16Runs
    BY DEF Fat32Runs
  <2> HIDE DEF own
  <2>3. DOMAIN Fat32Runs = DOMAIN own \cup DOMAIN Fat16Runs
    BY <2>2, OverDomain
  <2>4. \A m \in DOMAIN own : Fat32Runs[m] = own[m]
    BY <2>2, OverOwn
  <2>5. \A m \in DOMAIN Fat16Runs : m \notin DOMAIN own => Fat32Runs[m] = Fat16Runs[m]
    BY <2>2, OverBase
  <2> QED
    BY <1>1, <1>4, <2>1, <2>3, <2>4, <2>5
<1> QED
  BY <1>1, <1>2, <1>3, <1>4, <1>5

\* Every class runs the commands that its type's operations need.
LEMMA ClassesSound == \A f, t : t \in Types => ClassSound(f, t)
<1> SUFFICES ASSUME NEW f, NEW t, t \in Types PROVE ClassSound(f, t)
  OBVIOUS
<1> USE DEF ClassSound, Overridden, AlsoOnline, Covers, Form, Unwritten, Fillers
<1>1. CASE t = "ext2"
  BY <1>1, TableOf, Forms, Supports DEF Ext2Runs, Ext2Online
<1>2. CASE t = "ext3"
  BY <1>2, TableOf, Forms, Supports, Inherited DEF Ext2Runs, Ext3Online, Ext2Online
<1>3. CASE t = "ext4"
  BY <1>3, TableOf, Forms, Supports, Inherited DEF Ext2Runs, Ext4Online, Ext2Online
<1>4. CASE t = "fat12"
  BY <1>4, TableOf, Forms, Supports DEF Fat12Runs, Fat12Online
<1>5. CASE t = "fat16"
  BY <1>5, TableOf, Forms, Supports, Inherited DEF Fat12Runs, Fat16Online
<1>6. CASE t = "fat32"
  BY <1>6, TableOf, Forms, Supports, Inherited DEF Fat12Runs, Fat32Online
<1>7. CASE t = "exfat"
  <2> DEFINE tool == IF "mkexfatfs" \in f THEN "exfatlabel" ELSE "tune.exfat"
             runs == [check |-> <<Cmd("fsck.exfat", "check")>>, create |-> <<Cmd("mkfs.exfat", "format")>>,
                      writeLabel |-> <<Cmd(tool, "label")>>]
  <2>1. ExfatRuns(f) = runs
    BY DEF ExfatRuns
  <2> HIDE DEF tool
  <2>2. \A m \in DOMAIN runs : Form(m, runs[m], t)
    BY <1>7, Forms
  <2>3. "create" \in DOMAIN runs /\ "writeLabel" \in DOMAIN runs
    OBVIOUS
  <2> HIDE DEF runs
  <2> QED
    BY <1>7, <2>1, <2>2, <2>3, TableOf, Supports DEF ExfatOnline
<1>8. CASE t = "btrfs"
  BY <1>8, TableOf, Forms, Supports DEF BtrfsRuns, BtrfsOnline
<1>9. CASE t = "bcachefs"
  BY <1>9, TableOf, Forms, Supports DEF BcachefsRuns, BcachefsOnline
<1>10. CASE t = "f2fs"
  BY <1>10, TableOf, Forms, Supports DEF F2fsRuns, F2fsOnline
<1>11. CASE t = "hfs"
  BY <1>11, TableOf, Forms, Supports DEF HfsRuns, HfsOnline
<1>12. CASE t = "hfsplus"
  BY <1>12, TableOf, Forms, Supports DEF HfsplusRuns, HfsplusOnline
<1>13. CASE t = "jfs"
  BY <1>13, TableOf, Forms, Supports DEF JfsRuns, JfsOnline
<1>14. CASE t = "linuxswap"
  BY <1>14, TableOf, Forms DEF LinuxswapInit, Tool, Core, LinuxswapRuns, LinuxswapOnline
<1>15. CASE t = "freebsdswap"
  BY <1>15, TableOf, Forms DEF FreebsdswapInit, Tool, Core, FreebsdswapRuns, FreebsdswapOnline
<1>16. CASE t = "minix"
  BY <1>16, TableOf, Forms, Supports DEF MinixRuns, MinixOnline
<1>17. CASE t = "nilfs2"
  BY <1>17, TableOf, Forms, Supports DEF Nilfs2Runs, Nilfs2Online
<1>18. CASE t = "ntfs"
  BY <1>18, TableOf, Forms DEF NtfsInit, Tool, Core, NtfsRuns, NtfsOnline
<1>19. CASE t = "ocfs2"
  BY <1>19, TableOf, Forms, Supports DEF Ocfs2Runs, Ocfs2Online
<1>20. CASE t = "udf"
  BY <1>20, TableOf, Forms, Supports DEF UdfRuns, UdfOnline
<1>21. CASE t = "reiser4"
  BY <1>21, TableOf, Forms, Supports DEF Reiser4Runs, Reiser4Online
<1>22. CASE t = "reiserfs"
  BY <1>22, TableOf, Forms, Supports DEF ReiserfsRuns, ReiserfsOnline
<1>23. CASE t = "xfs"
  BY <1>23, TableOf, Forms DEF XfsInit, Tool, Core, XfsRuns, XfsOnline
<1>24. CASE t = "zfs"
  BY <1>24, TableOf, Forms DEF ZfsInit, Tool, Core, ZfsRuns, ZfsOnline
<1>25. CASE t = "apfs"
  BY <1>25, TableOf, Forms DEF ApfsInit, Blocks, Core
<1>26. CASE t = "bitlocker"
  BY <1>26, TableOf, Forms DEF BitlockerInit, Blocks, Core
<1>27. CASE t = "ufs"
  BY <1>27, TableOf, Forms DEF UfsInit, Blocks, Core
<1>28. CASE t = "unknown"
  BY <1>28, TableOf, Forms DEF UnknownInit, Core
<1>29. CASE t = "unformatted"
  BY <1>29, TableOf, Forms DEF UnformattedInit, Tool, UnformattedRuns
<1>30. CASE t = "hpfs"
  BY <1>30, TableOf, Forms DEF HpfsInit
<1>31. CASE t = "iso9660"
  BY <1>31, TableOf, Forms DEF HpfsInit
<1>32. CASE t = "linuxraidmember"
  BY <1>32, TableOf, Forms DEF HpfsInit
<1>33. Types = {"ext2", "ext3", "ext4", "fat12", "fat16", "fat32", "exfat", "btrfs", "bcachefs",
                "f2fs", "hfs", "hfsplus", "jfs", "linuxswap", "freebsdswap", "minix", "nilfs2",
                "ntfs", "ocfs2", "udf", "reiser4", "reiserfs", "xfs", "zfs", "apfs", "bitlocker",
                "ufs", "unknown", "unformatted", "hpfs", "iso9660", "linuxraidmember"}
  BY DEF Types, Inits
<1> QED
  BY <1>1, <1>2, <1>3, <1>4, <1>5, <1>6, <1>7, <1>8, <1>9, <1>10, <1>11, <1>12, <1>13, <1>14, <1>15, <1>16, <1>17, <1>18, <1>19, <1>20, <1>21, <1>22, <1>23, <1>24, <1>25, <1>26, <1>27, <1>28, <1>29, <1>30, <1>31, <1>32, <1>33

--------------------------------------------------------------------------------
(* The invariant.                                                          *)

JobNames    == {"check", "resize", "maximize", "geometry", "restore", "label", "delete", "create",
                "copy", "permissions"}
Labels      == {"old", "new", "", "source"}
Operations  == [name : Names, type : Types, length : Nat, permissions : BOOLEAN, before : Nat,
                clone : Nat, jobs : Seq(JobNames)]

\* Types of the state.
TypesOK ==
    /\ device \in Nat
    /\ content \in [type : Types \cup {"none"}, length : Nat, label : Labels, online : BOOLEAN]
    /\ object \in [type : Types, length : Nat, label : Labels, mounted : BOOLEAN]
    /\ queue \in Seq(Operations)
    /\ op \in Operations \/ (op = [name |-> "none"] /\ outcome = "none")
    /\ jobs \in Seq(JobNames) /\ job \in JobNames \cup {"idle"} /\ IsSeq(todo)
    /\ value \in BOOLEAN
    /\ outcome \in {"none", "running", "failing", "success", "warning", "error"}
    /\ formatted \in BOOLEAN /\ steady \in BOOLEAN /\ stuck \in BOOLEAN

Has(s, x) == \E i \in DOMAIN s : s[i] = x
Ordered(s, a, b) == \A i, k \in DOMAIN s : s[i] = a /\ s[k] = b => i < k

\* Sequences of commands: their effects, one of these effects with a failure that counts, the
\* umount at the end, the import after an export, and nothing that can fail after a change.
Within(s, effects) == \A i \in DOMAIN s : s[i].does \in effects
Counts(s, effects) == \E i \in DOMAIN s : s[i].does \in effects /\ ~s[i].lax
Brackets(s) == \A i \in DOMAIN s : /\ s[i].does = "mount" => i = 1 /\ s[Len(s)].does = "umount"
                                   /\ s[i].does = "umount" => i = Len(s)
Exports(s)  == \A i \in DOMAIN s : s[i].does = "export" =>
                  \E k \in DOMAIN s : k > i /\ s[k].does = "import" /\ ~s[k].lax
Changes     == {"resize", "fill", "refuse"}
Changing(s) == \A i \in DOMAIN s : s[i].does \in Changes =>
                  /\ ~s[i].lax
                  /\ \A k \in DOMAIN s : i < k => s[k].does = "umount" /\ s[k].lax

\* The job that has these effects is still to come, or it has not had them yet, or it has failed.
Ahead(name, effects) ==
    Has(jobs, name) \/ (job = name /\ (~value \/ Counts(todo, effects \cup {"refuse"})))

\* The jobs of an operation, without the one that follows a failure.
JobsIn(name) == CASE name \in {"shrink", "grow"} -> {"check", "resize", "geometry"}
                  [] name = "create" -> {"delete", "create", "check", "permissions"}
                  [] name = "copy"   -> {"copy", "check", "maximize"}
                  [] OTHER           -> {name}

\* The effects that the commands of a job can have.
Effects(name) == CASE name \in {"resize", "maximize"} -> {"mount", "try", "resize", "fill", "umount", "refuse"}
                   [] name = "geometry"    -> {"geometry"}
                   [] name = "restore"     -> {"geometryBack"}
                   [] name = "label"       -> {"label", "export", "import", "refuse"}
                   [] name = "delete"      -> {"wipe", "refuse"}
                   [] name = "create"      -> {"format", "formatLabel", "tag", "refuse"}
                   [] name = "copy"        -> {"copy", "fillCopy", "anyway", "boot", "refuse"}
                   [] name = "permissions" -> {"mount", "chmod", "umount"}
                   [] OTHER                -> {"check"}

\* What the constructors make of an operation.
Constructed(o) ==
    /\ \A i \in DOMAIN o.jobs : o.jobs[i] \in JobsIn(o.name)
    /\ o.name \in {"shrink", "grow"} => Has(o.jobs, "resize") /\ Has(o.jobs, "geometry")
    /\ o.name = "grow" => Ordered(o.jobs, "geometry", "resize")
    /\ o.name = "label" => Has(o.jobs, "label")
    /\ o.name = "delete" => Has(o.jobs, "delete")
    /\ o.name = "create" => /\ Has(o.jobs, "delete") /\ Has(o.jobs, "create")
                            /\ Ordered(o.jobs, "delete", "create")
    /\ o.name = "copy" => /\ Has(o.jobs, "copy") /\ Ordered(o.jobs, "copy", "maximize")
                          /\ o.length >= SourceLength

\* What was supported when an operation was pushed still is, if nothing was mounted since.
Supported(o) ==
    /\ o.name = "shrink" => Can(o.type, "Shrink") /\ (object.mounted => CanOnline(o.type, "Shrink"))
    /\ o.name = "grow" => Can(o.type, "Grow") /\ (object.mounted => CanOnline(o.type, "Grow"))
    /\ o.name = "copy" => ~object.mounted

\* What an operation records of the partition after it is what the last one recorded that
\* changes it, or what the partition is now.
Records(q, field, names, now) ==
    \A i \in DOMAIN q :
        \/ \E m \in 1 .. i : /\ q[m].name \in names /\ q[i][field] = q[m][field]
                           /\ \A k \in m + 1 .. i : q[k].name \notin names
        \/ q[i][field] = now /\ \A k \in 1 .. i : q[k].name \notin names

Queued ==
    /\ \A i \in DOMAIN queue : /\ Constructed(queue[i])
                               /\ steady => Supported(queue[i])
                               /\ queue[i].name \in {"delete", "copy"} => i = Len(queue)
    /\ outcome = "error" => queue = << >>

\* What is shown of the partition is what it will have when the queue is executed.
Recorded ==
    /\ Records(queue, "type", {"create", "copy"}, object.type)
    /\ outcome # "failing" => Records(queue, "length", {"shrink", "grow"},
                                      IF outcome = "running" THEN op.length ELSE device)

\* Where the execution is.
Progress ==
    /\ job = "idle" => todo = << >>
    /\ Idle => job = "idle" /\ jobs = << >>
    /\ outcome = "running" =>
          /\ \A i \in DOMAIN jobs : jobs[i] \in JobsIn(op.name)
          /\ job \in JobsIn(op.name) \cup {"idle"}
          /\ steady => Supported(op)
    /\ outcome = "failing" => /\ \A i \in DOMAIN jobs : jobs[i] = "restore"
                              /\ job \in {"restore", "idle"} /\ op.name = "grow"
    /\ outcome = "warning" => op.name = "copy"
    /\ op.name # "none" => op.type = object.type
    /\ op.name = "create" => formatted
    /\ op.name = "delete" => queue = << >>
    /\ op.name = "copy" => op.length >= SourceLength /\ ~formatted
    /\ Within(todo, Effects(job)) /\ Brackets(todo) /\ Exports(todo)

\* What is mounted for a job.
Bracketed == "temp" \in mounts /\ ~stuck =>
                todo # << >> /\ todo[Len(todo)].does = "umount" /\ todo[1].does # "mount"

WipesUnmounted == (\E i \in DOMAIN todo : todo[i].does = "wipe") => "user" \notin mounts

\* The file system's length is meant to be known.
Tracked == steady /\ ~formatted /\ Sized

Sound == outcome \in {"none", "running", "success", "warning"}

Resizing == op.name \in {"shrink", "grow"} /\ Sound =>
    /\ device = op.length \/ Ahead("geometry", {"geometry"})
    /\ Tracked => content.length = op.length \/ Ahead("resize", {"resize", "fill"})
    /\ op.name = "grow" => /\ Ordered(jobs, "geometry", "resize")
                           /\ job = "resize" => ~Has(jobs, "geometry")

Labelling == op.name = "label" /\ Sound =>
    \/ ~Can(object.type, "SetLabel")
    \/ content.type \in {"ntfs", "bcachefs"}
    \/ content.label = "new"
    \/ Ahead("label", {"label", "import"})

Deleting == op.name = "delete" /\ Sound => content = Nothing \/ Ahead("delete", {"wipe"})

Creating == op.name = "create" /\ Sound =>
    /\ Has(jobs, "delete") \/ job = "delete" => Has(jobs, "create")
    /\ Ordered(jobs, "delete", "create")
    /\ IF object.type \in Unwritten
       THEN /\ content = Nothing \/ Ahead("delete", {"wipe"})
            /\ \A i \in DOMAIN todo : todo[i].does \notin {"format", "formatLabel"}
       ELSE \/ content.type = op.type /\ content.length = device
            \/ Ahead("create", {"format", "formatLabel"})

Copying == op.name = "copy" /\ Sound =>
    /\ \/ content.type = op.type /\ content.length >= SourceLength
       \/ Ahead("copy", {"copy", "fillCopy"})
    /\ Ordered(jobs, "copy", "maximize")
    /\ job = "maximize" => ~Has(jobs, "copy")
    /\ \A i \in DOMAIN todo : todo[i].does = "fillCopy" => op.type = "linuxswap"

\* Only shrink and grow change the partition.
Placed == op.name \notin {"none", "shrink", "grow"} /\ Sound => device = op.length

\* Except for what is being written, the object has the type of what is on the disk.
Matching == Sound =>
    \/ content.type = object.type
    \/ content.type = "none" /\ formatted /\ object.type \in Unwritten
    \/ content.type = "none" /\ op.name = "delete"
    \/ outcome = "running" /\ op.name \in {"create", "copy"}

\* A pool that was exported is imported again.
Online == Sound => content.online \/ (job = "label" /\ (~value \/ Counts(todo, {"import"})))

Known == Tracked /\ content.type = object.type

LengthTells ==
    Known /\ job \notin {"resize", "maximize"} =>
        \/ object.length = content.length
        \/ op.name = "copy" /\ (outcome = "error" \/ Ahead("copy", {"copy", "fillCopy"}))

Target == IF job = "maximize" THEN device ELSE op.length

\* While the file system is resized: it has the old length until the command that changes it,
\* nothing that can fail comes after that one, and only the umount comes after a failure.
Halfway == job \in {"resize", "maximize"} =>
    /\ Changing(todo)
    /\ \A i \in DOMAIN todo : todo[i].does = "fill" /\ Known => device = Target
    /\ IF value /\ ~Counts(todo, Changes)
       THEN /\ \A i \in DOMAIN todo : todo[i].does = "umount" /\ todo[i].lax
            /\ Known => content.length = Target
       ELSE /\ Known => content.length = object.length
            /\ ~value => Within(todo, {"umount"})

IInv == /\ TypesOK /\ Queued /\ Recorded /\ Progress /\ Bracketed /\ WipesUnmounted
        /\ Resizing /\ Labelling /\ Deleting /\ Creating /\ Copying /\ Placed /\ Matching /\ Online
        /\ LengthTells /\ Halfway
--------------------------------------------------------------------------------
(* Sequences of commands and of jobs.                                      *)

\* The elements of the rest of a sequence.
LEMMA Rest ==
    ASSUME NEW s, IsSeq(s), s # << >>, NEW t, t = Tail(s)
    PROVE  /\ IsSeq(t) /\ Len(s) \in Nat /\ Len(s) >= 1 /\ Len(t) = Len(s) - 1 /\ Head(s) = s[1]
           /\ DOMAIN s = 1 .. Len(s) /\ DOMAIN t = 1 .. Len(s) - 1
           /\ \A i \in DOMAIN t : i \in Nat /\ i + 1 \in DOMAIN s /\ t[i] = s[i + 1]
           /\ \A i \in DOMAIN s : i # 1 => i - 1 \in DOMAIN t /\ t[i - 1] = s[i]
<1>1. /\ IsSeq(t) /\ Len(t) = Len(s) - 1 /\ Head(s) = s[1]
      /\ \A i \in 1 .. Len(s) - 1 : t[i] = s[i + 1]
  BY Tails
<1>2. Len(s) \in Nat /\ DOMAIN s = 1 .. Len(s) /\ Len(s) >= 1
  BY Domains
<1>3. DOMAIN t = 1 .. Len(t)
  BY <1>1, Domains
<1> DEFINE n == Len(s)
<1>4. n \in Nat /\ n >= 1 /\ DOMAIN s = 1 .. n /\ DOMAIN t = 1 .. n - 1 /\ \A i \in 1 .. n - 1 : t[i] = s[i + 1]
  BY <1>1, <1>2, <1>3
<1> HIDE DEF n
<1>5. /\ \A i \in DOMAIN t : i \in Nat /\ i + 1 \in DOMAIN s /\ t[i] = s[i + 1]
      /\ \A i \in DOMAIN s : i # 1 => i - 1 \in DOMAIN t /\ t[i - 1] = s[i]
  BY <1>4
<1> QED
  BY <1>1, <1>2, <1>4, <1>5 DEF n

\* The commands of an effect among those that are left.
LEMMA RestCounts ==
    ASSUME NEW s, IsSeq(s), s # << >>, NEW E
    PROVE  Counts(s, E) <=> Counts(Tail(s), E) \/ (s[1].does \in E /\ ~s[1].lax)
<1> DEFINE t == Tail(s)
<1>1. /\ DOMAIN s = 1 .. Len(s) /\ Len(s) \in Nat /\ Len(s) >= 1
      /\ \A i \in DOMAIN t : i \in Nat /\ i + 1 \in DOMAIN s /\ t[i] = s[i + 1]
      /\ \A i \in DOMAIN s : i # 1 => i - 1 \in DOMAIN t /\ t[i - 1] = s[i]
  BY Rest
<1> HIDE DEF t
<1>2. Counts(s, E) <=> Counts(t, E) \/ (s[1].does \in E /\ ~s[1].lax)
  BY <1>1 DEF Counts
<1> QED
  BY <1>2 DEF t

LEMMA RestBrackets ==
    ASSUME NEW s, IsSeq(s), s # << >>, Brackets(s)
    PROVE  /\ Brackets(Tail(s)) /\ \A i \in DOMAIN Tail(s) : Tail(s)[i].does # "mount"
           /\ s[1].does = "umount" => Tail(s) = << >>
           /\ Tail(s) # << >> => Tail(s)[Len(Tail(s))] = s[Len(s)]
<1> DEFINE t == Tail(s)
<1>1. /\ IsSeq(t) /\ Len(s) \in Nat /\ Len(s) >= 1 /\ Len(t) = Len(s) - 1
      /\ DOMAIN s = 1 .. Len(s) /\ DOMAIN t = 1 .. Len(s) - 1
  BY Rest
<1>5. /\ DOMAIN s = 1 .. Len(s)
      /\ \A i \in DOMAIN t : i \in Nat /\ i + 1 \in DOMAIN s /\ t[i] = s[i + 1]
  BY Rest
<1> HIDE DEF t
<1>2. \A i \in DOMAIN t : t[i].does # "mount" /\ (t[i].does = "umount" => i = Len(t))
  BY <1>1, <1>5 DEF Brackets
<1>3. t # << >> => t[Len(t)] = s[Len(s)]
  BY <1>1, <1>5, Domains
<1>4. s[1].does = "umount" => t = << >>
  <2> SUFFICES ASSUME s[1].does = "umount" PROVE t = << >>
    OBVIOUS
  <2>1. Len(s) = 1
    BY <1>1 DEF Brackets
  <2> QED
    BY <2>1, <1>1, Domains
<1> QED
  BY <1>2, <1>3, <1>4 DEF Brackets, t

LEMMA RestExports ==
    ASSUME NEW s, IsSeq(s), s # << >>, Exports(s)
    PROVE  Exports(Tail(s)) /\ (s[1].does = "export" => Counts(Tail(s), {"import"}))
<1> DEFINE t == Tail(s)
<1>1. /\ DOMAIN s = 1 .. Len(s) /\ Len(s) \in Nat /\ Len(s) >= 1
      /\ \A i \in DOMAIN t : i \in Nat /\ i + 1 \in DOMAIN s /\ t[i] = s[i + 1]
      /\ \A i \in DOMAIN s : i # 1 => i - 1 \in DOMAIN t /\ t[i - 1] = s[i]
  BY Rest
<1> HIDE DEF t
<1>2. ASSUME NEW i \in DOMAIN t, t[i].does = "export"
      PROVE  \E k \in DOMAIN t : k > i /\ t[k].does = "import" /\ ~t[k].lax
  <2>1. PICK k \in DOMAIN s : k > i + 1 /\ s[k].does = "import" /\ ~s[k].lax
    BY <1>1, <1>2 DEF Exports
  <2> QED
    BY <2>1, <1>1, <1>2
<1>3. ASSUME s[1].does = "export" PROVE Counts(t, {"import"})
  <2>1. PICK k \in DOMAIN s : k > 1 /\ s[k].does = "import" /\ ~s[k].lax
    BY <1>1, <1>3 DEF Exports
  <2> QED
    BY <2>1, <1>1 DEF Counts
<1> QED
  BY <1>2, <1>3 DEF Exports, t

LEMMA RestChanging ==
    ASSUME NEW s, IsSeq(s), s # << >>, Changing(s)
    PROVE  /\ Changing(Tail(s))
           /\ s[1].does \in Changes =>
                ~s[1].lax /\ \A i \in DOMAIN Tail(s) : Tail(s)[i].does = "umount" /\ Tail(s)[i].lax
<1> DEFINE t == Tail(s)
<1>1. /\ DOMAIN s = 1 .. Len(s) /\ Len(s) \in Nat /\ Len(s) >= 1
      /\ \A i \in DOMAIN t : i \in Nat /\ i + 1 \in DOMAIN s /\ t[i] = s[i + 1]
  BY Rest
<1>4. DOMAIN t = 1 .. Len(s) - 1
  BY Rest
<1> HIDE DEF t
<1>2. Changing(t)
  BY <1>1 DEF Changing
<1>5. 1 \in DOMAIN s /\ \A i \in DOMAIN t : 1 < i + 1
  BY <1>1, <1>4
<1>3. s[1].does \in Changes => ~s[1].lax /\ \A i \in DOMAIN t : t[i].does = "umount" /\ t[i].lax
  BY <1>1, <1>5 DEF Changing
<1> QED
  BY <1>2, <1>3 DEF t

\* Nothing is left, or only the umount.
LEMMA NoneLeft ==
    /\ IsSeq(<< >>) /\ Brackets(<< >>) /\ Exports(<< >>) /\ Changing(<< >>)
    /\ \A E : Within(<< >>, E) /\ ~Counts(<< >>, E)
    /\ \A i \in DOMAIN << >> : FALSE
<1>1. IsSeq(<< >>) /\ \A i \in DOMAIN << >> : FALSE
  BY Lists, Domains
<1> QED
  BY <1>1 DEF Within, Counts, Brackets, Exports, Changing

LEMMA OneLeft ==
    ASSUME NEW x, NEW s, s = <<x>>, x.does = "umount"
    PROVE  /\ IsSeq(s) /\ Len(s) = 1 /\ s # << >> /\ s[1] = x /\ DOMAIN s = 1 .. 1
           /\ Brackets(s) /\ Exports(s) /\ Changing(s) /\ Within(s, {"umount"})
<1>1. IsSeq(s) /\ Len(s) = 1 /\ s[1] = x /\ s # << >>
  BY Lists
<1>2. DOMAIN s = 1 .. 1
  BY <1>1, Domains
<1>3. \A i \in DOMAIN s : i = 1 /\ s[i].does = "umount"
  BY <1>1, <1>2
<1> QED
  BY <1>1, <1>2, <1>3 DEF Within, Brackets, Exports, Changing, Changes

\* The next job and those that are left.
LEMMA RestJobs ==
    ASSUME NEW S, NEW s \in Seq(S), s # << >>
    PROVE  /\ Tail(s) \in Seq(S) /\ Head(s) \in S
           /\ \A x : Has(s, x) <=> Head(s) = x \/ Has(Tail(s), x)
           /\ \A a, b : Ordered(s, a, b) =>
                 Ordered(Tail(s), a, b) /\ (Head(s) = b => ~Has(Tail(s), a))
<1> DEFINE t == Tail(s)
<1>1. Tail(s) \in Seq(S) /\ Head(s) \in S
  BY HeadTailProperties
<1>2. IsSeq(s)
  BY DEF IsSeq
<1>3. /\ DOMAIN s = 1 .. Len(s) /\ Len(s) \in Nat /\ Len(s) >= 1 /\ Head(s) = s[1]
      /\ \A i \in DOMAIN t : i \in Nat /\ i + 1 \in DOMAIN s /\ t[i] = s[i + 1]
      /\ \A i \in DOMAIN s : i # 1 => i - 1 \in DOMAIN t /\ t[i - 1] = s[i]
  BY <1>2, Rest
<1>4. \A i \in DOMAIN t : i \in 1 .. Len(s) - 1
  BY <1>2, Rest
<1> HIDE DEF t
<1>5. \A x : Has(s, x) <=> Head(s) = x \/ Has(t, x)
  BY <1>3 DEF Has
<1>6. ASSUME NEW a, NEW b, Ordered(s, a, b)
      PROVE  Ordered(t, a, b) /\ (Head(s) = b => ~Has(t, a))
  <2>1. ASSUME NEW i \in DOMAIN t, NEW k \in DOMAIN t, t[i] = a, t[k] = b
        PROVE  i < k
    BY <2>1, <1>3, <1>6 DEF Ordered
  <2>2. ASSUME Head(s) = b, NEW i \in DOMAIN t, t[i] = a
        PROVE  FALSE
    <3>1. s[i + 1] = a /\ s[1] = b /\ i + 1 \in DOMAIN s /\ 1 \in DOMAIN s
      BY <2>2, <1>3
    <3>2. i + 1 < 1
      BY <3>1, <1>6 DEF Ordered
    <3> QED
      BY <3>2, <1>4
  <2> QED
    BY <2>1, <2>2 DEF Ordered, Has
<1> QED
  BY <1>1, <1>5, <1>6 DEF t
--------------------------------------------------------------------------------
(* What a job starts with.                                                 *)

\* A method is overridden in its form or it does nothing.
LEMMA MethodOf ==
    ASSUME NEW m, object.type \in Types
    PROVE  /\ m \in Overridden(found, object.type) => Form(m, Method(m), object.type)
           /\ m \notin Overridden(found, object.type) => Method(m) = << >>
           /\ Method("remove") = << >>
<1>1. ClassSound(found, object.type)
  BY ClassesSound
<1>2. ASSUME NEW n
      PROVE  IF n \in Overridden(found, object.type) THEN Method(n) = Runs(found)[object.type][n]
                                                     ELSE Method(n) = << >>
  BY DEF Method, Steps, Overridden
<1>3. "remove" \notin Overridden(found, object.type)
  BY <1>1 DEF ClassSound, Form
<1> QED
  BY <1>1, <1>2, <1>3 DEF ClassSound

\* One sequence after another.
LEMMA Concats ==
    ASSUME NEW s, NEW t, IsSeq(s), IsSeq(t), NEW r, r = s \o t
    PROVE  /\ IsSeq(r) /\ Len(r) = Len(s) + Len(t) /\ Len(s) \in Nat /\ Len(t) \in Nat
           /\ DOMAIN r = 1 .. Len(s) + Len(t)
           /\ \A i \in 1 .. Len(s) + Len(t) : r[i] = IF i <= Len(s) THEN s[i] ELSE t[i - Len(s)]
<1>1. PICK S : s \in Seq(S)
  BY DEF IsSeq
<1>2. PICK T : t \in Seq(T)
  BY DEF IsSeq
<1>3. s \in Seq(S \cup T) /\ t \in Seq(S \cup T)
  BY <1>1, <1>2
<1>4. /\ r \in Seq(S \cup T) /\ Len(r) = Len(s) + Len(t)
      /\ \A i \in 1 .. Len(s) + Len(t) : r[i] = IF i <= Len(s) THEN s[i] ELSE t[i - Len(s)]
  BY <1>3, ConcatProperties
<1>5. IsSeq(r)
  BY <1>4 DEF IsSeq
<1> QED
  BY <1>4, <1>5, Domains

\* A command that does nothing to the mount, the pool or the length.
Plain == {"check", "label", "format", "formatLabel", "tag", "wipe", "copy", "fillCopy", "uuid", "anyway",
          "boot", "geometry", "geometryBack"}

LEMMA PlainOnes ==
    ASSUME NEW s, IsSeq(s), Within(s, Plain)
    PROVE  Brackets(s) /\ Exports(s)
BY DEF Within, Plain, Brackets, Exports

LEMMA Singles ==
    ASSUME NEW s, NEW E, Single(s, E)
    PROVE  IsSeq(s) /\ Within(s, E) /\ Counts(s, E) /\ DOMAIN s = 1 .. 1
<1>1. IsSeq(s) /\ DOMAIN s = 1 .. 1 /\ s[1].does \in E /\ ~s[1].lax
  BY Domains DEF Single
<1> QED
  BY <1>1 DEF Within, Counts

LEMMA RefusedStarts ==
    /\ IsSeq(Refused) /\ Within(Refused, {"refuse"}) /\ Brackets(Refused) /\ Exports(Refused)
    /\ Changing(Refused) /\ \A E : "refuse" \in E => Counts(Refused, E)
<1> DEFINE s == Refused
<1>1. IsSeq(s) /\ Len(s) = 1 /\ s[1].does = "refuse" /\ ~s[1].lax
  BY Lists DEF Refused
<1>2. DOMAIN s = 1 .. 1
  BY <1>1, Domains
<1> HIDE DEF s
<1>3. \A i \in DOMAIN s : i = 1 /\ s[i].does = "refuse" /\ ~s[i].lax
  BY <1>1, <1>2
<1>4. Within(s, {"refuse"}) /\ \A E : "refuse" \in E => Counts(s, E)
  BY <1>2, <1>3 DEF Within, Counts
<1>5. Brackets(s) /\ Exports(s) /\ Changing(s)
  BY <1>2, <1>3 DEF Brackets, Exports, Changing, Changes
<1> QED
  BY <1>1, <1>4, <1>5 DEF s

\* A command that changes the length, with what surrounds it.
LEMMA ResizesStarts ==
    ASSUME NEW s, NEW E, E \subseteq {"resize", "fill"}, Resizes(s, E)
    PROVE  /\ IsSeq(s) /\ Within(s, E \cup {"mount", "try", "umount"}) /\ Brackets(s) /\ Exports(s)
           /\ Changing(s) /\ Counts(s, E)
<1>1. CASE Single(s, E)
  <2>1. IsSeq(s) /\ Len(s) = 1 /\ DOMAIN s = 1 .. 1 /\ s[1].does \in E /\ ~s[1].lax
    BY <1>1, Domains DEF Single
  <2>2. \A i \in DOMAIN s : i = 1 /\ s[i].does \in E /\ ~s[i].lax
    BY <2>1
  <2> QED
    BY <2>1, <2>2 DEF Within, Brackets, Exports, Changing, Changes, Counts
<1>2. CASE IsSeq(s) /\ Len(s) = 2 /\ s[1].does = "try" /\ s[2].does \in E /\ ~s[2].lax
  <2>1. DOMAIN s = 1 .. 2
    BY <1>2, Domains
  <2>2. \A i \in DOMAIN s : i = 1 \/ i = 2
    BY <2>1
  <2>3. Within(s, E \cup {"mount", "try", "umount"}) /\ Exports(s) /\ Counts(s, E)
    BY <1>2, <2>1, <2>2 DEF Within, Exports, Counts
  <2>4. Brackets(s)
    BY <1>2, <2>1, <2>2 DEF Brackets
  <2>5. Changing(s)
    BY <1>2, <2>1, <2>2 DEF Changing, Changes
  <2> QED
    BY <1>2, <2>3, <2>4, <2>5
<1>3. CASE /\ IsSeq(s) /\ Len(s) = 3 /\ s[1].does = "mount" /\ s[3].does = "umount" /\ s[3].lax
           /\ s[2].does \in E /\ ~s[2].lax
  <2>1. DOMAIN s = 1 .. 3
    BY <1>3, Domains
  <2>2. \A i \in DOMAIN s : i = 1 \/ i = 2 \/ i = 3
    BY <2>1
  <2>3. Within(s, E \cup {"mount", "try", "umount"}) /\ Exports(s) /\ Counts(s, E)
    BY <1>3, <2>1, <2>2 DEF Within, Exports, Counts
  <2>4. Brackets(s)
    BY <1>3, <2>1, <2>2 DEF Brackets
  <2>5. Changing(s)
    BY <1>3, <2>1, <2>2 DEF Changing, Changes
  <2> QED
    BY <1>3, <2>3, <2>4, <2>5
<1> QED
  BY <1>1, <1>2, <1>3 DEF Resizes

\* An empty sequence of commands.
LEMMA EmptyStarts ==
    ASSUME NEW s, s = << >>
    PROVE  IsSeq(s) /\ Brackets(s) /\ Exports(s) /\ Changing(s) /\ \A E : Within(s, E)
BY NoneLeft

\* What a job on the length starts with changes it, or there is nothing to change.
LEMMA ResizeStarts ==
    ASSUME NEW length, NEW s, s = ResizeSteps(length), object.type \in Types
    PROVE  /\ IsSeq(s) /\ Within(s, Effects("resize")) /\ Brackets(s) /\ Exports(s) /\ Changing(s)
           /\ \A i \in DOMAIN s : s[i].does = "fill" => object.type \in Fillers
           /\ \/ Counts(s, Changes)
              \/ /\ s = << >>
                 /\ \/ length = object.length \/ object.type = "freebsdswap"
                    \/ /\ object.mounted
                       /\ ~(CanOnline(object.type, "Shrink") \/ CanOnline(object.type, "Grow"))
<1> DEFINE E == IF object.type \in Fillers THEN {"resize", "fill"} ELSE {"resize"}
           result == /\ IsSeq(s) /\ Within(s, Effects("resize")) /\ Brackets(s) /\ Exports(s) /\ Changing(s)
                     /\ \A i \in DOMAIN s : s[i].does = "fill" => object.type \in Fillers
                     /\ Counts(s, Changes)
<1>1. CASE s = Refused
  BY <1>1, RefusedStarts DEF Effects, Changes, Within
<1>2. CASE s = << >> /\ length = object.length
  BY <1>2, EmptyStarts, Domains, NoneLeft
<1>3. ASSUME Resizes(s, E) PROVE result
  <2>1. /\ IsSeq(s) /\ Within(s, E \cup {"mount", "try", "umount"}) /\ Brackets(s) /\ Exports(s)
        /\ Changing(s) /\ Counts(s, E)
    BY <1>3, ResizesStarts
  <2> QED
    BY <2>1 DEF Within, Counts, Effects, Changes
<1>4. CASE s = Method("resizeOnline") /\ object.mounted
  <2>1. CASE "resizeOnline" \in Overridden(found, object.type)
    BY <2>1, <1>3, <1>4, MethodOf DEF Form, Resizes
  <2>2. CASE "resizeOnline" \notin Overridden(found, object.type)
    <3>1. s = << >>
      BY <2>2, <1>4, MethodOf
    <3>2. Covers(found, object.type)
      BY ClassesSound DEF ClassSound
    <3>3. ~(CanOnline(object.type, "Shrink") \/ CanOnline(object.type, "Grow"))
      BY <3>2, <2>2 DEF Covers, CanOnline, SupportOnline, Support, AlsoOnline
    <3> QED
      BY <3>1, <3>3, <1>4, EmptyStarts, NoneLeft
  <2> QED
    BY <2>1, <2>2
<1>5. CASE /\ s = Method("resize")
           /\ Support(found, object.type, "Shrink") = "tool" \/ Support(found, object.type, "Grow") = "tool"
  <2>1. CASE "resize" \in Overridden(found, object.type)
    BY <2>1, <1>3, <1>5, MethodOf DEF Form
  <2>2. CASE "resize" \notin Overridden(found, object.type)
    <3>1. s = << >>
      BY <2>2, <1>5, MethodOf
    <3>2. Covers(found, object.type)
      BY ClassesSound DEF ClassSound
    <3>3. object.type = "freebsdswap"
      BY <3>2, <2>2, <1>5 DEF Covers, Support
    <3> QED
      BY <3>1, <3>3, EmptyStarts, NoneLeft
  <2> QED
    BY <2>1, <2>2
<1>6. \/ s = Refused \/ (s = << >> /\ length = object.length) \/ (s = Method("resizeOnline") /\ object.mounted)
      \/ /\ s = Method("resize")
         /\ Support(found, object.type, "Shrink") = "tool" \/ Support(found, object.type, "Grow") = "tool"
  BY DEF ResizeSteps
<1> QED
  BY <1>1, <1>2, <1>4, <1>5, <1>6
\* The effects by job.
LEMMA EffectsOf ==
    /\ Effects("resize") = {"mount", "try", "resize", "fill", "umount", "refuse"}
    /\ Effects("maximize") = {"mount", "try", "resize", "fill", "umount", "refuse"}
    /\ Effects("geometry") = {"geometry"} /\ Effects("restore") = {"geometryBack"}
    /\ Effects("label") = {"label", "export", "import", "refuse"}
    /\ Effects("delete") = {"wipe", "refuse"}
    /\ Effects("create") = {"format", "formatLabel", "tag", "refuse"}
    /\ Effects("copy") = {"copy", "fillCopy", "anyway", "boot", "refuse"}
    /\ Effects("permissions") = {"mount", "chmod", "umount"}
    /\ Effects("check") = {"check"}
BY SMTT(30) DEF Effects

\* One sequence of commands after another.
LEMMA ConcatStarts ==
    ASSUME NEW s, NEW t, IsSeq(s), IsSeq(t), NEW r, r = s \o t, NEW E, Within(s, E), Within(t, E)
    PROVE  /\ IsSeq(r) /\ Within(r, E)
           /\ \A F : Counts(s, F) \/ Counts(t, F) => Counts(r, F)
           /\ \A i \in DOMAIN r : (\E k \in DOMAIN s : r[i] = s[k]) \/ (\E k \in DOMAIN t : r[i] = t[k])
<1>1. /\ IsSeq(r) /\ Len(s) \in Nat /\ Len(t) \in Nat /\ DOMAIN r = 1 .. Len(s) + Len(t)
      /\ \A i \in 1 .. Len(s) + Len(t) : r[i] = IF i <= Len(s) THEN s[i] ELSE t[i - Len(s)]
  <2>1. IsSeq(r) /\ Len(s) \in Nat /\ Len(t) \in Nat /\ DOMAIN r = 1 .. Len(s) + Len(t)
    BY Concats
  <2>2. \A i \in 1 .. Len(s) + Len(t) : r[i] = IF i <= Len(s) THEN s[i] ELSE t[i - Len(s)]
    BY Concats
  <2> QED
    BY <2>1, <2>2
<1>2. DOMAIN s = 1 .. Len(s) /\ DOMAIN t = 1 .. Len(t)
  BY Domains
<1>3. \A i \in DOMAIN r : (\E k \in DOMAIN s : r[i] = s[k]) \/ (\E k \in DOMAIN t : r[i] = t[k])
  <2> SUFFICES ASSUME NEW i \in DOMAIN r
               PROVE  (\E k \in DOMAIN s : r[i] = s[k]) \/ (\E k \in DOMAIN t : r[i] = t[k])
    OBVIOUS
  <2>1. CASE i <= Len(s)
    BY <2>1, <1>1, <1>2
  <2>2. CASE ~(i <= Len(s))
    <3>1. i - Len(s) \in DOMAIN t /\ r[i] = t[i - Len(s)]
      BY <2>2, <1>1, <1>2
    <3> QED
      BY <3>1
  <2> QED
    BY <2>1, <2>2
<1>4. Within(r, E)
  BY <1>3 DEF Within
<1>5. ASSUME NEW F, Counts(s, F) PROVE Counts(r, F)
  <2>1. PICK i \in DOMAIN s : s[i].does \in F /\ ~s[i].lax
    BY <1>5 DEF Counts
  <2>2. i \in DOMAIN r /\ r[i] = s[i]
    BY <1>1, <1>2
  <2> QED
    BY <2>1, <2>2 DEF Counts
<1>6. ASSUME NEW F, Counts(t, F) PROVE Counts(r, F)
  <2>1. PICK i \in DOMAIN t : t[i].does \in F /\ ~t[i].lax
    BY <1>6 DEF Counts
  <2>2. i + Len(s) \in DOMAIN r /\ r[i + Len(s)] = t[i]
    BY <1>1, <1>2
  <2> QED
    BY <2>1, <2>2 DEF Counts
<1> QED
  BY <1>1, <1>3, <1>4, <1>5, <1>6

\* A single command after others.
LEMMA OneCmd ==
    ASSUME NEW c, NEW d
    PROVE  Single(<<Cmd(c, d)>>, {d}) /\ Single(<<Write(d)>>, {d})
BY Forms

LEMMA CheckStarts ==
    ASSUME NEW s, s = JobSteps("check"), object.type \in Types
    PROVE  IsSeq(s) /\ Within(s, Effects("check")) /\ Brackets(s) /\ Exports(s)
<1>1. CASE s = << >>
  BY <1>1, EmptyStarts
<1>2. CASE s = Method("check")
  <2>1. s = << >> \/ Single(s, {"check"})
    BY <1>2, MethodOf DEF Form
  <2>2. ASSUME Single(s, {"check"})
        PROVE  IsSeq(s) /\ Within(s, {"check"})
    BY <2>2, Singles
  <2>3. {"check"} \subseteq Plain
    BY DEF Plain
  <2> QED
    BY <2>1, <2>2, <2>3, EmptyStarts, PlainOnes, EffectsOf DEF Within
<1>3. StepsOf("check") = Method("check")
  BY DEF StepsOf
<1> QED
  BY <1>1, <1>2, <1>3 DEF JobSteps

\* The partition's entry in the table.
LEMMA GeometryStarts ==
    ASSUME NEW j \in {"geometry", "restore"}, NEW s, s = JobSteps(j)
    PROVE  /\ IsSeq(s) /\ Within(s, Effects(j)) /\ Brackets(s) /\ Exports(s)
           /\ j = "geometry" => Counts(s, {"geometry", "refuse"})
<1>1. \/ j = "geometry" /\ s = <<Cmd("sfdisk", "geometry")>>
      \/ j = "restore" /\ s = <<Cmd("sfdisk", "geometryBack")>>
  <2>1. StepsOf("geometry") = <<Cmd("sfdisk", "geometry")>>
    BY DEF StepsOf
  <2>2. StepsOf("restore") = <<Cmd("sfdisk", "geometryBack")>>
    BY DEF StepsOf
  <2> QED
    BY <2>1, <2>2 DEF JobSteps
<1>2. Single(s, Effects(j))
  <2>1. CASE j = "geometry"
    <3>1. Single(<<Cmd("sfdisk", "geometry")>>, {"geometry"})
      BY OneCmd
    <3> QED
      BY <1>1, <2>1, <3>1, EffectsOf
  <2>2. CASE j = "restore"
    <3>1. Single(<<Cmd("sfdisk", "geometryBack")>>, {"geometryBack"})
      BY OneCmd
    <3> QED
      BY <1>1, <2>2, <3>1, EffectsOf
  <2> QED
    BY <2>1, <2>2
<1>3. IsSeq(s) /\ Within(s, Effects(j)) /\ Counts(s, Effects(j))
  BY <1>2, Singles
<1>4. Within(s, Plain)
  BY <1>3, EffectsOf DEF Within, Plain
<1> QED
  BY <1>3, <1>4, PlainOnes, EffectsOf DEF Counts

\* A label is written with a command whose failure counts, except on ntfs and bcachefs.
LEMMA LabelStarts ==
    ASSUME NEW s, s = JobSteps("label"), object.type \in Types
    PROVE  /\ IsSeq(s) /\ Within(s, Effects("label")) /\ Brackets(s) /\ Exports(s)
           /\ Can(object.type, "SetLabel") /\ object.type \notin {"ntfs", "bcachefs"} =>
                 Counts(s, {"label", "import", "refuse"})
<1> DEFINE result == /\ IsSeq(s) /\ Within(s, Effects("label")) /\ Brackets(s) /\ Exports(s)
           counts == Counts(s, {"label", "import", "refuse"})
<1>1. s = LabelSteps
  <2>1. StepsOf("label") = LabelSteps
    BY DEF StepsOf
  <2> QED
    BY <2>1 DEF JobSteps
<1>2. CASE s = << >> /\ ~Can(object.type, "SetLabel")
  BY <1>2, EmptyStarts
<1>3. CASE s = Refused
  BY <1>3, RefusedStarts, EffectsOf DEF Within
<1>4. ASSUME Single(s, {"label"}) PROVE result /\ counts
  <2>1. IsSeq(s) /\ Within(s, {"label"}) /\ Counts(s, {"label"})
    BY <1>4, Singles
  <2>2. Within(s, Plain)
    BY <2>1 DEF Within, Plain
  <2> QED
    BY <2>1, <2>2, PlainOnes, EffectsOf DEF Within, Counts
<1>5. ASSUME Reimports(s) PROVE result /\ counts
  <2>1. /\ IsSeq(s) /\ Len(s) = 2 /\ DOMAIN s = 1 .. 2 /\ s[1].does = "export"
        /\ s[2].does = "import" /\ ~s[2].lax
    BY <1>5, Domains DEF Reimports
  <2>2. \A i \in DOMAIN s : i = 1 \/ i = 2
    BY <2>1
  <2>3. 2 \in DOMAIN s /\ 2 > 1
    BY <2>1
  <2>4. Exports(s)
    BY <2>1, <2>2, <2>3 DEF Exports
  <2>5. Within(s, {"export", "import"}) /\ Brackets(s) /\ Counts(s, {"import"})
    BY <2>1, <2>2, <2>3 DEF Within, Brackets, Counts
  <2> QED
    BY <2>1, <2>4, <2>5, EffectsOf DEF Within, Counts
<1>6. ASSUME IsSeq(s), Len(s) = 1, s[1].does = "label" PROVE result
  <2>1. DOMAIN s = 1 .. 1
    BY <1>6, Domains
  <2>2. \A i \in DOMAIN s : s[i].does = "label"
    BY <2>1, <1>6
  <2>3. Within(s, Plain)
    BY <2>2 DEF Within, Plain
  <2> QED
    BY <1>6, <2>2, <2>3, PlainOnes, EffectsOf DEF Within
<1>7. ASSUME s = << >> PROVE result
  BY <1>7, EmptyStarts
<1>8. Covers(found, object.type)
  BY ClassesSound DEF ClassSound
<1>9. CASE s = Method("writeLabel") /\ Can(object.type, "SetLabel")
  <2>1. object.type # "bcachefs" => "writeLabel" \in Overridden(found, object.type)
    BY <1>8, <1>9 DEF Covers, Can, Support
  <2>2. CASE "writeLabel" \in Overridden(found, object.type)
    <3>1. Form("writeLabel", s, object.type)
      BY <2>2, <1>9, MethodOf
    <3>2. \/ Single(s, {"label"}) \/ Reimports(s)
          \/ object.type = "ntfs" /\ IsSeq(s) /\ Len(s) = 1 /\ s[1].does = "label"
      BY <3>1 DEF Form
    <3> QED
      BY <3>2, <1>4, <1>5, <1>6
  <2>3. CASE "writeLabel" \notin Overridden(found, object.type)
    BY <2>1, <2>3, <1>7, <1>9, MethodOf
  <2> QED
    BY <2>2, <2>3
<1>10. CASE s = Method("writeLabelOnline") /\ CanOnline(object.type, "SetLabel")
  <2>1. object.type # "bcachefs" => "writeLabelOnline" \in Overridden(found, object.type)
    BY <1>8, <1>10 DEF Covers, CanOnline, SupportOnline, Support, AlsoOnline
  <2>2. CASE "writeLabelOnline" \in Overridden(found, object.type)
    <3>1. Form("writeLabelOnline", s, object.type)
      BY <2>2, <1>10, MethodOf
    <3>2. Single(s, {"label"})
      BY <3>1 DEF Form
    <3> QED
      BY <3>2, <1>4
  <2>3. CASE "writeLabelOnline" \notin Overridden(found, object.type)
    BY <2>1, <2>3, <1>7, <1>10, MethodOf
  <2> QED
    BY <2>2, <2>3
<1> QED
  BY <1>1, <1>2, <1>3, <1>9, <1>10 DEF LabelSteps

\* The signature is wiped, or the job refuses: it asks whether the partition is mounted.
LEMMA DeleteStarts ==
    ASSUME NEW s, s = JobSteps("delete"), object.type \in Types
    PROVE  /\ IsSeq(s) /\ Within(s, Effects("delete")) /\ Brackets(s) /\ Exports(s)
           /\ Counts(s, {"wipe", "refuse"})
           /\ (\E i \in DOMAIN s : s[i].does = "wipe") => "user" \notin mounts
<1>1. s = DeleteSteps
  <2>1. StepsOf("delete") = DeleteSteps
    BY DEF StepsOf
  <2> QED
    BY <2>1 DEF JobSteps
<1>2. CASE s = Refused
  BY <1>2, RefusedStarts, EffectsOf DEF Within
<1>3. CASE "user" \notin mounts /\ s = Method("remove") \o <<Cmd("wipefs", "wipe")>>
  <2> DEFINE w == <<Cmd("wipefs", "wipe")>>
             n == << >>
  <2>1. s = n \o w
    BY <1>3, MethodOf
  <2>2. Single(w, {"wipe"})
    BY OneCmd
  <2>3. IsSeq(n) /\ Within(n, {"wipe"})
    BY EmptyStarts
  <2> HIDE DEF w, n
  <2>4. IsSeq(w) /\ Within(w, {"wipe"}) /\ Counts(w, {"wipe"})
    BY <2>2, Singles
  <2>5. /\ IsSeq(s) /\ Within(s, {"wipe"})
        /\ \A F : Counts(n, F) \/ Counts(w, F) => Counts(s, F)
    BY <2>1, <2>3, <2>4, ConcatStarts
  <2>6. Counts(s, {"wipe"})
    BY <2>4, <2>5
  <2>7. Within(s, Plain)
    BY <2>5 DEF Within, Plain
  <2> QED
    BY <1>3, <2>5, <2>6, <2>7, PlainOnes, EffectsOf DEF Within, Counts
<1> QED
  BY <1>1, <1>2, <1>3 DEF DeleteSteps
\* The file system is made, where there is one to make.
LEMMA CreateStarts ==
    ASSUME NEW s, s = JobSteps("create"), object.type \in Types
    PROVE  /\ IsSeq(s) /\ Within(s, Effects("create")) /\ Brackets(s) /\ Exports(s)
           /\ IF object.type \in Unwritten
              THEN \A i \in DOMAIN s : s[i].does \notin {"format", "formatLabel"}
              ELSE Counts(s, {"format", "formatLabel", "refuse"})
<1> DEFINE F == IF object.type \in Unwritten THEN {} ELSE {"format", "formatLabel"}
           tag == <<Cmd("sfdisk", "tag")>>
<1>1. s = CreateSteps
  <2>1. StepsOf("create") = CreateSteps
    BY DEF StepsOf
  <2> QED
    BY <2>1 DEF JobSteps
<1>2. CASE s = << >> /\ object.type = "unformatted"
  BY <1>2, EmptyStarts, NoneLeft DEF Unwritten
<1>3. CASE s = Refused
  <2>1. /\ IsSeq(s) /\ Within(s, {"refuse"}) /\ Brackets(s) /\ Exports(s)
        /\ Counts(s, {"format", "formatLabel", "refuse"})
    BY <1>3, RefusedStarts
  <2> QED
    BY <2>1, EffectsOf DEF Within
<1>4. Covers(found, object.type)
  BY ClassesSound DEF ClassSound
<1>5. ASSUME NEW m, IsSeq(m), Within(m, F), object.type \in Unwritten \/ Counts(m, F), s = m \o tag
      PROVE  /\ IsSeq(s) /\ Within(s, Effects("create")) /\ Brackets(s) /\ Exports(s)
             /\ IF object.type \in Unwritten
                THEN \A i \in DOMAIN s : s[i].does \notin {"format", "formatLabel"}
                ELSE Counts(s, {"format", "formatLabel", "refuse"})
  <2>1. Single(tag, {"tag"})
    BY OneCmd
  <2> HIDE DEF tag
  <2>2. IsSeq(tag) /\ Within(tag, {"tag"})
    BY <2>1, Singles
  <2> DEFINE E == F \cup {"tag"}
  <2>3. Within(m, E) /\ Within(tag, E)
    BY <1>5, <2>2 DEF Within
  <2> HIDE DEF E, F
  <2>4. IsSeq(s) /\ Within(s, E) /\ (Counts(m, F) => Counts(s, F))
    BY <1>5, <2>2, <2>3, ConcatStarts
  <2> USE DEF E, F
  <2>5. Within(s, Plain) /\ Within(s, Effects("create"))
    BY <2>4, EffectsOf DEF Within, Plain
  <2>6. object.type \in Unwritten \/ Counts(s, {"format", "formatLabel", "refuse"})
    BY <1>5, <2>4 DEF Counts
  <2> QED
    BY <2>4, <2>5, <2>6, PlainOnes DEF Within
<1>6. CASE s = Method("createWithLabel") \o tag /\ Support(found, object.type, "CreateWithLabel") = "tool"
  <2>1. "createWithLabel" \in Overridden(found, object.type) /\ object.type \notin Unwritten
    BY <1>4, <1>6 DEF Covers, Support
  <2>2. Single(Method("createWithLabel"), {"formatLabel"})
    BY <2>1, MethodOf DEF Form
  <2>3. /\ IsSeq(Method("createWithLabel")) /\ Within(Method("createWithLabel"), {"formatLabel"})
        /\ Counts(Method("createWithLabel"), {"formatLabel"})
    BY <2>2, Singles
  <2>4. Within(Method("createWithLabel"), F) /\ Counts(Method("createWithLabel"), F)
    BY <2>1, <2>3 DEF Within, Counts
  <2> HIDE DEF F, tag
  <2> QED
    BY <1>5, <1>6, <2>3, <2>4
<1>7. CASE s = Method("create") \o tag /\ Support(found, object.type, "Create") = "tool"
  <2> DEFINE m == Method("create")
  <2>1. "create" \in Overridden(found, object.type)
    BY <1>4, <1>7 DEF Covers, Support
  <2>2. IF object.type \in Unwritten THEN m = << >> ELSE Single(m, {"format"})
    BY <2>1, MethodOf DEF Form
  <2>3. s = m \o tag
    BY <1>7
  <2> HIDE DEF m
  <2>4. CASE object.type \in Unwritten
    <3>1. IsSeq(m) /\ Within(m, F)
      BY <2>2, <2>4, EmptyStarts
    <3> HIDE DEF F, tag
    <3> QED
      BY <2>3, <2>4, <3>1, <1>5
  <2>5. CASE object.type \notin Unwritten
    <3>1. IsSeq(m) /\ Within(m, {"format"}) /\ Counts(m, {"format"})
      BY <2>2, <2>5, Singles
    <3>2. Within(m, F) /\ Counts(m, F)
      BY <3>1, <2>5 DEF Within, Counts
    <3> HIDE DEF F, tag
    <3> QED
      BY <2>3, <2>5, <3>1, <3>2, <1>5
  <2> QED
    BY <2>4, <2>5
<1> QED
  BY <1>1, <1>2, <1>3, <1>6, <1>7 DEF CreateSteps

\* The commands of a method whose result does not matter.
LEMMA Anyway ==
    ASSUME NEW u, IsSeq(u), NEW s, s = [i \in DOMAIN u |-> Lax(u[i].tool, "anyway")]
    PROVE  IsSeq(s) /\ Within(s, {"anyway"})
<1> DEFINE n == Len(u)
           S == {s[i] : i \in 1 .. n}
<1>1. n \in Nat /\ DOMAIN u = 1 .. n
  BY Domains
<1> HIDE DEF n
<1>2. s = [i \in 1 .. n |-> s[i]]
  BY <1>1
<1>3. s \in [1 .. n -> S]
  BY <1>2
<1>4. s \in UNION {[1 .. k -> S] : k \in Nat}
  BY <1>1, <1>3
<1>5. s \in Seq(S)
  BY <1>4, SeqDef
<1>6. \A i \in DOMAIN s : s[i].does = "anyway"
  BY Commands
<1> QED
  BY <1>5, <1>6 DEF IsSeq, Within
\* The file system is copied by a command whose failure counts; linuxswap's fills the device.
LEMMA CopyStarts ==
    ASSUME NEW s, s = JobSteps("copy"), object.type \in Types
    PROVE  /\ IsSeq(s) /\ Within(s, Effects("copy")) /\ Brackets(s) /\ Exports(s)
           /\ Counts(s, {"copy", "fillCopy", "refuse"})
           /\ \A i \in DOMAIN s : s[i].does = "fillCopy" => object.type = "linuxswap"
<1> DEFINE uuid == IF Support(found, object.type, "UpdateUUID") = "tool" THEN Method("updateUUID") ELSE << >>
           copy == IF Support(found, object.type, "Copy") = "tool" THEN Method("copy") ELSE <<Write("copy")>>
           anyway == [i \in DOMAIN uuid |-> Lax(uuid[i].tool, "anyway")]
           boot == Method("updateBootSector")
           F == IF object.type = "linuxswap" THEN {"copy", "fillCopy"} ELSE {"copy"}
           E == F \cup {"anyway", "boot"}
<1>1. s = Refused \/ s = (copy \o anyway) \o boot
  <2>1. StepsOf("copy") = CopySteps
    BY DEF StepsOf
  <2> QED
    BY <2>1 DEF JobSteps, CopySteps
<1>2. CASE s = Refused
  <2>1. /\ IsSeq(s) /\ Within(s, {"refuse"}) /\ Brackets(s) /\ Exports(s)
        /\ Counts(s, {"copy", "fillCopy", "refuse"})
    BY <1>2, RefusedStarts
  <2> QED
    BY <2>1, EffectsOf DEF Within
<1>3. Single(copy, F)
  <2>1. CASE Support(found, object.type, "Copy") = "tool"
    <3>1. Covers(found, object.type)
      BY ClassesSound DEF ClassSound
    <3>2. "copy" \in Overridden(found, object.type)
      BY <2>1, <3>1 DEF Covers, Support
    <3>3. Single(Method("copy"), IF object.type = "linuxswap" THEN {"fillCopy"} ELSE {"copy"})
      BY <3>2, MethodOf DEF Form
    <3> QED
      BY <2>1, <3>3 DEF Single
  <2>2. CASE Support(found, object.type, "Copy") # "tool"
    BY <2>2, OneCmd DEF Single
  <2> QED
    BY <2>1, <2>2
<1>4. IsSeq(uuid)
  <2>1. Method("updateUUID") = << >> \/ Single(Method("updateUUID"), {"uuid"})
    BY MethodOf DEF Form
  <2> QED
    BY <2>1, EmptyStarts DEF Single
<1>5. IsSeq(boot) /\ Within(boot, {"boot"})
  <2>1. \/ boot = << >>
        \/ IsSeq(boot) /\ Len(boot) = 2 /\ boot[1].does = "boot" /\ boot[2].does = "boot"
    BY MethodOf DEF Form
  <2>2. CASE boot = << >>
    BY <2>2, EmptyStarts
  <2>3. CASE IsSeq(boot) /\ Len(boot) = 2 /\ boot[1].does = "boot" /\ boot[2].does = "boot"
    <3>1. DOMAIN boot = 1 .. 2
      BY <2>3, Domains
    <3>2. \A i \in DOMAIN boot : i = 1 \/ i = 2
      BY <3>1
    <3> QED
      BY <2>3, <3>2 DEF Within
  <2> QED
    BY <2>1, <2>2, <2>3
<1> HIDE DEF uuid, copy, boot
<1>6. IsSeq(anyway) /\ Within(anyway, {"anyway"})
  BY <1>4, Anyway
<1> HIDE DEF anyway
<1>7. IsSeq(copy) /\ Within(copy, F) /\ Counts(copy, F)
  BY <1>3, Singles
<1>8. Within(copy, E) /\ Within(anyway, E) /\ Within(boot, E)
  BY <1>5, <1>6, <1>7 DEF Within
<1> HIDE DEF E, F
<1>9. CASE s = (copy \o anyway) \o boot
  <2> DEFINE first == copy \o anyway
  <2>1. s = first \o boot
    BY <1>9
  <2>2. IsSeq(first) /\ Within(first, E) /\ (Counts(copy, F) => Counts(first, F))
    BY <1>6, <1>7, <1>8, ConcatStarts
  <2> HIDE DEF first
  <2>3. IsSeq(s) /\ Within(s, E) /\ (Counts(first, F) => Counts(s, F))
    BY <1>5, <1>8, <2>1, <2>2, ConcatStarts
  <2>4. Within(s, Plain) /\ Within(s, Effects("copy")) /\ Counts(s, {"copy", "fillCopy", "refuse"})
    BY <1>7, <2>2, <2>3, EffectsOf DEF Within, Counts, Plain, E, F
  <2>5. \A i \in DOMAIN s : s[i].does = "fillCopy" => object.type = "linuxswap"
    BY <2>3 DEF Within, E, F
  <2> QED
    BY <2>3, <2>4, <2>5, PlainOnes
<1> QED
  BY <1>1, <1>2, <1>9

LEMMA PermissionStarts ==
    ASSUME NEW s, s = JobSteps("permissions")
    PROVE  IsSeq(s) /\ Within(s, Effects("permissions")) /\ Brackets(s) /\ Exports(s)
<1>1. s = PermissionSteps
  <2>1. StepsOf("permissions") = PermissionSteps
    BY DEF StepsOf
  <2> QED
    BY <2>1 DEF JobSteps
<1>2. CASE s = << >>
  BY <1>2, EmptyStarts
<1>3. CASE s = <<Cmd("mount", "mount"), Cmd("chmod", "chmod"), Cmd("umount", "umount")>>
  <2>1. /\ IsSeq(s) /\ Len(s) = 3 /\ s[1].does = "mount" /\ s[2].does = "chmod" /\ s[3].does = "umount"
    BY <1>3, Lists, Commands
  <2>2. DOMAIN s = 1 .. 3
    BY <2>1, Domains
  <2>3. \A i \in DOMAIN s : i = 1 \/ i = 2 \/ i = 3
    BY <2>2
  <2>4. Within(s, Effects("permissions")) /\ Exports(s)
    BY <2>1, <2>3, EffectsOf DEF Within, Exports
  <2>5. Brackets(s)
    BY <2>1, <2>3 DEF Brackets
  <2> QED
    BY <2>1, <2>4, <2>5
<1> QED
  BY <1>1, <1>2, <1>3 DEF PermissionSteps

\* The length of a file system is changed by these jobs.
LEMMA ResizeJobs ==
    /\ JobSteps("resize") = ResizeSteps(op.length) /\ JobSteps("maximize") = ResizeSteps(device)
<1>1. StepsOf("resize") = ResizeSteps(op.length)
  BY DEF StepsOf
<1>2. StepsOf("maximize") = ResizeSteps(device)
  BY DEF StepsOf
<1> QED
  BY <1>1, <1>2 DEF JobSteps

\* What every job starts with.
LEMMA JobStarts ==
    ASSUME NEW j \in JobNames, NEW s, s = JobSteps(j), object.type \in Types
    PROVE  IsSeq(s) /\ Within(s, Effects(j)) /\ Brackets(s) /\ Exports(s)
<1>1. CASE j = "check"
  BY <1>1, CheckStarts
<1>2. CASE j = "resize"
  BY <1>2, ResizeJobs, ResizeStarts
<1>3. CASE j = "maximize"
  BY <1>3, ResizeJobs, ResizeStarts, EffectsOf
<1>4. CASE j \in {"geometry", "restore"}
  BY <1>4, GeometryStarts
<1>5. CASE j = "label"
  BY <1>5, LabelStarts
<1>6. CASE j = "delete"
  BY <1>6, DeleteStarts
<1>7. CASE j = "create"
  BY <1>7, CreateStarts
<1>8. CASE j = "copy"
  BY <1>8, CopyStarts
<1>9. CASE j = "permissions"
  BY <1>9, PermissionStarts
<1> QED
  BY <1>1, <1>2, <1>3, <1>4, <1>5, <1>6, <1>7, <1>8, <1>9 DEF JobNames

--------------------------------------------------------------------------------
(* Operations.                                                             *)

\* What holds of jobs in a list of at most four.
LEMMA JobLists ==
    ASSUME NEW s
    PROVE  /\ \A w : s = <<w>> => s \in Seq({w}) /\ DOMAIN s = 1 .. 1 /\ s[1] = w
           /\ \A w, x : s = <<w, x>> => s \in Seq({w, x}) /\ DOMAIN s = 1 .. 2 /\ s[1] = w /\ s[2] = x
           /\ \A w, x, y : s = <<w, x, y>> => /\ s \in Seq({w, x, y}) /\ DOMAIN s = 1 .. 3
                                              /\ s[1] = w /\ s[2] = x /\ s[3] = y
           /\ \A w, x, y, z : s = <<w, x, y, z>> => /\ s \in Seq({w, x, y, z}) /\ DOMAIN s = 1 .. 4
                                                    /\ s[1] = w /\ s[2] = x /\ s[3] = y /\ s[4] = z
<1>1. \A w : s = <<w>> => s \in Seq({w}) /\ DOMAIN s = 1 .. 1 /\ s[1] = w
  OBVIOUS
<1>2. \A w, x : s = <<w, x>> => s \in Seq({w, x}) /\ DOMAIN s = 1 .. 2 /\ s[1] = w /\ s[2] = x
  OBVIOUS
<1>3. \A w, x, y : s = <<w, x, y>> => /\ s \in Seq({w, x, y}) /\ DOMAIN s = 1 .. 3
                                      /\ s[1] = w /\ s[2] = x /\ s[3] = y
  OBVIOUS
<1>4. \A w, x, y, z : s = <<w, x, y, z>> => /\ s \in Seq({w, x, y, z}) /\ DOMAIN s = 1 .. 4
                                            /\ s[1] = w /\ s[2] = x /\ s[3] = y /\ s[4] = z
  OBVIOUS
<1> QED
  BY <1>1, <1>2, <1>3, <1>4

\* The jobs that the constructors give an operation.
LEMMA JobsOfLists ==
    ASSUME NEW name \in Names, NEW s, s = JobsOf(name)
    PROVE  /\ s \in Seq(JobNames)
           /\ \A i \in DOMAIN s : s[i] \in JobsIn(name)
           /\ name \in {"shrink", "grow"} => Has(s, "resize") /\ Has(s, "geometry")
           /\ name = "grow" => Ordered(s, "geometry", "resize")
           /\ name = "label" => Has(s, "label")
           /\ name = "delete" => Has(s, "delete")
           /\ name = "create" => /\ Has(s, "delete") /\ Has(s, "create")
                                 /\ Ordered(s, "delete", "create")
           /\ name = "copy" => Has(s, "copy") /\ Ordered(s, "copy", "maximize")
<1> USE DEF Has, Ordered, JobNames, JobsIn
<1>1. CASE name \in {"shrink", "grow"}
  <2> DEFINE first == IF name = "shrink" THEN "resize" ELSE "geometry"
             second == IF name = "shrink" THEN "geometry" ELSE "resize"
  <2>1. s = <<first, second>> \/ s = <<"check", first, second, "check">>
    BY <1>1 DEF JobsOf, Resize
  <2>2. first # second /\ {first, second} = {"resize", "geometry"} /\ first # "check" /\ second # "check"
        /\ (name = "grow" => first = "geometry" /\ second = "resize")
    BY <1>1
  <2> HIDE DEF first, second
  <2>3. CASE s = <<first, second>>
    <3>1. s \in Seq({first, second}) /\ DOMAIN s = 1 .. 2 /\ s[1] = first /\ s[2] = second
      BY <2>3, JobLists
    <3>2. \A i \in DOMAIN s : i = 1 \/ i = 2
      BY <3>1
    <3>3. Has(s, "resize") /\ Has(s, "geometry") /\ \A i \in DOMAIN s : s[i] \in JobsIn(name)
      BY <1>1, <2>2, <3>1, <3>2
    <3>4. name = "grow" => Ordered(s, "geometry", "resize")
      BY <2>2, <3>1, <3>2
    <3>5. s \in Seq(JobNames)
      BY <2>2, <3>1
    <3> QED
      BY <1>1, <3>3, <3>4, <3>5
  <2>4. CASE s = <<"check", first, second, "check">>
    <3>1. /\ s \in Seq({"check", first, second, "check"}) /\ DOMAIN s = 1 .. 4
          /\ s[1] = "check" /\ s[2] = first /\ s[3] = second /\ s[4] = "check"
      BY <2>4, JobLists
    <3>2. \A i \in DOMAIN s : i = 1 \/ i = 2 \/ i = 3 \/ i = 4
      BY <3>1
    <3>3. Has(s, "resize") /\ Has(s, "geometry") /\ \A i \in DOMAIN s : s[i] \in JobsIn(name)
      BY <1>1, <2>2, <3>1, <3>2
    <3>4. name = "grow" => Ordered(s, "geometry", "resize")
      BY <2>2, <3>1, <3>2
    <3>5. s \in Seq(JobNames)
      BY <2>2, <3>1
    <3> QED
      BY <1>1, <3>3, <3>4, <3>5
  <2> QED
    BY <2>1, <2>3, <2>4
<1>3. CASE name = "create"
  <2>1. s = <<"delete", "create", "check", "permissions">>
    BY <1>3 DEF JobsOf
  <2>2. /\ s \in Seq({"delete", "create", "check", "permissions"}) /\ DOMAIN s = 1 .. 4
        /\ s[1] = "delete" /\ s[2] = "create" /\ s[3] = "check" /\ s[4] = "permissions"
    BY <2>1, JobLists
  <2>3. \A i \in DOMAIN s : i = 1 \/ i = 2 \/ i = 3 \/ i = 4
    BY <2>2
  <2>4. s \in Seq(JobNames)
    BY <2>2
  <2>5. Has(s, "delete") /\ Has(s, "create") /\ Ordered(s, "delete", "create")
    BY <2>2, <2>3
  <2> QED
    BY <1>3, <2>2, <2>3, <2>4, <2>5
<1>4. CASE name = "copy"
  <2>1. s = <<"copy", "check", "maximize">>
    BY <1>4 DEF JobsOf
  <2>2. /\ s \in Seq({"copy", "check", "maximize"}) /\ DOMAIN s = 1 .. 3
        /\ s[1] = "copy" /\ s[2] = "check" /\ s[3] = "maximize"
    BY <2>1, JobLists
  <2>3. \A i \in DOMAIN s : i = 1 \/ i = 2 \/ i = 3
    BY <2>2
  <2>4. s \in Seq(JobNames)
    BY <2>2
  <2>5. Has(s, "copy") /\ Ordered(s, "copy", "maximize")
    BY <2>2, <2>3
  <2> QED
    BY <1>4, <2>2, <2>3, <2>4, <2>5
<1>5. CASE name \in {"check", "label", "delete"}
  <2>1. s = <<name>>
    BY <1>5 DEF JobsOf
  <2>2. s \in Seq({name}) /\ DOMAIN s = 1 .. 1 /\ s[1] = name
    BY <2>1, JobLists
  <2>3. s \in Seq(JobNames)
    BY <1>5, <2>2
  <2> QED
    BY <1>5, <2>2, <2>3
<1> QED
  BY <1>1, <1>3, <1>4, <1>5 DEF Names
--------------------------------------------------------------------------------
(* What the pending operations record.                                     *)

\* What is shown is what the last operation records; what the operations that change it bring
\* besides is shown of one of them.
LEMMA ShownIs ==
    ASSUME IsSeq(queue), NEW field, NEW names, NEW now, Records(queue, field, names, now)
    PROVE  /\ Shown(field, names, now) = IF queue = << >> THEN now ELSE queue[Len(queue)][field]
           /\ \A f, v : Shown(f, names, v) = v \/ \E i \in DOMAIN queue : Shown(f, names, v) = queue[i][f]
<1> DEFINE changes == {i \in DOMAIN queue : queue[i].name \in names}
           n == Len(queue)
           last == CHOOSE i \in changes : \A j \in changes : j <= i
<1>1. n \in Nat /\ DOMAIN queue = 1 .. n /\ (queue # << >> => n >= 1)
  BY Domains
<1>2. \A f, v : Shown(f, names, v) = IF changes = {} THEN v ELSE queue[last][f]
  BY DEF Shown
<1>3. CASE queue = << >>
  <2>1. changes = {}
    BY <1>3, NoneLeft
  <2> QED
    BY <1>2, <1>3, <2>1
<1>4. CASE queue # << >> /\ changes = {}
  <2>1. n \in DOMAIN queue /\ n \in Nat /\ n >= 1
    BY <1>1, <1>4
  <2> HIDE DEF n
  <2>2. queue[n][field] = now
    BY <1>4, <1>1, <2>1 DEF Records
  <2> QED
    BY <1>2, <1>4, <2>2 DEF n
<1>5. CASE queue # << >> /\ changes # {}
  <2>1. n \in DOMAIN queue /\ n \in Nat /\ n >= 1
    BY <1>1, <1>5
  <2> HIDE DEF n
  <2>2. PICK c \in DOMAIN queue : queue[c].name \in names
    BY <1>5
  <2>3. c \in 1 .. n
    BY <1>1, <2>2
  <2>4. PICK m \in 1 .. n : /\ queue[m].name \in names /\ queue[n][field] = queue[m][field]
                            /\ \A k \in m + 1 .. n : queue[k].name \notin names
    BY <1>1, <2>1, <2>2, <2>3 DEF Records
  <2>5. m \in changes /\ \A j \in changes : j <= m
    <3>1. ASSUME NEW j \in changes PROVE j <= m
      BY <1>1, <2>1, <2>4, <3>1
    <3> QED
      BY <3>1, <1>1, <2>4
  <2>6. last \in changes /\ \A j \in changes : j <= last
    <3> HIDE DEF changes
    <3> QED
      BY <2>5
  <2>7. last = m
    <3>1. last \in Nat /\ m \in Nat
      BY <1>1, <2>4, <2>6
    <3> HIDE DEF last, changes
    <3> QED
      BY <2>5, <2>6, <3>1
  <2>8. last \in DOMAIN queue
    BY <2>6
  <2> HIDE DEF last, changes
  <2> QED
    BY <1>2, <1>5, <2>4, <2>7, <2>8 DEF n
<1> QED
  BY <1>3, <1>4, <1>5

\* An operation that is pushed records what is shown, or changes it.
LEMMA RecordsPushed ==
    ASSUME NEW q, IsSeq(q), NEW r, IsSeq(r), Len(r) = Len(q) + 1, \A i \in DOMAIN q : r[i] = q[i],
           NEW field, NEW names, NEW now, Records(q, field, names, now),
           \/ r[Len(r)].name \in names
           \/ r[Len(r)][field] = IF q = << >> THEN now ELSE q[Len(q)][field]
    PROVE  Records(r, field, names, now)
<1> DEFINE n == Len(q)
<1>1. /\ n \in Nat /\ DOMAIN q = 1 .. n /\ (q # << >> => n >= 1) /\ Len(r) = n + 1
      /\ DOMAIN r = 1 .. n + 1 /\ (q = << >> => n = 0)
  BY Domains, Lists
<1> HIDE DEF n
<1>2. ASSUME NEW i \in DOMAIN r
      PROVE  \/ \E m \in 1 .. i : /\ r[m].name \in names /\ r[i][field] = r[m][field]
                                  /\ \A k \in m + 1 .. i : r[k].name \notin names
             \/ r[i][field] = now /\ \A k \in 1 .. i : r[k].name \notin names
  <2>1. CASE i \in DOMAIN q
    <3>1. i \in 1 .. n /\ \A k \in 1 .. i : k \in DOMAIN q /\ r[k] = q[k]
      BY <1>1, <2>1
    <3>2. CASE \E m \in 1 .. i : /\ q[m].name \in names /\ q[i][field] = q[m][field]
                                 /\ \A k \in m + 1 .. i : q[k].name \notin names
      <4>1. PICK m \in 1 .. i : /\ q[m].name \in names /\ q[i][field] = q[m][field]
                                /\ \A k \in m + 1 .. i : q[k].name \notin names
        BY <3>2
      <4>2. i \in 1 .. i /\ \A k \in m + 1 .. i : k \in 1 .. i
        BY <3>1, <1>1
      <4> QED
        BY <3>1, <4>1, <4>2
    <3>3. CASE q[i][field] = now /\ \A k \in 1 .. i : q[k].name \notin names
      <4>2. i \in 1 .. i
        BY <3>1, <1>1
      <4> QED
        BY <3>1, <3>3, <4>2
    <3> QED
      BY <2>1, <3>2, <3>3 DEF Records
  <2>2. CASE i = n + 1 /\ r[i].name \in names
    <3>1. i \in 1 .. i /\ \A k \in i + 1 .. i : FALSE
      BY <1>1, <2>2
    <3> QED
      BY <2>2, <3>1
  <2>3. CASE i = n + 1 /\ r[i].name \notin names /\ q = << >>
    <3>1. \A k \in 1 .. i : k = i
      BY <1>1, <2>3
    <3> QED
      BY <1>1, <2>3, <3>1
  <2>4. CASE i = n + 1 /\ r[i].name \notin names /\ q # << >>
    <3>1. n \in DOMAIN q /\ r[i][field] = q[n][field] /\ r[n] = q[n]
      BY <1>1, <2>4 DEF n
    <3>2. CASE \E m \in 1 .. n : /\ q[m].name \in names /\ q[n][field] = q[m][field]
                                 /\ \A k \in m + 1 .. n : q[k].name \notin names
      <4>1. PICK m \in 1 .. n : /\ q[m].name \in names /\ q[n][field] = q[m][field]
                                /\ \A k \in m + 1 .. n : q[k].name \notin names
        BY <3>2
      <4>2. m \in 1 .. i /\ r[m] = q[m] /\ \A k \in m + 1 .. i : k = i \/ (k \in m + 1 .. n /\ r[k] = q[k])
        BY <1>1, <2>4
      <4>3. \A k \in m + 1 .. i : r[k].name \notin names
        BY <2>4, <4>1, <4>2
      <4> QED
        BY <3>1, <4>1, <4>2, <4>3
    <3>3. CASE q[n][field] = now /\ \A k \in 1 .. n : q[k].name \notin names
      <4>1. \A k \in 1 .. i : k = i \/ (k \in 1 .. n /\ r[k] = q[k])
        BY <1>1, <2>4
      <4>2. \A k \in 1 .. i : r[k].name \notin names
        BY <2>4, <3>3, <4>1
      <4> QED
        BY <3>1, <3>3, <4>2
    <3> QED
      BY <3>1, <3>2, <3>3 DEF Records
  <2> QED
    BY <1>1, <2>1, <2>2, <2>3, <2>4
<1> QED
  BY <1>2 DEF Records

\* When the first operation is executed, what it records is what the partition is.
LEMMA RecordsTaken ==
    ASSUME NEW q, IsSeq(q), q # << >>, NEW r, r = Tail(q),
           NEW field, NEW names, NEW now, Records(q, field, names, now)
    PROVE  Records(r, field, names, q[1][field]) /\ (q[1].name \notin names => q[1][field] = now)
<1> DEFINE n == Len(q)
<1>1. /\ n \in Nat /\ n >= 1 /\ DOMAIN q = 1 .. n /\ DOMAIN r = 1 .. n - 1
      /\ \A i \in DOMAIN r : i \in Nat /\ i + 1 \in DOMAIN q /\ r[i] = q[i + 1]
  BY Rest
<1> HIDE DEF n
<1>2. q[1].name \notin names => q[1][field] = now
  <2>1. 1 \in DOMAIN q /\ \A k \in 1 .. 1 : k = 1
    BY <1>1
  <2> QED
    BY <2>1 DEF Records
<1>3. ASSUME NEW i \in DOMAIN r
      PROVE  \/ \E m \in 1 .. i : /\ r[m].name \in names /\ r[i][field] = r[m][field]
                                  /\ \A k \in m + 1 .. i : r[k].name \notin names
             \/ r[i][field] = q[1][field] /\ \A k \in 1 .. i : r[k].name \notin names
  <2>1. /\ i \in Nat /\ i + 1 \in DOMAIN q /\ r[i] = q[i + 1]
        /\ \A k \in 1 .. i : k \in DOMAIN r /\ r[k] = q[k + 1] /\ k + 1 \in 1 .. i + 1
    BY <1>1
  <2>2. CASE \E m \in 1 .. i + 1 : /\ q[m].name \in names /\ q[i + 1][field] = q[m][field]
                                   /\ \A k \in m + 1 .. i + 1 : q[k].name \notin names
    <3>1. PICK m \in 1 .. i + 1 : /\ q[m].name \in names /\ q[i + 1][field] = q[m][field]
                                  /\ \A k \in m + 1 .. i + 1 : q[k].name \notin names
      BY <2>2
    <3>2. CASE m = 1
      <4>1. \A k \in 1 .. i : k + 1 \in m + 1 .. i + 1
        BY <2>1, <3>2
      <4> QED
        BY <2>1, <3>1, <3>2, <4>1
    <3>3. CASE m # 1
      <4>1. m - 1 \in 1 .. i /\ (m - 1) + 1 = m
        BY <2>1, <3>3
      <4>2. \A k \in (m - 1) + 1 .. i : k \in 1 .. i /\ k + 1 \in m + 1 .. i + 1
        BY <2>1, <3>3
      <4>3. r[m - 1] = q[m]
        BY <2>1, <4>1
      <4> QED
        BY <2>1, <3>1, <4>1, <4>2, <4>3
    <3> QED
      BY <3>2, <3>3
  <2>3. CASE q[i + 1][field] = now /\ \A k \in 1 .. i + 1 : q[k].name \notin names
    <3>1. q[1].name \notin names
      BY <2>1, <2>3
    <3> QED
      BY <1>2, <2>1, <2>3, <3>1
  <2> QED
    BY <2>1, <2>2, <2>3 DEF Records
<1> QED
  BY <1>2, <1>3 DEF Records

\* Nothing is recorded by no operations.
LEMMA RecordsNone == \A field, names, now : Records(<< >>, field, names, now)
BY NoneLeft DEF Records
--------------------------------------------------------------------------------
(* The invariant holds at first, and planning and mounting keep it.        *)

LEMMA InitInvariant == Init => IInv
<1> SUFFICES ASSUME Init PROVE IInv
  OBVIOUS
<1> USE FileSystemJobsAssumption
<1>1. PICK type \in FirstTypes, length \in {Length - 1, Length} :
         /\ content = [type |-> type, length |-> length, label |-> "old", online |-> TRUE]
         /\ object = [type |-> type, length |-> length, label |-> "old", mounted |-> FALSE]
  BY DEF Init
<1>2. /\ device = Length /\ mounts = {} /\ queue = << >> /\ op = [name |-> "none"]
      /\ jobs = << >> /\ job = "idle" /\ todo = << >> /\ value = TRUE /\ outcome = "none"
      /\ formatted = FALSE /\ steady = TRUE /\ stuck = FALSE
  BY DEF Init
<1>3. type \in Types /\ length \in Nat /\ Length \in Nat
  BY FileSystemJobsAssumption
<1>4. op.name = "none" /\ "none" \notin Names
  BY <1>2 DEF Names
<1>5. TypesOK
  <2>1. /\ content \in [type : Types \cup {"none"}, length : Nat, label : Labels, online : BOOLEAN]
        /\ object \in [type : Types, length : Nat, label : Labels, mounted : BOOLEAN]
    BY <1>1, <1>3 DEF Labels
  <2>2. queue \in Seq(Operations) /\ jobs \in Seq(JobNames) /\ IsSeq(todo)
    BY <1>2, NoneLeft
  <2> QED
    BY <1>2, <1>3, <2>1, <2>2 DEF TypesOK
<1>6. Queued
  BY <1>2, NoneLeft DEF Queued
<1>7. Recorded
  BY <1>2, RecordsNone DEF Recorded
<1>8. Progress
  BY <1>2, <1>4, NoneLeft DEF Progress
<1>9. Bracketed /\ WipesUnmounted
  BY <1>2 DEF Bracketed, WipesUnmounted
<1>10. Resizing /\ Labelling /\ Deleting /\ Creating /\ Copying /\ Placed
  BY <1>4 DEF Resizing, Labelling, Deleting, Creating, Copying, Placed
<1>11. Matching /\ Online
  BY <1>1 DEF Matching, Online
<1>12. LengthTells /\ Halfway
  BY <1>1, <1>2 DEF LengthTells, Halfway
<1> QED
  BY <1>5, <1>6, <1>7, <1>8, <1>9, <1>10, <1>11, <1>12 DEF IInv

\* While nothing is executed, no job is ahead.
LEMMA NothingAhead ==
    ASSUME Progress, Idle
    PROVE  /\ job = "idle" /\ jobs = << >> /\ todo = << >>
           /\ \A name, effects : name # "idle" => ~Ahead(name, effects)
<1>1. job = "idle" /\ jobs = << >> /\ todo = << >>
  BY DEF Progress
<1>2. \A x : ~Has(jobs, x)
  BY <1>1, NoneLeft DEF Has
<1> QED
  BY <1>1, <1>2 DEF Ahead

\* The parts of the invariant that say nothing of the pending operations.
Settled == /\ Bracketed /\ WipesUnmounted /\ Resizing /\ Labelling /\ Deleting /\ Creating /\ Copying
           /\ Placed /\ Matching /\ Online /\ LengthTells /\ Halfway

\* They are kept by planning and by mounting.
LEMMA SettledKept ==
    ASSUME IInv, Idle,
           UNCHANGED <<found, device, content, op, run, outcome, formatted, stuck>>,
           "temp" \in mounts' => "temp" \in mounts, steady' => steady,
           object'.type = object.type, object'.length = object.length
    PROVE  Settled'
<1>1. /\ job = "idle" /\ jobs = << >> /\ todo = << >>
      /\ \A name, effects : name # "idle" => ~Ahead(name, effects)
  BY NothingAhead DEF IInv
<1>2. UNCHANGED <<found, device, content, op, jobs, job, todo, value, outcome, formatted, stuck>>
  BY DEF run
<1>3. (Bracketed /\ WipesUnmounted)'
  BY <1>1, <1>2, NoneLeft DEF IInv, Bracketed, WipesUnmounted
<1>4. Resizing'
  BY <1>1, <1>2 DEF IInv, Resizing, Sound, Tracked, Sized, Ordered, Has, Ahead, Counts
<1>5. Labelling'
  BY <1>1, <1>2 DEF IInv, Labelling, Sound, Can, Ahead, Has, Counts
<1>6. Deleting'
  BY <1>1, <1>2 DEF IInv, Deleting, Sound, Ahead, Has, Counts
<1>7. Creating'
  BY <1>1, <1>2 DEF IInv, Creating, Sound, Ahead, Has, Counts, Ordered
<1>8. Copying'
  BY <1>1, <1>2 DEF IInv, Copying, Sound, Ahead, Has, Counts, Ordered
<1>9. Placed' /\ Matching' /\ Online'
  BY <1>1, <1>2 DEF IInv, Placed, Matching, Online, Sound, Counts
<1>10. LengthTells'
  BY <1>1, <1>2 DEF IInv, LengthTells, Known, Tracked, Sized, Ahead, Has, Counts
<1>11. Halfway'
  BY <1>1, <1>2 DEF Halfway
<1> QED
  BY <1>3, <1>4, <1>5, <1>6, <1>7, <1>8, <1>9, <1>10, <1>11 DEF Settled

\* Mounting and unmounting: what is planned is no longer known to be supported.
LEMMA MountingKeeps ==
    ASSUME IInv, Mount \/ Unmount \/ MountOutside
    PROVE  IInv'
<1>1. /\ Idle /\ UNCHANGED <<found, device, content, queue, op, run, outcome, formatted, stuck>>
      /\ "temp" \in mounts' => "temp" \in mounts
      /\ steady' = (steady /\ queue = << >>)
  BY DEF Mount, Unmount, MountOutside
<1>2. /\ object'.type = object.type /\ object'.length = object.length
      /\ object' \in [type : Types, length : Nat, label : Labels, mounted : BOOLEAN]
  BY DEF IInv, TypesOK, Mount, Unmount, MountOutside
<1>3. UNCHANGED <<jobs, job, todo, value>>
  BY <1>1 DEF run
<1>4. Settled'
  BY <1>1, <1>2, SettledKept
<1>5. TypesOK'
  BY <1>1, <1>2, <1>3 DEF IInv, TypesOK
<1>6. Queued'
  BY <1>1, NoneLeft DEF IInv, Queued, Constructed
<1>7. Recorded'
  BY <1>1, <1>2 DEF IInv, Recorded, Records
<1>8. Progress'
  <2>1. outcome \notin {"running", "failing"}
    BY <1>1 DEF Idle
  <2> QED
    BY <1>1, <1>2, <1>3, <2>1 DEF IInv, Progress, Idle, Within, Brackets, Exports
<1> QED
  BY <1>4, <1>5, <1>6, <1>7, <1>8 DEF IInv, Settled
\* An operation that is pushed.
LEMMA PushKeeps ==
    ASSUME IInv, Push
    PROVE  IInv'
<1> USE FileSystemJobsAssumption
<1>1. /\ Idle /\ outcome # "error" /\ content.type # "none"
      /\ \A i \in DOMAIN queue : queue[i].name \notin {"delete", "copy"}
      /\ UNCHANGED <<found, device, content, mounts, object, op, jobs, job, todo, value, outcome,
                     formatted, steady, stuck>>
  BY DEF Push, run, disk
<1>2. PICK name \in Names, type \in OtherTypes \cup {ShownType}, length \in Lengths,
           permissions \in BOOLEAN :
         /\ Guard(name, type, length)
         /\ name \notin {"shrink", "grow"} => length = ShownDevice
         /\ queue' = Append(queue, [name |-> name, type |-> type, length |-> length,
                                    permissions |-> permissions, before |-> ShownDevice,
                                    clone |-> Clone(name), jobs |-> JobsOf(name)])
  BY DEF Push
<1> DEFINE o == [name |-> name, type |-> type, length |-> length, permissions |-> permissions,
                 before |-> ShownDevice, clone |-> Clone(name), jobs |-> JobsOf(name)]
<1>3. /\ queue \in Seq(Operations) /\ IsSeq(queue) /\ device \in Nat /\ object.type \in Types
      /\ object.length \in Nat /\ object.mounted \in BOOLEAN
      /\ \A i \in DOMAIN queue : queue[i] \in Operations
  <2>1. queue \in Seq(Operations)
    BY DEF IInv, TypesOK
  <2>2. \A i \in DOMAIN queue : queue[i] \in Operations
    BY <2>1
  <2>3. IsSeq(queue)
    BY <2>1 DEF IsSeq
  <2> QED
    BY <2>1, <2>2, <2>3 DEF IInv, TypesOK
<1>4. /\ Records(queue, "type", {"create", "copy"}, object.type)
      /\ Records(queue, "length", {"shrink", "grow"}, device)
  BY <1>1 DEF IInv, Recorded, Idle
<1>5. /\ ShownType = (IF queue = << >> THEN object.type ELSE queue[Len(queue)].type)
      /\ ShownDevice = (IF queue = << >> THEN device ELSE queue[Len(queue)].length)
      /\ ShownLength = object.length \/ \E i \in DOMAIN queue : ShownLength = queue[i].clone
  BY <1>3, <1>4, ShownIs DEF ShownType, ShownDevice, ShownLength
<1>6. Len(queue) \in Nat /\ DOMAIN queue = 1 .. Len(queue) /\ (queue # << >> => Len(queue) >= 1)
  BY <1>3, Domains
<1>7. ShownType \in Types /\ ShownDevice \in Nat /\ ShownLength \in Nat
  <2>1. queue # << >> => Len(queue) \in DOMAIN queue
    BY <1>6
  <2> QED
    BY <1>3, <1>5, <2>1 DEF Operations
<1>8. JobsOf(name) \in Seq(JobNames)
  BY JobsOfLists
<1>9. type \in Types /\ length \in Nat /\ Clone(name) \in Nat
  BY <1>7 DEF Lengths, Clone
<1>10. o \in Operations
  BY <1>7, <1>8, <1>9 DEF Operations
<1>11. /\ queue' \in Seq(Operations) /\ Len(queue') = Len(queue) + 1
       /\ \A i \in 1 .. Len(queue) : queue'[i] = queue[i]
       /\ queue'[Len(queue) + 1] = o
  <2> HIDE DEF o
  <2>1. queue' = Append(queue, o)
    BY <1>2 DEF o
  <2> QED
    BY <1>3, <1>10, <2>1, AppendProperties
<1>12. IsSeq(queue') /\ DOMAIN queue' = 1 .. Len(queue) + 1
  <2>1. IsSeq(queue')
    BY <1>11 DEF IsSeq
  <2> QED
    BY <1>11, <2>1, Domains
<1>13. /\ o.name = name /\ o.type = type /\ o.length = length /\ o.jobs = JobsOf(name)
  OBVIOUS
<1>14. Constructed(o)
  <2>1. name = "copy" => length >= SourceLength
    BY <1>2, <1>7 DEF Guard, SourceLength
  <2> HIDE DEF o
  <2> QED
    BY <1>13, <2>1, JobsOfLists DEF Constructed
<1>15. Supported(o)
  <2>1. name \in {"shrink", "grow", "copy"} => name = "copy" \/ type = ShownType
    BY <1>2 DEF Guard
  <2>2. \A t, x : CanOnline(t, x) => Can(t, x)
    BY DEF CanOnline, Can, SupportOnline
  <2>3. name = "shrink" => Offered("Shrink")
    BY <1>2 DEF Guard
  <2>4. name = "grow" => Offered("Grow")
    BY <1>2 DEF Guard
  <2>5. name = "copy" => ~object.mounted
    BY <1>2 DEF Guard
  <2> HIDE DEF o
  <2> QED
    BY <1>13, <2>1, <2>2, <2>3, <2>4, <2>5 DEF Supported, Offered
<1>16. /\ o.name \in {"create", "copy"} \/ o.type = ShownType
       /\ o.name \in {"shrink", "grow"} \/ o.length = ShownDevice
  <2>1. name \in {"create", "copy"} \/ type = ShownType
    BY <1>2 DEF Guard, Names
  <2> QED
    BY <1>2, <1>13, <2>1
<1> HIDE DEF o
<1>17. TypesOK'
  BY <1>1, <1>11 DEF IInv, TypesOK
<1>18. Queued'
  <2>1. ASSUME NEW i \in DOMAIN queue'
        PROVE  /\ Constructed(queue'[i]) /\ (steady => Supported(queue'[i]))
               /\ queue'[i].name \in {"delete", "copy"} => i = Len(queue')
    <3>1. CASE i \in DOMAIN queue
      BY <1>1, <1>6, <1>11, <3>1 DEF IInv, Queued
    <3>2. CASE i = Len(queue) + 1
      BY <1>11, <1>14, <1>15, <3>2
    <3> QED
      BY <1>6, <1>12, <3>1, <3>2
  <2> QED
    BY <1>1, <2>1 DEF Queued, Supported, Can, CanOnline
<1>19. Recorded'
  <2>1. \A i \in DOMAIN queue : queue'[i] = queue[i]
    BY <1>6, <1>11
  <2>2. \/ queue'[Len(queue')].name \in {"create", "copy"}
        \/ queue'[Len(queue')].type = IF queue = << >> THEN object.type ELSE queue[Len(queue)].type
    BY <1>5, <1>11, <1>16
  <2>3. \/ queue'[Len(queue')].name \in {"shrink", "grow"}
        \/ queue'[Len(queue')].length = IF queue = << >> THEN device ELSE queue[Len(queue)].length
    BY <1>5, <1>11, <1>16
  <2>4. Records(queue', "type", {"create", "copy"}, object.type)
    BY <1>3, <1>4, <1>11, <1>12, <2>1, <2>2, RecordsPushed
  <2>5. Records(queue', "length", {"shrink", "grow"}, device)
    BY <1>3, <1>4, <1>11, <1>12, <2>1, <2>3, RecordsPushed
  <2> QED
    BY <1>1, <2>4, <2>5 DEF Recorded, Idle, Records
<1>20. Progress'
  <2>1. op.name # "delete"
    <3>1. ~Ahead("delete", {"wipe"}) /\ Sound
      BY <1>1, NothingAhead DEF IInv, Sound, Idle, TypesOK
    <3>2. op.name = "delete" => content = Nothing
      BY <3>1 DEF IInv, Deleting
    <3>3. Nothing.type = "none"
      BY DEF Nothing
    <3> QED
      BY <1>1, <3>2, <3>3
  <2> QED
    BY <1>1, <2>1 DEF IInv, Progress, Idle, Within, Brackets, Exports, Supported, Can, CanOnline
<1>21. Settled'
  BY <1>1, SettledKept DEF run
<1> QED
  BY <1>17, <1>18, <1>19, <1>20, <1>21 DEF IInv, Settled

\* An operation whose execution begins.
LEMMA ExecuteKeeps ==
    ASSUME IInv, Execute
    PROVE  IInv'
<1> DEFINE o == Head(queue)
<1>1. /\ Idle /\ queue # << >> /\ op' = o /\ queue' = Tail(queue) /\ jobs' = o.jobs /\ outcome' = "running"
      /\ object' = CASE o.name = "create" -> [object EXCEPT !.type = o.type, !.length = o.clone]
                     [] o.name = "copy" -> [object EXCEPT !.type = o.type, !.length = o.clone, !.label = "source"]
                     [] OTHER -> object
      /\ formatted' = (o.name # "copy" /\ (formatted \/ o.name = "create"))
      /\ UNCHANGED <<found, device, content, mounts, job, todo, value, steady, stuck>>
  BY DEF Execute, disk
<1>2. /\ queue \in Seq(Operations) /\ IsSeq(queue)
      /\ object \in [type : Types, length : Nat, label : Labels, mounted : BOOLEAN]
  BY DEF IInv, TypesOK, IsSeq
<1>3. /\ queue' \in Seq(Operations) /\ o \in Operations /\ IsSeq(queue') /\ o = queue[1]
      /\ DOMAIN queue = 1 .. Len(queue) /\ Len(queue) \in Nat /\ Len(queue) >= 1
      /\ Len(queue') = Len(queue) - 1
  <2> DEFINE t == Tail(queue)
  <2>1. /\ IsSeq(t) /\ Len(queue) \in Nat /\ Len(queue) >= 1 /\ Len(t) = Len(queue) - 1
        /\ Head(queue) = queue[1] /\ DOMAIN queue = 1 .. Len(queue)
    BY <1>1, <1>2, Rest
  <2>2. t \in Seq(Operations) /\ o \in Operations
    BY <1>1, <1>2, HeadTailProperties
  <2> QED
    BY <1>1, <2>1, <2>2
<1>4. /\ DOMAIN queue' = 1 .. Len(queue) - 1
      /\ \A i \in DOMAIN queue' : i \in Nat /\ i + 1 \in DOMAIN queue /\ queue'[i] = queue[i + 1]
  <2> DEFINE t == Tail(queue)
  <2>1. /\ DOMAIN t = 1 .. Len(queue) - 1
        /\ \A i \in DOMAIN t : i \in Nat /\ i + 1 \in DOMAIN queue /\ t[i] = queue[i + 1]
    BY <1>1, <1>2, Rest
  <2> QED
    BY <1>1, <2>1
<1> HIDE DEF o
<1>5. /\ Constructed(o) /\ (steady => Supported(o)) /\ (o.name \in {"delete", "copy"} => queue' = << >>)
      /\ outcome # "error"
  <2>1. 1 \in DOMAIN queue
    BY <1>3
  <2>2. o.name \in {"delete", "copy"} => Len(queue) = 1
    BY <1>3, <2>1 DEF IInv, Queued
  <2>3. Len(queue) = 1 => queue' = << >>
    BY <1>3, Domains
  <2> QED
    BY <1>1, <1>3, <2>1, <2>2, <2>3 DEF IInv, Queued
<1>6. /\ Records(queue', "type", {"create", "copy"}, o.type)
      /\ Records(queue', "length", {"shrink", "grow"}, o.length)
      /\ o.name \notin {"create", "copy"} => o.type = object.type
      /\ o.name \notin {"shrink", "grow"} => o.length = device
  <2>1. /\ Records(queue, "type", {"create", "copy"}, object.type)
        /\ Records(queue, "length", {"shrink", "grow"}, device)
    BY <1>1 DEF IInv, Recorded, Idle
  <2> DEFINE t == Tail(queue)
  <2>5. IsSeq(queue) /\ queue # << >>
    BY <1>1, <1>2
  <2>2. /\ Records(t, "type", {"create", "copy"}, queue[1].type)
        /\ queue[1].name \notin {"create", "copy"} => queue[1].type = object.type
    BY <2>1, <2>5, RecordsTaken
  <2>3. /\ Records(t, "length", {"shrink", "grow"}, queue[1].length)
        /\ queue[1].name \notin {"shrink", "grow"} => queue[1].length = device
    BY <2>1, <2>5, RecordsTaken
  <2>4. queue' = t
    BY <1>1
  <2> HIDE DEF t
  <2> QED
    BY <1>3, <2>2, <2>3, <2>4
<1>7. /\ object' \in [type : Types, length : Nat, label : Labels, mounted : BOOLEAN]
      /\ object'.type = o.type /\ object'.mounted = object.mounted
      /\ o.name \notin {"create", "copy"} => object' = object
  <2>1. o.type \in Types /\ o.clone \in Nat
    BY <1>3 DEF Operations
  <2>2. CASE o.name = "create"
    <3>1. object' = [object EXCEPT !.type = o.type, !.length = o.clone]
      BY <1>1, <2>2
    <3> QED
      BY <1>2, <2>1, <2>2, <3>1
  <2>3. CASE o.name = "copy"
    <3>1. object' = [object EXCEPT !.type = o.type, !.length = o.clone, !.label = "source"]
      BY <1>1, <2>3
    <3> QED
      BY <1>2, <2>1, <2>3, <3>1 DEF Labels
  <2>4. CASE o.name \notin {"create", "copy"}
    <3>1. object' = object
      BY <1>1, <2>4
    <3> QED
      BY <1>2, <1>6, <2>4, <3>1
  <2> QED
    BY <2>2, <2>3, <2>4
<1>8. /\ job = "idle" /\ jobs = << >> /\ todo = << >>
      /\ \A name, effects : name # "idle" => ~Ahead(name, effects)
  BY <1>1, NothingAhead DEF IInv
<1>9. \A name, effects : Has(o.jobs, name) => Ahead(name, effects)'
  BY <1>1 DEF Ahead, Has
<1>10. job' = "idle" /\ todo' = << >> /\ value' = value /\ jobs' = o.jobs /\ op' = o
  BY <1>1, <1>8
<1>11. TypesOK'
  <2>1. o.jobs \in Seq(JobNames)
    BY <1>3 DEF Operations
  <2> QED
    BY <1>1, <1>3, <1>7, <2>1 DEF IInv, TypesOK
<1>12. Queued'
  <2>1. ASSUME NEW i \in DOMAIN queue'
        PROVE  /\ Constructed(queue'[i]) /\ (steady => Supported(queue'[i]))
               /\ queue'[i].name \in {"delete", "copy"} => i = Len(queue')
    BY <1>3, <1>4 DEF IInv, Queued
  <2> QED
    BY <1>1, <1>7, <2>1 DEF Queued, Supported, Can, CanOnline
<1>13. Recorded'
  BY <1>1, <1>6, <1>7, <1>10 DEF Recorded, Records
<1>14. Progress'
  <2>1. \A i \in DOMAIN o.jobs : o.jobs[i] \in JobsIn(o.name)
    BY <1>5 DEF Constructed
  <2>2. (Within(todo, Effects(job)) /\ Brackets(todo) /\ Exports(todo))'
    BY <1>10, EmptyStarts
  <2>3. o.name = "copy" => o.length >= SourceLength
    BY <1>5 DEF Constructed
  <2>4. steady' => Supported(op)'
    BY <1>1, <1>5, <1>7 DEF Supported, Can, CanOnline
  <2> QED
    BY <1>1, <1>5, <1>7, <1>10, <2>1, <2>2, <2>3, <2>4 DEF Progress, Idle
<1>15. (Bracketed /\ WipesUnmounted)'
  BY <1>1, <1>8, <1>10, NoneLeft DEF IInv, Bracketed, WipesUnmounted
<1>16. Resizing'
  BY <1>5, <1>9, <1>10 DEF Resizing, Constructed
<1>17. Labelling'
  BY <1>5, <1>9, <1>10 DEF Labelling, Constructed
<1>18. Deleting'
  BY <1>5, <1>9, <1>10 DEF Deleting, Constructed
<1>19. Creating'
  BY <1>5, <1>9, <1>10, NoneLeft DEF Creating, Constructed
<1>20. Copying'
  BY <1>5, <1>9, <1>10, NoneLeft DEF Copying, Constructed
<1>21. Placed'
  BY <1>1, <1>6, <1>10 DEF Placed
<1>22. Matching'
  <2>1. Sound /\ outcome # "running"
    BY <1>1, <1>5 DEF IInv, TypesOK, Idle, Sound
  <2>2. op.name # "delete"
    BY <1>1 DEF IInv, Progress
  <2>3. CASE o.name \in {"create", "copy"}
    BY <1>1, <1>10, <2>3 DEF Matching
  <2>4. CASE o.name \notin {"create", "copy"}
    BY <1>1, <1>7, <2>1, <2>2, <2>4 DEF IInv, Matching
  <2> QED
    BY <2>3, <2>4
<1>23. Online'
  <2>1. Sound
    BY <1>1, <1>5 DEF IInv, TypesOK, Idle, Sound
  <2> QED
    BY <1>1, <1>8, <2>1 DEF IInv, Online
<1>24. LengthTells'
  <2>1. CASE o.name = "create"
    BY <1>1, <2>1 DEF LengthTells, Known, Tracked
  <2>2. CASE o.name = "copy"
    BY <1>5, <1>9, <1>10, <2>2 DEF LengthTells, Constructed
  <2>3. CASE o.name \notin {"create", "copy"}
    <3>1. object' = object /\ content' = content /\ steady' = steady /\ (formatted' <=> formatted)
      BY <1>1, <1>7, <2>3
    <3>2. ~(op.name = "copy" /\ (outcome = "error" \/ Ahead("copy", {"copy", "fillCopy"})))
      BY <1>5, <1>8
    <3> QED
      BY <1>8, <3>1, <3>2 DEF IInv, LengthTells, Known, Tracked, Sized
  <2> QED
    BY <2>1, <2>2, <2>3
<1>25. Halfway'
  BY <1>10 DEF Halfway
<1> QED
  BY <1>11, <1>12, <1>13, <1>14, <1>15, <1>16, <1>17, <1>18, <1>19, <1>20, <1>21, <1>22, <1>23, <1>24, <1>25 DEF IInv
--------------------------------------------------------------------------------
(* A job that starts.                                                      *)

\* What holds of all jobs holds of the next one and of those that are left.
LEMMA RestAll ==
    ASSUME NEW S, NEW s \in Seq(S), s # << >>, NEW X, \A i \in DOMAIN s : s[i] \in X
    PROVE  Head(s) \in X /\ \A i \in DOMAIN Tail(s) : Tail(s)[i] \in X
<1> DEFINE t == Tail(s)
<1>1. IsSeq(s)
  BY DEF IsSeq
<1>2. /\ DOMAIN s = 1 .. Len(s) /\ Len(s) \in Nat /\ Len(s) >= 1 /\ Head(s) = s[1]
      /\ \A i \in DOMAIN t : i \in Nat /\ i + 1 \in DOMAIN s /\ t[i] = s[i + 1]
  BY <1>1, Rest
<1> HIDE DEF t
<1>3. Head(s) \in X /\ \A i \in DOMAIN t : t[i] \in X
  BY <1>2
<1> QED
  BY <1>3 DEF t

\* The jobs that an operation has.
LEMMA JobsAre ==
    ASSUME NEW name \in Names, NEW j \in JobsIn(name)
    PROVE  /\ j = "resize" => name \in {"shrink", "grow"}
           /\ j = "geometry" => name \in {"shrink", "grow"}
           /\ j = "maximize" => name = "copy"
           /\ j = "label" => name = "label"
           /\ j = "delete" => name \in {"delete", "create"}
           /\ j = "create" => name = "create"
           /\ j = "copy" => name = "copy"
           /\ j = "permissions" => name = "create"
           /\ j # "restore"
BY DEF Names, JobsIn

\* Which job has which effects.
LEMMA EffectsTell ==
    ASSUME NEW j \in JobNames
    PROVE  /\ "wipe" \in Effects(j) => j = "delete"
           /\ "format" \in Effects(j) \/ "formatLabel" \in Effects(j) \/ "tag" \in Effects(j) => j = "create"
           /\ "copy" \in Effects(j) \/ "fillCopy" \in Effects(j) => j = "copy"
           /\ "resize" \in Effects(j) \/ "fill" \in Effects(j) => j \in {"resize", "maximize"}
           /\ "geometry" \in Effects(j) => j = "geometry"
           /\ "geometryBack" \in Effects(j) => j = "restore"
           /\ "label" \in Effects(j) \/ "export" \in Effects(j) \/ "import" \in Effects(j) => j = "label"
           /\ "mount" \in Effects(j) \/ "umount" \in Effects(j) => j \in {"resize", "maximize", "permissions"}
BY EffectsOf DEF JobNames

\* What a class can shrink is not one of those that fill the device, except for swap.
LEMMA ShrinksNoFiller ==
    ASSUME NEW t, t \in Types, Can(t, "Shrink"), t # "linuxswap"
    PROVE  t \notin Fillers
<1>1. Covers(found, t)
  BY ClassesSound DEF ClassSound
<1> QED
  BY <1>1 DEF Covers, Can, Support

\* The operation that is being executed.
LEMMA Executed ==
    ASSUME IInv, ~Idle
    PROVE  /\ op \in Operations /\ op.name \in Names /\ op.type = object.type /\ object.type \in Types
           /\ jobs \in Seq(JobNames) /\ IsSeq(todo) /\ job \in JobNames \cup {"idle"}
           /\ op.length \in Nat /\ device \in Nat
           /\ Sound => outcome = "running"
<1>1. op \in Operations
  BY DEF IInv, TypesOK, Idle
<1>2. op.name \in Names /\ op.name # "none" /\ op.length \in Nat
  BY <1>1 DEF Operations, Names
<1> QED
  BY <1>1, <1>2 DEF IInv, TypesOK, Progress, Idle, Sound

LEMMA StartJobKeeps ==
    ASSUME IInv, StartJob
    PROVE  IInv'
<1> DEFINE j == Head(jobs)
           t == Tail(jobs)
           s == JobSteps(j)
<1>1. /\ outcome \in {"running", "failing"} /\ job = "idle" /\ jobs # << >>
      /\ job' = j /\ jobs' = t /\ todo' = s /\ value' = TRUE
      /\ UNCHANGED <<found, device, content, mounts, object, queue, op, outcome, formatted, steady, stuck>>
  BY DEF StartJob, disk
<1>2. /\ op \in Operations /\ op.name \in Names /\ op.type = object.type /\ object.type \in Types
      /\ jobs \in Seq(JobNames) /\ op.length \in Nat /\ device \in Nat
      /\ ~Idle /\ (Sound => outcome = "running")
  BY <1>1, Executed DEF Idle
<1>3. /\ t \in Seq(JobNames) /\ j \in JobNames
      /\ \A x : Has(jobs, x) <=> j = x \/ Has(t, x)
      /\ \A a, b : Ordered(jobs, a, b) => Ordered(t, a, b) /\ (j = b => ~Has(t, a))
  BY <1>1, <1>2, RestJobs
<1>4. /\ outcome = "running" => j \in JobsIn(op.name) /\ \A i \in DOMAIN t : t[i] \in JobsIn(op.name)
      /\ outcome = "failing" => j \in {"restore"} /\ \A i \in DOMAIN t : t[i] \in {"restore"}
  <2> DEFINE X == JobsIn(op.name)
             R == {"restore"}
  <2>1. outcome = "running" => \A i \in DOMAIN jobs : jobs[i] \in X
    BY DEF IInv, Progress
  <2>2. outcome = "failing" => \A i \in DOMAIN jobs : jobs[i] \in R
    BY DEF IInv, Progress
  <2> HIDE DEF X, R
  <2>3. outcome = "running" => j \in X /\ \A i \in DOMAIN t : t[i] \in X
    BY <1>1, <1>2, <2>1, RestAll
  <2>4. outcome = "failing" => j \in R /\ \A i \in DOMAIN t : t[i] \in R
    BY <1>1, <1>2, <2>2, RestAll
  <2> QED
    BY <2>3, <2>4 DEF X, R
<1> HIDE DEF j, t
<1>5. IsSeq(s) /\ Within(s, Effects(j)) /\ Brackets(s) /\ Exports(s)
  BY <1>2, <1>3, JobStarts
<1> HIDE DEF s
<1>6. /\ outcome = "running" => j \in JobsIn(op.name) /\ \A i \in DOMAIN t : t[i] \in JobsIn(op.name)
      /\ outcome = "failing" => j = "restore" /\ \A i \in DOMAIN t : t[i] = "restore"
  BY <1>4
<1>7. todo = << >>
  BY <1>1 DEF IInv, Progress
<1>8. \A E : ~Counts(todo, E)
  BY <1>7, NoneLeft
<1>9. \A name, E : /\ name # "idle" /\ Ahead(name, E) => name = j \/ Ahead(name, E)'
                   /\ name = j /\ Counts(s, E \cup {"refuse"}) => Ahead(name, E)'
  BY <1>1, <1>3 DEF Ahead, Has, Counts
<1>10. j \in {"resize", "maximize"} /\ Known =>
          /\ object.length = content.length
          /\ object.mounted => CanOnline(object.type, "Shrink") \/ CanOnline(object.type, "Grow")
          /\ object.type # "freebsdswap"
  <2> SUFFICES ASSUME j \in {"resize", "maximize"}, Known
               PROVE  /\ object.length = content.length
                      /\ object.mounted => CanOnline(object.type, "Shrink") \/ CanOnline(object.type, "Grow")
                      /\ object.type # "freebsdswap"
    OBVIOUS
  <2>1. outcome = "running" /\ j \in JobsIn(op.name) /\ Sound
    BY <1>1, <1>6 DEF Sound
  <2>2. (j = "resize" /\ op.name \in {"shrink", "grow"}) \/ (j = "maximize" /\ op.name = "copy")
    BY <1>2, <2>1, JobsAre
  <2>3. steady /\ Supported(op)
    BY <2>1 DEF IInv, Progress, Known, Tracked
  <2>4. object.mounted => CanOnline(object.type, "Shrink") \/ CanOnline(object.type, "Grow")
    BY <1>2, <2>2, <2>3 DEF Supported
  <2>5. object.type # "freebsdswap"
    BY DEF Known, Tracked, Sized
  <2>6. j = "maximize" => ~Has(jobs, "copy")
    BY <1>3, <2>1, <2>2 DEF IInv, Copying
  <2>7. op.name = "copy" => ~Ahead("copy", {"copy", "fillCopy"})
    BY <1>1, <2>2, <2>6 DEF Ahead
  <2>8. object.length = content.length
    BY <1>1, <2>7 DEF IInv, LengthTells
  <2> QED
    BY <2>4, <2>5, <2>8
<1>11. /\ j = "resize" => s = ResizeSteps(op.length)
       /\ j = "maximize" => s = ResizeSteps(device)
  BY ResizeJobs DEF s
<1>12. j \in {"resize", "maximize"} =>
          /\ Changing(s) /\ \A i \in DOMAIN s : s[i].does = "fill" => object.type \in Fillers
          /\ \/ Counts(s, Changes)
             \/ s = << >> /\ (Known => content.length = IF j = "maximize" THEN device ELSE op.length)
  <2>1. ASSUME NEW length, s = ResizeSteps(length), j \in {"resize", "maximize"}
        PROVE  /\ Changing(s) /\ \A i \in DOMAIN s : s[i].does = "fill" => object.type \in Fillers
               /\ Counts(s, Changes) \/ (s = << >> /\ (Known => content.length = length))
    BY <1>2, <1>10, <2>1, ResizeStarts
  <2> QED
    BY <1>11, <2>1
<1>13. TypesOK'
  BY <1>1, <1>3, <1>5 DEF IInv, TypesOK
<1>14. (Queued /\ Recorded)'
  BY <1>1 DEF IInv, Queued, Recorded, Records, Constructed, Supported, Can, CanOnline
<1>15. Progress'
  <2>1. (Within(todo, Effects(job)) /\ Brackets(todo) /\ Exports(todo))'
    BY <1>1, <1>5 DEF Within, Brackets, Exports, Effects
  <2> QED
    BY <1>1, <1>3, <1>6, <2>1 DEF IInv, Progress, Idle, JobNames, Supported, Can, CanOnline
<1>16. Bracketed'
  BY <1>1, <1>7 DEF IInv, Bracketed
<1>17. WipesUnmounted'
  <2>1. ASSUME NEW i \in DOMAIN s, s[i].does = "wipe" PROVE "user" \notin mounts
    <3>1. j = "delete"
      BY <1>3, <1>5, <2>1, EffectsTell DEF Within
    <3> QED
      BY <1>2, <2>1, <3>1, DeleteStarts DEF s
  <2> QED
    BY <1>1, <2>1 DEF WipesUnmounted
<1>18. Resizing'
  <2> SUFFICES ASSUME op.name \in {"shrink", "grow"}, Sound
               PROVE  /\ device = op.length \/ Ahead("geometry", {"geometry"})'
                      /\ Tracked => content.length = op.length \/ Ahead("resize", {"resize", "fill"})'
                      /\ op.name = "grow" => /\ Ordered(t, "geometry", "resize")
                                             /\ j = "resize" => ~Has(t, "geometry")
    BY <1>1 DEF Resizing, Sound, Tracked, Sized, Ordered, Has
  <2>1. j = "geometry" => Counts(s, {"geometry"} \cup {"refuse"})
    BY GeometryStarts DEF s, Counts
  <2>2. device = op.length \/ Ahead("geometry", {"geometry"})'
    BY <1>9, <2>1 DEF IInv, Resizing
  <2>3. Tracked => content.type = object.type
    BY DEF IInv, Matching, Tracked
  <2>4. {"resize", "fill"} \cup {"refuse"} = Changes
    BY DEF Changes
  <2>5. ASSUME Tracked, j = "resize"
        PROVE  content.length = op.length \/ Ahead("resize", {"resize", "fill"})'
    BY <1>9, <1>12, <2>3, <2>4, <2>5 DEF Known
  <2>6. Tracked => content.length = op.length \/ Ahead("resize", {"resize", "fill"})'
    BY <1>9, <2>5 DEF IInv, Resizing
  <2> QED
    BY <1>3, <2>2, <2>6 DEF IInv, Resizing
<1>19. Labelling'
  <2> SUFFICES ASSUME op.name = "label", Sound
               PROVE  \/ ~Can(object.type, "SetLabel")
                      \/ content.type \in {"ntfs", "bcachefs"}
                      \/ content.label = "new"
                      \/ Ahead("label", {"label", "import"})'
    BY <1>1 DEF Labelling, Sound, Can
  <2>1. CASE j = "label"
    <3>1. \/ ~Can(object.type, "SetLabel") \/ object.type \in {"ntfs", "bcachefs"}
          \/ Counts(s, {"label", "import"} \cup {"refuse"})
      BY <1>2, <2>1, LabelStarts DEF s, Counts
    <3>2. object.type \in {"ntfs", "bcachefs"} => content.type = object.type
      BY DEF IInv, Matching, Unwritten
    <3> QED
      BY <1>9, <2>1, <3>1, <3>2
  <2>2. CASE j # "label"
    BY <1>9, <2>2 DEF IInv, Labelling
  <2> QED
    BY <2>1, <2>2
<1>20. j = "delete" => Counts(s, {"wipe"} \cup {"refuse"})
  BY <1>2, DeleteStarts DEF s, Counts
<1>21. Deleting'
  <2>1. op.name = "delete" /\ Sound => content = Nothing \/ Ahead("delete", {"wipe"})'
    BY <1>9, <1>20 DEF IInv, Deleting
  <2> QED
    BY <1>1, <2>1 DEF Deleting, Sound
<1>22. Creating'
  <2> SUFFICES ASSUME op.name = "create", Sound
               PROVE  /\ Has(t, "delete") \/ j = "delete" => Has(t, "create")
                      /\ Ordered(t, "delete", "create")
                      /\ IF object.type \in Unwritten
                         THEN /\ content = Nothing \/ Ahead("delete", {"wipe"})'
                              /\ \A i \in DOMAIN s : s[i].does \notin {"format", "formatLabel"}
                         ELSE \/ content.type = op.type /\ content.length = device
                              \/ Ahead("create", {"format", "formatLabel"})'
    BY <1>1 DEF Creating, Sound, Has, Ordered
  <2>1. Has(t, "delete") \/ j = "delete" => Has(t, "create")
    BY <1>3 DEF IInv, Creating
  <2>2. Ordered(t, "delete", "create")
    BY <1>3 DEF IInv, Creating
  <2>3. CASE object.type \in Unwritten
    <3>1. content = Nothing \/ Ahead("delete", {"wipe"})'
      BY <1>9, <1>20, <2>3 DEF IInv, Creating
    <3>2. CASE j = "create"
      BY <1>2, <2>1, <2>2, <2>3, <3>1, <3>2, CreateStarts DEF s
    <3>3. CASE j # "create"
      BY <1>3, <1>5, <2>1, <2>2, <2>3, <3>1, <3>3, EffectsTell DEF Within
    <3> QED
      BY <3>2, <3>3
  <2>4. CASE object.type \notin Unwritten
    <3>1. j = "create" => Counts(s, {"format", "formatLabel"} \cup {"refuse"})
      BY <1>2, <2>4, CreateStarts DEF s, Counts
    <3>2. \/ content.type = op.type /\ content.length = device
          \/ Ahead("create", {"format", "formatLabel"})'
      BY <1>9, <2>4, <3>1 DEF IInv, Creating
    <3> QED
      BY <2>1, <2>2, <2>4, <3>2
  <2> QED
    BY <2>3, <2>4
<1>23. j = "copy" => /\ Counts(s, {"copy", "fillCopy"} \cup {"refuse"})
                     /\ \A i \in DOMAIN s : s[i].does = "fillCopy" => object.type = "linuxswap"
  BY <1>2, CopyStarts DEF s, Counts
<1>24. Copying'
  <2> SUFFICES ASSUME op.name = "copy", Sound
               PROVE  /\ \/ content.type = op.type /\ content.length >= SourceLength
                         \/ Ahead("copy", {"copy", "fillCopy"})'
                      /\ Ordered(t, "copy", "maximize")
                      /\ j = "maximize" => ~Has(t, "copy")
                      /\ \A i \in DOMAIN s : s[i].does = "fillCopy" => op.type = "linuxswap"
    BY <1>1 DEF Copying, Sound, Has, Ordered
  <2>1. \/ content.type = op.type /\ content.length >= SourceLength
        \/ Ahead("copy", {"copy", "fillCopy"})'
    BY <1>9, <1>23 DEF IInv, Copying
  <2>2. ASSUME NEW i \in DOMAIN s, s[i].does = "fillCopy"
        PROVE  op.type = "linuxswap"
    BY <1>2, <1>3, <1>5, <1>23, <2>2, EffectsTell DEF Within
  <2> QED
    BY <1>3, <2>1, <2>2 DEF IInv, Copying
<1>25. Placed' /\ Matching'
  BY <1>1 DEF IInv, Placed, Matching, Sound
<1>26. Online'
  BY <1>1 DEF IInv, Online, Sound
<1>27. LengthTells'
  <2> SUFFICES ASSUME Known, j \notin {"resize", "maximize"}
               PROVE  \/ object.length = content.length
                      \/ op.name = "copy" /\ Ahead("copy", {"copy", "fillCopy"})'
    BY <1>1 DEF LengthTells, Known, Tracked, Sized
  <2> QED
    BY <1>1, <1>9, <1>23 DEF IInv, LengthTells
<1>28. Halfway'
  <2> SUFFICES ASSUME j \in {"resize", "maximize"}
               PROVE  /\ Changing(s)
                      /\ \A i \in DOMAIN s : s[i].does = "fill" /\ Known =>
                            device = IF j = "maximize" THEN device ELSE op.length
                      /\ IF ~Counts(s, Changes)
                         THEN /\ \A i \in DOMAIN s : s[i].does = "umount" /\ s[i].lax
                              /\ Known => content.length = IF j = "maximize" THEN device ELSE op.length
                         ELSE Known => content.length = object.length
    BY <1>1 DEF Halfway, Known, Tracked, Sized, Target, Changing, Counts
  <2>1. ASSUME NEW i \in DOMAIN s, s[i].does = "fill", Known, j = "resize"
        PROVE  device = op.length
    <3>1. outcome = "running" /\ Sound /\ op.name \in {"shrink", "grow"}
      BY <1>1, <1>2, <1>6, <2>1, JobsAre DEF Sound
    <3>2. CASE op.name = "grow"
      BY <1>3, <1>1, <2>1, <3>1, <3>2 DEF IInv, Resizing, Ahead
    <3>3. CASE op.name = "shrink"
      <4>1. Can(object.type, "Shrink") /\ object.type # "linuxswap"
        BY <1>2, <2>1, <3>1, <3>3 DEF IInv, Progress, Supported, Known, Tracked, Sized
      <4>2. object.type \in Fillers
        BY <1>12, <2>1
      <4> QED
        BY <1>2, <4>1, <4>2, ShrinksNoFiller
    <3> QED
      BY <3>1, <3>2, <3>3
  <2>2. s = << >> => \A i \in DOMAIN s : FALSE
    BY NoneLeft
  <2> QED
    BY <1>10, <1>12, <2>1, <2>2
<1> QED
  BY <1>13, <1>14, <1>15, <1>16, <1>17, <1>18, <1>19, <1>21, <1>22, <1>24, <1>25, <1>26, <1>27, <1>28 DEF IInv
--------------------------------------------------------------------------------
(* A command that fails.                                                   *)

\* While there are commands, a job runs.
LEMMA Running ==
    ASSUME IInv, todo # << >>
    PROVE  /\ ~Idle /\ job \in JobNames /\ IsSeq(todo) /\ Step = todo[1]
           /\ 1 \in DOMAIN todo /\ Len(todo) \in DOMAIN todo
           /\ \A i \in DOMAIN todo : todo[i].does \in Effects(job)
           /\ Sound => outcome = "running" /\ job \in JobsIn(op.name)
<1>1. job # "idle" /\ ~Idle
  BY DEF IInv, Progress
<1>2. IsSeq(todo) /\ job \in JobNames
  BY <1>1, Executed
<1>3. Step = todo[1]
  BY <1>2, Tails DEF Step
<1>4. 1 \in DOMAIN todo /\ Len(todo) \in DOMAIN todo
  BY <1>2, Domains
<1>5. Sound => outcome = "running" /\ job \in JobsIn(op.name)
  BY <1>1, Executed DEF IInv, Progress
<1> QED
  BY <1>1, <1>2, <1>3, <1>4, <1>5 DEF IInv, Progress, Within

\* What is left of the commands after a failure, and that every job that is ahead stays ahead.
LEMMA FailureLeaves ==
    ASSUME IInv, CommandFails \/ CommandDoesNotRun
    PROVE  /\ IsSeq(todo') /\ \A i \in DOMAIN todo' : \E k \in DOMAIN todo : todo'[i] = todo[k]
           /\ Brackets(todo') /\ Exports(todo')
           /\ \A E : Counts(todo, E) => value' = FALSE \/ Counts(todo', E)
           /\ value' => value
           /\ value' \in BOOLEAN
           /\ "temp" \in mounts /\ ~stuck' =>
                 todo' # << >> /\ todo'[Len(todo')].does = "umount" /\ todo'[1].does # "mount"
           /\ job \in {"resize", "maximize"} => Halfway'
<1> DEFINE t == Tail(todo)
           last == todo[Len(todo)]
           one == <<last>>
<1>1. /\ todo # << >>
      /\ UNCHANGED <<found, device, content, mounts, object, queue, op, jobs, job, outcome, formatted, steady>>
      /\ stuck => stuck'
  <2>1. CASE CommandFails
    BY <2>1 DEF CommandFails, disk
  <2>2. CASE CommandDoesNotRun
    BY <2>2 DEF CommandDoesNotRun, disk
  <2> QED
    BY <2>1, <2>2
<1>2. /\ job \in JobNames /\ IsSeq(todo) /\ Step = todo[1] /\ 1 \in DOMAIN todo /\ Len(todo) \in DOMAIN todo
      /\ \A i \in DOMAIN todo : todo[i].does \in Effects(job)
  BY <1>1, Running
<1>3. Brackets(todo) /\ Exports(todo) /\ Bracketed /\ Halfway /\ value \in BOOLEAN
  BY DEF IInv, Progress, TypesOK
<1>4. \/ /\ todo[1].lax /\ todo' = t /\ value' = value
         /\ "temp" \in mounts /\ todo[1].does = "umount" => stuck'
      \/ /\ ~todo[1].lax /\ value' = FALSE
         /\ todo' = IF "temp" \in mounts /\ last.does = "umount" /\ todo[1].does # "umount" THEN one ELSE << >>
         /\ "temp" \in mounts /\ todo[1].does = "umount" => stuck'
      \/ todo[1].does \in {"mount", "label"} /\ todo' = << >> /\ value' = FALSE /\ stuck' = stuck
  BY <1>2 DEF CommandFails, CommandDoesNotRun
<1>5. CASE todo[1].lax /\ todo' = t /\ value' = value /\ ("temp" \in mounts /\ todo[1].does = "umount" => stuck')
  <2>1. IsSeq(t) /\ Len(todo) \in Nat /\ Len(t) = Len(todo) - 1
    BY <1>1, <1>2, Rest
  <2>13. /\ DOMAIN t = 1 .. Len(todo) - 1
         /\ \A i \in DOMAIN t : i \in Nat /\ i + 1 \in DOMAIN todo /\ t[i] = todo[i + 1]
    BY <1>1, <1>2, Rest
  <2>2. /\ Brackets(t) /\ \A i \in DOMAIN t : t[i].does # "mount"
        /\ t # << >> => t[Len(t)] = todo[Len(todo)]
    BY <1>1, <1>2, <1>3, RestBrackets
  <2>3. Exports(t)
    BY <1>1, <1>2, <1>3, RestExports
  <2>4. \A E : Counts(todo, E) <=> Counts(t, E)
    BY <1>1, <1>2, <1>5, RestCounts
  <2>5. t = << >> => Len(todo) = 1
    <3> HIDE DEF t
    <3>1. t = << >> => Len(t) = 0
      BY Lists
    <3> QED
      BY <2>1, <3>1
  <2>6. t # << >> => 1 \in DOMAIN t
    BY <2>1, Domains
  <2>7. job \in {"resize", "maximize"} => Changing(t)
    BY <1>1, <1>2, <1>3, RestChanging DEF Halfway
  <2>8. "temp" \in mounts /\ ~stuck' => t # << >> /\ t[Len(t)].does = "umount" /\ t[1].does # "mount"
    BY <1>1, <1>3, <1>5, <2>2, <2>5, <2>6 DEF Bracketed
  <2> HIDE DEF t
  <2>9. todo' = t /\ value' = value
    BY <1>5
  <2>10. \A i \in DOMAIN t : \E k \in DOMAIN todo : t[i] = todo[k]
    BY <2>13
  <2>11. job \in {"resize", "maximize"} => Halfway'
    <3> SUFFICES ASSUME job \in {"resize", "maximize"}
                 PROVE  /\ \A i \in DOMAIN t : t[i].does = "fill" /\ Known => device = Target
                        /\ IF value /\ ~Counts(t, Changes)
                           THEN /\ \A i \in DOMAIN t : t[i].does = "umount" /\ t[i].lax
                                /\ Known => content.length = Target
                           ELSE /\ Known => content.length = object.length
                                /\ ~value => \A i \in DOMAIN t : t[i].does = "umount"
      BY <1>1, <2>7, <2>9 DEF Halfway, Known, Tracked, Sized, Target, Within
    <3> QED
      BY <1>3, <2>4, <2>10 DEF Halfway, Within
  <2> QED
    BY <1>3, <2>1, <2>2, <2>3, <2>4, <2>8, <2>9, <2>10, <2>11
<1>6. ASSUME value' = FALSE, todo[1].lax => todo[1].does \in {"mount", "label"},
             todo' = << >> \/ (last.does = "umount" /\ todo' = one)
      PROVE  /\ IsSeq(todo') /\ \A i \in DOMAIN todo' : \E k \in DOMAIN todo : todo'[i] = todo[k]
             /\ Brackets(todo') /\ Exports(todo')
             /\ job \in {"resize", "maximize"} => Halfway'
  <2>1. /\ IsSeq(todo') /\ Brackets(todo') /\ Exports(todo') /\ Changing(todo') /\ Within(todo', {"umount"})
        /\ \A i \in DOMAIN todo' : todo'[i] = last
    <3>1. CASE todo' = << >>
      <4> DEFINE n == << >>
      <4>1. /\ IsSeq(n) /\ Brackets(n) /\ Exports(n) /\ Changing(n) /\ Within(n, {"umount"})
            /\ \A i \in DOMAIN n : n[i] = last
        BY NoneLeft
      <4>2. todo' = n
        BY <3>1
      <4> QED
        BY <4>1, <4>2
    <3>2. CASE last.does = "umount" /\ todo' = one
      <4> HIDE DEF last
      <4>1. /\ IsSeq(one) /\ Brackets(one) /\ Exports(one) /\ Changing(one) /\ Within(one, {"umount"})
            /\ one[1] = last /\ DOMAIN one = 1 .. 1
        BY <3>2, OneLeft
      <4>2. \A i \in DOMAIN one : one[i] = last
        BY <4>1
      <4> HIDE DEF one
      <4> QED
        BY <3>2, <4>1, <4>2
    <3> QED
      BY <1>6, <3>1, <3>2
  <2>2. \A i \in DOMAIN todo' : \E k \in DOMAIN todo : todo'[i] = todo[k]
    BY <1>2, <2>1
  <2>3. ASSUME job \in {"resize", "maximize"} PROVE Halfway'
    <3>1. ~(value /\ ~Counts(todo, Changes))
      BY <1>2, <1>3, <1>6, <2>3 DEF Halfway
    <3>2. /\ \A i \in DOMAIN todo : todo[i].does = "fill" /\ Known => device = Target
          /\ Known => content.length = object.length
      BY <1>3, <2>3, <3>1 DEF Halfway
    <3>3. \A i \in DOMAIN todo' : todo'[i].does = "fill" /\ Known => device = Target
      BY <2>1 DEF Within
    <3> QED
      BY <1>1, <1>6, <2>1, <3>2, <3>3 DEF Halfway, Known, Tracked, Sized, Target
  <2> QED
    BY <2>1, <2>2, <2>3
<1>7. CASE /\ ~todo[1].lax /\ value' = FALSE
           /\ todo' = IF "temp" \in mounts /\ last.does = "umount" /\ todo[1].does # "umount" THEN one ELSE << >>
           /\ "temp" \in mounts /\ todo[1].does = "umount" => stuck'
  <2>1. todo' = << >> \/ (last.does = "umount" /\ todo' = one)
    BY <1>7
  <2>2. "temp" \in mounts /\ ~stuck' =>
           todo' # << >> /\ todo'[Len(todo')].does = "umount" /\ todo'[1].does # "mount"
    <3> SUFFICES ASSUME "temp" \in mounts, ~stuck'
                 PROVE  todo' # << >> /\ todo'[Len(todo')].does = "umount" /\ todo'[1].does # "mount"
      OBVIOUS
    <3>1. last.does = "umount" /\ todo' = one
      BY <1>1, <1>3, <1>7 DEF Bracketed
    <3> HIDE DEF last
    <3>2. one # << >> /\ Len(one) = 1 /\ one[1] = last
      BY Lists, OneLeft, <3>1
    <3> HIDE DEF one
    <3> QED
      BY <3>1, <3>2
  <2> HIDE DEF one, last
  <2> QED
    BY <1>6, <1>7, <2>1, <2>2
<1>8. CASE todo[1].does \in {"mount", "label"} /\ todo' = << >> /\ value' = FALSE /\ stuck' = stuck
  <2>1. ~("temp" \in mounts /\ ~stuck')
    <3> SUFFICES ASSUME "temp" \in mounts, ~stuck' PROVE FALSE
      OBVIOUS
    <3>1. last.does = "umount" /\ todo[1].does # "mount"
      BY <1>3, <1>8 DEF Bracketed
    <3>2. "label" \in Effects(job) /\ "umount" \in Effects(job)
      BY <1>2, <1>8, <3>1
    <3> QED
      BY <1>2, <3>2, EffectsTell
  <2> HIDE DEF one, last
  <2> QED
    BY <1>6, <1>8, <2>1
<1> QED
  BY <1>4, <1>5, <1>7, <1>8

LEMMA FailureKeeps ==
    ASSUME IInv, CommandFails \/ CommandDoesNotRun
    PROVE  IInv'
<1>1. /\ todo # << >>
      /\ UNCHANGED <<found, device, content, mounts, object, queue, op, jobs, job, outcome, formatted, steady>>
      /\ stuck' \in BOOLEAN
  BY DEF CommandFails, CommandDoesNotRun, disk, IInv, TypesOK
<1>2. /\ IsSeq(todo') /\ \A i \in DOMAIN todo' : \E k \in DOMAIN todo : todo'[i] = todo[k]
      /\ Brackets(todo') /\ Exports(todo')
      /\ \A E : Counts(todo, E) => value' = FALSE \/ Counts(todo', E)
      /\ value' => value
      /\ value' \in BOOLEAN
      /\ "temp" \in mounts /\ ~stuck' =>
            todo' # << >> /\ todo'[Len(todo')].does = "umount" /\ todo'[1].does # "mount"
      /\ job \in {"resize", "maximize"} => Halfway'
  BY FailureLeaves
<1>3. ~Idle /\ job \in JobNames /\ \A i \in DOMAIN todo : todo[i].does \in Effects(job)
  BY <1>1, Running
<1>4. \A name, E : Ahead(name, E) => Ahead(name, E)'
  BY <1>1, <1>2 DEF Ahead, Has
<1>5. \A E : ~value \/ Counts(todo, E) => ~value' \/ Counts(todo', E)
  BY <1>2
<1>6. TypesOK'
  BY <1>1, <1>2 DEF IInv, TypesOK
<1>7. (Queued /\ Recorded)'
  BY <1>1 DEF IInv, Queued, Recorded, Records, Constructed, Supported, Can, CanOnline
<1>8. Progress'
  <2>1. job # "idle"
    BY <1>3 DEF JobNames
  <2>2. \A i \in DOMAIN todo' : todo'[i].does \in Effects(job)
    BY <1>2, <1>3
  <2>3. Within(todo, Effects(job))'
    BY <1>1, <2>2 DEF Within, Effects
  <2> QED
    BY <1>1, <1>2, <1>3, <2>1, <2>3 DEF IInv, Progress, Idle, Supported, Can, CanOnline, Brackets, Exports
<1>9. Bracketed'
  BY <1>1, <1>2 DEF Bracketed
<1>10. WipesUnmounted'
  BY <1>1, <1>2 DEF IInv, WipesUnmounted
<1>11. Resizing'
  BY <1>1, <1>4 DEF IInv, Resizing, Sound, Tracked, Sized, Ordered, Has
<1>12. Labelling'
  BY <1>1, <1>4 DEF IInv, Labelling, Sound, Can
<1>13. Deleting'
  BY <1>1, <1>4 DEF IInv, Deleting, Sound
<1>14. Creating'
  BY <1>1, <1>2, <1>4 DEF IInv, Creating, Sound, Ordered, Has
<1>15. Copying'
  BY <1>1, <1>2, <1>4 DEF IInv, Copying, Sound, Ordered, Has
<1>16. Placed' /\ Matching'
  BY <1>1 DEF IInv, Placed, Matching, Sound
<1>17. Online'
  BY <1>1, <1>5 DEF IInv, Online, Sound
<1>18. LengthTells'
  BY <1>1, <1>4 DEF IInv, LengthTells, Known, Tracked, Sized
<1>19. Halfway'
  BY <1>1, <1>2 DEF Halfway
<1> QED
  BY <1>6, <1>7, <1>8, <1>9, <1>10, <1>11, <1>12, <1>13, <1>14, <1>15, <1>16, <1>17, <1>18, <1>19 DEF IInv
--------------------------------------------------------------------------------
(* The end of a job.                                                       *)

LEMMA EndJobKeeps ==
    ASSUME IInv, EndJob
    PROVE  IInv'
<1>1. /\ job # "idle" /\ todo = << >> /\ job' = "idle"
      /\ queue' = (IF outcome' = "error" THEN << >> ELSE queue)
      /\ UNCHANGED <<found, device, content, mounts, op, todo, value, formatted, steady, stuck>>
  BY DEF EndJob, disk
<1>2. /\ ~Idle /\ outcome \in {"running", "failing"}
      /\ op \in Operations /\ op.name \in Names /\ op.type = object.type /\ object.type \in Types
      /\ jobs \in Seq(JobNames) /\ job \in JobNames /\ op.length \in Nat /\ device \in Nat /\ value \in BOOLEAN
      /\ Sound => outcome = "running"
  <2>1. ~Idle
    BY <1>1 DEF IInv, Progress
  <2>2. outcome \in {"running", "failing"}
    BY <2>1 DEF Idle
  <2> QED
    BY <1>1, <2>1, <2>2, Executed DEF IInv, TypesOK
<1>3. /\ outcome = "running" => job \in JobsIn(op.name)
      /\ outcome = "failing" => job = "restore" /\ op.name = "grow"
  BY <1>1 DEF IInv, Progress
<1>4. \A E : ~Counts(todo, E)
  BY <1>1, NoneLeft
<1>5. /\ job = "resize" => op.name \in {"shrink", "grow"}
      /\ job = "maximize" => op.name = "copy"
  BY <1>2, <1>3, JobsAre
<1>6. /\ object' \in [type : Types, length : Nat, label : Labels, mounted : BOOLEAN]
      /\ object'.type = object.type /\ object'.mounted = object.mounted
      /\ job \in {"resize", "maximize"} /\ value => object'.length = Target
      /\ job \in {"resize", "maximize"} /\ ~value => object'.length = object.length
      /\ job \notin {"resize", "maximize"} => object'.length = object.length
  <2>1. object \in [type : Types, length : Nat, label : Labels, mounted : BOOLEAN]
    BY DEF IInv, TypesOK
  <2>2. CASE ~value
    <3>1. object' = object
      BY <2>2 DEF EndJob, Updated
    <3> QED
      BY <2>1, <2>2, <3>1
  <2>3. CASE value /\ job = "resize"
    <3>1. object' = [object EXCEPT !.length = op.length]
      BY <2>3 DEF EndJob, Updated
    <3> QED
      BY <1>2, <2>1, <2>3, <3>1 DEF Target
  <2>4. CASE value /\ job = "maximize"
    <3>1. object' = [object EXCEPT !.length = device]
      BY <2>4 DEF EndJob, Updated
    <3> QED
      BY <1>2, <2>1, <2>4, <3>1 DEF Target
  <2>5. CASE value /\ job \notin {"resize", "maximize"}
    <3>1. object' = object \/ object' = [object EXCEPT !.label = "new"]
      <4>1. CASE job = "label"
        BY <2>5, <4>1 DEF EndJob, Updated
      <4>2. CASE job # "label"
        BY <2>5, <4>2 DEF EndJob, Updated
      <4> QED
        BY <4>1, <4>2
    <3>2. CASE object' = object
      BY <2>1, <2>5, <3>2
    <3>3. CASE object' = [object EXCEPT !.label = "new"]
      BY <2>1, <2>5, <3>3 DEF Labels
    <3> QED
      BY <3>1, <3>2, <3>3
  <2> QED
    BY <1>2, <2>2, <2>3, <2>4, <2>5
<1>7. \/ value /\ jobs # << >> /\ jobs' = jobs /\ outcome' = outcome
      \/ value /\ jobs = << >> /\ jobs' = jobs /\ outcome = "failing" /\ outcome' = "error"
      \/ value /\ jobs = << >> /\ jobs' = jobs /\ outcome = "running" /\ outcome' = "success"
      \/ ~value /\ job = "resize" /\ op.name = "grow" /\ outcome' = "failing" /\ jobs' = <<"restore">>
      \/ ~value /\ job = "maximize" /\ outcome' = "warning" /\ jobs' = << >>
      \/ ~value /\ job # "maximize" /\ outcome' = "error" /\ jobs' = << >>
  BY <1>2 DEF EndJob
<1>8. Sound' =>
         /\ Sound /\ outcome = "running"
         /\ \/ value /\ jobs' = jobs /\ (outcome' = "running" \/ (outcome' = "success" /\ jobs = << >>))
            \/ ~value /\ job = "maximize" /\ outcome' = "warning" /\ jobs' = << >>
  BY <1>2, <1>3, <1>7 DEF Sound
<1>9. Sound' => \A name, E : Ahead(name, E) => \/ value /\ Ahead(name, E)'
                                               \/ ~value /\ (Has(jobs, name) \/ name = "maximize")
  BY <1>4, <1>8 DEF Ahead, Has
<1>10. \A x : jobs = << >> => ~Has(jobs, x)
  BY NoneLeft DEF Has
<1>11. \A name, E : (outcome' = "success" /\ jobs = << >> /\ value) => ~Ahead(name, E)
  BY <1>4, <1>10 DEF Ahead
<1>12. TypesOK'
  <2>1. jobs' \in Seq(JobNames)
    <3>1. << >> \in Seq(JobNames) /\ <<"restore">> \in Seq(JobNames)
      BY DEF JobNames
    <3> QED
      BY <1>2, <1>7, <3>1
  <2>2. outcome' \in {"running", "failing", "success", "warning", "error"}
    BY <1>2, <1>7
  <2>3. queue' \in Seq(Operations)
    BY <1>1 DEF IInv, TypesOK
  <2> QED
    BY <1>1, <1>2, <1>6, <2>1, <2>2, <2>3 DEF IInv, TypesOK
<1>13. Queued'
  <2>1. CASE outcome' = "error"
    BY <1>1, <2>1, NoneLeft DEF Queued
  <2>2. CASE outcome' # "error"
    BY <1>1, <1>6, <2>2 DEF IInv, Queued, Constructed, Supported, Can, CanOnline
  <2> QED
    BY <2>1, <2>2
<1>14. Sound' /\ outcome' # "running" => device = op.length
  <2> SUFFICES ASSUME Sound', outcome' # "running" PROVE device = op.length
    OBVIOUS
  <2>1. CASE op.name \in {"shrink", "grow"}
    <3>1. value /\ outcome' = "success" /\ jobs = << >>
      BY <1>5, <1>8, <2>1
    <3> QED
      BY <1>8, <1>11, <2>1, <3>1 DEF IInv, Resizing
  <2>2. CASE op.name \notin {"shrink", "grow"}
    BY <1>2, <1>8, <2>2 DEF IInv, Placed, Names
  <2> QED
    BY <2>1, <2>2
<1>15. Recorded'
  <2>1. CASE outcome' = "error"
    <3>1. queue' = << >>
      BY <1>1, <2>1
    <3> QED
      BY <3>1, RecordsNone DEF Recorded
  <2>2. CASE outcome' = "failing"
    BY <1>1, <1>6, <2>2 DEF IInv, Recorded, Records
  <2>3. CASE outcome' = "running"
    BY <1>1, <1>2, <1>6, <1>8, <2>3 DEF IInv, Recorded, Records, Sound
  <2>4. CASE outcome' \in {"success", "warning"}
    <3>1. Sound' /\ outcome = "running" /\ device = op.length
      BY <1>8, <1>14, <2>4 DEF Sound
    <3>2. Records(queue, "length", {"shrink", "grow"}, device)
      BY <3>1 DEF IInv, Recorded
    <3> QED
      BY <1>1, <1>6, <2>4, <3>2 DEF IInv, Recorded, Records
  <2> QED
    BY <1>2, <1>7, <2>1, <2>2, <2>3, <2>4
<1>16. Progress'
  <2>1. (Within(todo, Effects(job)) /\ Brackets(todo) /\ Exports(todo))'
    BY <1>1, EmptyStarts
  <2>2. Idle' => jobs' = << >>
    BY <1>2, <1>7 DEF Idle
  <2>3. outcome' = "running" => /\ \A i \in DOMAIN jobs' : jobs'[i] \in JobsIn(op.name)
                                /\ steady => Supported(op)
    BY <1>2, <1>7 DEF IInv, Progress
  <2>4. outcome' = "failing" => (\A i \in DOMAIN jobs' : jobs'[i] = "restore") /\ op.name = "grow"
    <3>1. CASE jobs' = <<"restore">> /\ op.name = "grow"
      <4> DEFINE r == <<"restore">>
      <4>1. DOMAIN r = 1 .. 1 /\ r[1] = "restore"
        BY JobLists
      <4>2. \A i \in DOMAIN r : r[i] = "restore"
        BY <4>1
      <4>3. jobs' = r
        BY <3>1
      <4> HIDE DEF r
      <4> QED
        BY <3>1, <4>2, <4>3
    <3>2. CASE outcome = "failing" /\ jobs' = jobs
      BY <3>2 DEF IInv, Progress
    <3> QED
      BY <1>2, <1>7, <3>1, <3>2
  <2>5. outcome' = "warning" => op.name = "copy"
    BY <1>2, <1>5, <1>7
  <2>6. op.name = "delete" => queue' = << >>
    BY <1>1 DEF IInv, Progress
  <2>7. steady /\ Supported(op) => Supported(op)'
    BY <1>1, <1>6 DEF Supported, Can, CanOnline
  <2> QED
    BY <1>1, <1>2, <1>6, <2>1, <2>2, <2>3, <2>4, <2>5, <2>6, <2>7 DEF IInv, Progress
<1>17. (Bracketed /\ WipesUnmounted)'
  BY <1>1, NoneLeft DEF IInv, Bracketed, WipesUnmounted
<1>18. Resizing'
  <2> SUFFICES ASSUME op.name \in {"shrink", "grow"}, Sound'
               PROVE  /\ device = op.length \/ Ahead("geometry", {"geometry"})'
                      /\ Tracked => content.length = op.length \/ Ahead("resize", {"resize", "fill"})'
                      /\ op.name = "grow" => Ordered(jobs', "geometry", "resize")
    BY <1>1 DEF Resizing, Tracked, Sized, Ordered, Has
  <2>1. value /\ Sound /\ jobs' = jobs
    BY <1>5, <1>8
  <2> QED
    BY <1>9, <2>1 DEF IInv, Resizing
<1>19. Labelling'
  <2> SUFFICES ASSUME op.name = "label", Sound'
               PROVE  \/ ~Can(object.type, "SetLabel")
                      \/ content.type \in {"ntfs", "bcachefs"}
                      \/ content.label = "new"
                      \/ Ahead("label", {"label", "import"})'
    BY <1>1, <1>6 DEF Labelling, Can
  <2>1. value /\ Sound
    BY <1>5, <1>8
  <2> QED
    BY <1>9, <2>1 DEF IInv, Labelling
<1>20. Deleting'
  <2> SUFFICES ASSUME op.name = "delete", Sound'
               PROVE  content = Nothing \/ Ahead("delete", {"wipe"})'
    BY <1>1 DEF Deleting
  <2>1. value /\ Sound
    BY <1>5, <1>8
  <2> QED
    BY <1>9, <2>1 DEF IInv, Deleting
<1>21. Creating'
  <2> SUFFICES ASSUME op.name = "create", Sound'
               PROVE  /\ Has(jobs', "delete") => Has(jobs', "create")
                      /\ Ordered(jobs', "delete", "create")
                      /\ IF object.type \in Unwritten
                         THEN content = Nothing \/ Ahead("delete", {"wipe"})'
                         ELSE \/ content.type = op.type /\ content.length = device
                              \/ Ahead("create", {"format", "formatLabel"})'
    BY <1>1, <1>6, NoneLeft DEF Creating, Has, Ordered
  <2>1. value /\ Sound /\ jobs' = jobs
    BY <1>5, <1>8
  <2> QED
    BY <1>9, <2>1 DEF IInv, Creating
<1>22. op.name = "copy" /\ Sound' /\ ~value => content.type = op.type /\ content.length >= SourceLength
  <2> SUFFICES ASSUME op.name = "copy", Sound', ~value
               PROVE  content.type = op.type /\ content.length >= SourceLength
    OBVIOUS
  <2>1. job = "maximize" /\ Sound
    BY <1>8
  <2>2. ~Ahead("copy", {"copy", "fillCopy"})
    BY <2>1 DEF IInv, Copying, Ahead
  <2> QED
    BY <2>1, <2>2 DEF IInv, Copying
<1>23. Copying'
  <2> SUFFICES ASSUME op.name = "copy", Sound'
               PROVE  /\ \/ content.type = op.type /\ content.length >= SourceLength
                         \/ Ahead("copy", {"copy", "fillCopy"})'
                      /\ Ordered(jobs', "copy", "maximize")
    BY <1>1, NoneLeft DEF Copying, Ordered
  <2>1. CASE value
    BY <1>8, <1>9, <2>1 DEF IInv, Copying
  <2>2. CASE ~value
    BY <1>8, <1>22, <2>2, NoneLeft DEF Ordered
  <2> QED
    BY <2>1, <2>2
<1>24. Placed'
  BY <1>1, <1>8 DEF IInv, Placed
<1>25. Matching'
  <2> SUFFICES ASSUME Sound'
               PROVE  \/ content.type = object.type
                      \/ content.type = "none" /\ formatted /\ object.type \in Unwritten
                      \/ content.type = "none" /\ op.name = "delete"
                      \/ outcome' = "running" /\ op.name \in {"create", "copy"}
    BY <1>1, <1>6 DEF Matching
  <2>1. Sound /\ outcome = "running"
    BY <1>8
  <2>2. CASE op.name = "create" /\ outcome' # "running"
    <3>1. value /\ outcome' = "success" /\ jobs = << >>
      BY <1>5, <1>8, <2>2
    <3>2. \A name, E : ~Ahead(name, E)
      BY <1>11, <3>1
    <3>3. formatted
      BY <2>2 DEF IInv, Progress
    <3>4. Nothing.type = "none"
      BY DEF Nothing
    <3> QED
      BY <1>2, <2>1, <2>2, <3>2, <3>3, <3>4 DEF IInv, Creating
  <2>3. CASE op.name = "copy" /\ outcome' # "running"
    <3>1. CASE value
      <4>1. \A name, E : ~Ahead(name, E)
        BY <1>8, <1>11, <2>3, <3>1
      <4> QED
        BY <1>2, <2>1, <2>3, <4>1 DEF IInv, Copying
    <3>2. CASE ~value
      BY <1>2, <1>22, <2>3, <3>2
    <3> QED
      BY <3>1, <3>2
  <2>4. CASE outcome' = "running" \/ op.name \notin {"create", "copy"}
    BY <2>1, <2>4 DEF IInv, Matching
  <2> QED
    BY <2>2, <2>3, <2>4
<1>26. Online'
  <2>1. Sound' => content.online
    <3>1. Sound' /\ job = "label" => value
      BY <1>8
    <3> QED
      BY <1>4, <1>8, <3>1 DEF IInv, Online
  <2> QED
    BY <1>1, <2>1 DEF Online
<1>27. LengthTells'
  <2> SUFFICES ASSUME Known
               PROVE  \/ object'.length = content.length
                      \/ op.name = "copy" /\ (outcome' = "error" \/ Ahead("copy", {"copy", "fillCopy"})')
    BY <1>1, <1>6 DEF LengthTells, Known, Tracked, Sized
  <2>1. CASE job \in {"resize", "maximize"}
    BY <1>2, <1>4, <1>6, <2>1 DEF IInv, Halfway
  <2>2. CASE job \notin {"resize", "maximize"}
    <3>1. CASE object.length = content.length
      BY <1>6, <2>2, <3>1
    <3>2. CASE op.name = "copy" /\ Ahead("copy", {"copy", "fillCopy"})
      <4>1. CASE value
        BY <1>4, <1>7, <3>2, <4>1 DEF Ahead, Has
      <4>2. CASE ~value
        BY <1>7, <2>2, <3>2, <4>2
      <4> QED
        BY <4>1, <4>2
    <3> QED
      BY <1>2, <2>2, <3>1, <3>2 DEF IInv, LengthTells
  <2> QED
    BY <2>1, <2>2
<1>28. Halfway'
  BY <1>1 DEF Halfway
<1> QED
  BY <1>12, <1>13, <1>15, <1>16, <1>17, <1>18, <1>19, <1>20, <1>21, <1>23, <1>24, <1>25, <1>26, <1>27, <1>28 DEF IInv
--------------------------------------------------------------------------------
(* A command that succeeds.                                                *)

Rewrites == {"format", "formatLabel", "wipe", "copy", "fillCopy"}

\* What is on the disk after a command that writes a whole file system.
LEMMA Contents ==
    ASSUME NEW t \in Types, NEW n \in Nat, NEW l \in Labels, NEW c,
           c = [type |-> t, length |-> n, label |-> l, online |-> TRUE]
    PROVE  c.type = t /\ c.length = n /\ c.online /\ c \in [type : Types \cup {"none"}, length : Nat, label : Labels, online : BOOLEAN]
OBVIOUS

\* What a command writes.
LEMMA WrittenIs ==
    ASSUME content \in [type : Types \cup {"none"}, length : Nat, label : Labels, online : BOOLEAN],
           op.type \in Types, object.type \in Types, device \in Nat, op.length \in Nat,
           NEW d, d = Step.does, NEW c, c = Written
    PROVE  /\ c \in [type : Types \cup {"none"}, length : Nat, label : Labels, online : BOOLEAN]
           /\ d \in {"format", "formatLabel"} => c.type = object.type /\ c.length = device
           /\ d = "wipe" => c = Nothing
           /\ d = "copy" => c.type = op.type /\ c.length = SourceLength
           /\ d = "fillCopy" => c.type = op.type /\ c.length = device
           /\ d = "resize" => c.length = Target
           /\ d = "fill" => c.length = device
           /\ d \in {"label", "import"} => c.label = "new"
           /\ d = "import" => c.online
           /\ d \notin Rewrites => /\ c.type = content.type
                                   /\ d \notin {"resize", "fill"} => c.length = content.length
                                   /\ d \notin {"label", "import"} => c.label = content.label
           /\ d # "export" /\ content.online => c.online
           /\ d \notin Rewrites \cup {"resize", "fill", "label", "export", "import"} => c = content
<1> USE FileSystemJobsAssumption DEF Rewrites
<1>1. SourceLength \in Nat
  BY DEF SourceLength
<1>2. CASE d \in {"format", "formatLabel"}
  <2>1. c = [type |-> object.type, length |-> device, label |-> "", online |-> TRUE]
    BY <1>2 DEF Written
  <2> DEFINE l == ""
  <2>2. l \in Labels
    BY DEF Labels
  <2>4. c = [type |-> object.type, length |-> device, label |-> l, online |-> TRUE]
    BY <2>1
  <2> HIDE DEF l
  <2>3. c.type = object.type /\ c.length = device /\ c.online /\ c \in [type : Types \cup {"none"}, length : Nat, label : Labels, online : BOOLEAN]
    BY <2>2, <2>4, Contents
  <2> QED
    BY <1>2, <2>3
<1>3. CASE d = "wipe"
  <2>1. c = Nothing
    BY <1>3 DEF Written
  <2>2. Nothing \in [type : Types \cup {"none"}, length : Nat, label : Labels, online : BOOLEAN]
    BY DEF Nothing, Labels
  <2>3. Nothing.online
    BY DEF Nothing
  <2> QED
    BY <1>3, <2>1, <2>2, <2>3
<1>4. CASE d = "copy"
  <2>1. c = [type |-> op.type, length |-> SourceLength, label |-> "source", online |-> TRUE]
    BY <1>4 DEF Written
  <2>2. "source" \in Labels
    BY DEF Labels
  <2>3. c.type = op.type /\ c.length = SourceLength /\ c.online /\ c \in [type : Types \cup {"none"}, length : Nat, label : Labels, online : BOOLEAN]
    BY <1>1, <2>1, <2>2, Contents
  <2> QED
    BY <1>4, <2>3
<1>5. CASE d = "fillCopy"
  <2>1. c = [type |-> op.type, length |-> device, label |-> "source", online |-> TRUE]
    BY <1>5 DEF Written
  <2>2. "source" \in Labels
    BY DEF Labels
  <2>3. c.type = op.type /\ c.length = device /\ c.online /\ c \in [type : Types \cup {"none"}, length : Nat, label : Labels, online : BOOLEAN]
    BY <2>1, <2>2, Contents
  <2> QED
    BY <1>5, <2>3
<1>6. CASE d \in {"resize", "fill"}
  <2> DEFINE n == IF d = "fill" THEN device ELSE Target
  <2>1. c = [content EXCEPT !.length = n]
    BY <1>6 DEF Written, Target
  <2>2. n \in Nat
    BY DEF Target
  <2>3. (d = "fill" => n = device) /\ (d = "resize" => n = Target)
    OBVIOUS
  <2> HIDE DEF n
  <2> QED
    BY <1>6, <2>1, <2>2, <2>3
<1>7. CASE d = "label"
  <2>1. c = [content EXCEPT !.label = "new"]
    BY <1>7 DEF Written
  <2> QED
    BY <1>7, <2>1 DEF Labels
<1>8. CASE d = "export"
  <2>1. c = [content EXCEPT !.online = FALSE]
    BY <1>8 DEF Written
  <2> QED
    BY <1>8, <2>1
<1>9. CASE d = "import"
  <2>1. c = [content EXCEPT !.online = TRUE, !.label = "new"]
    BY <1>9 DEF Written
  <2> QED
    BY <1>9, <2>1 DEF Labels
<1>10. CASE d \notin Rewrites \cup {"resize", "fill", "label", "export", "import"}
  <2>1. c = content
    BY <1>10 DEF Written
  <2> QED
    BY <1>10, <2>1
<1> QED
  BY <1>2, <1>3, <1>4, <1>5, <1>6, <1>7, <1>8, <1>9, <1>10

\* "none" is no type of a file system.
LEMMA NoType == "none" \notin Types
BY DEF Types, Inits

LEMMA CommandSucceedsKeeps ==
    ASSUME IInv, CommandSucceeds
    PROVE  IInv'
<1> USE FileSystemJobsAssumption
<1> DEFINE d == todo[1].does
           t == Tail(todo)
           c == Written
<1>1. /\ todo # << >> /\ todo' = t /\ content' = c
      /\ UNCHANGED <<found, queue, op, jobs, job, value, outcome, formatted, steady, stuck>>
  BY DEF CommandSucceeds
<1>2. /\ ~Idle /\ job \in JobNames /\ IsSeq(todo) /\ Step = todo[1] /\ 1 \in DOMAIN todo
      /\ Len(todo) \in DOMAIN todo
      /\ \A i \in DOMAIN todo : todo[i].does \in Effects(job)
      /\ Sound => outcome = "running" /\ job \in JobsIn(op.name)
  BY <1>1, Running
<1>3. /\ op \in Operations /\ op.name \in Names /\ op.type = object.type /\ object.type \in Types
      /\ op.length \in Nat /\ device \in Nat /\ op.before \in Nat
  BY <1>2, Executed DEF Operations
<1>4. /\ d # "refuse"
      /\ d \in {"resize", "fill", "label"} => content.type = object.type
      /\ d = "umount" => "temp" \in mounts
  BY <1>2 DEF CommandSucceeds, Possible
<1>5. d \in Effects(job)
  BY <1>2
<1>6. /\ device' = (IF d = "geometry" THEN op.length ELSE IF d = "geometryBack" THEN op.before ELSE device)
      /\ mounts' = (IF d = "mount" THEN mounts \cup {"temp"} ELSE IF d = "umount" THEN mounts \ {"temp"} ELSE mounts)
      /\ object' = (IF d \in {"copy", "fillCopy"} THEN [object EXCEPT !.length = SourceLength] ELSE object)
  <2>1. mounts' = (IF d = "mount" THEN mounts \cup {"temp"} ELSE IF d = "umount" THEN mounts \ {"temp"} ELSE mounts)
    BY <1>2 DEF CommandSucceeds
  <2>2. object' = (IF d \in {"copy", "fillCopy"} THEN [object EXCEPT !.length = SourceLength] ELSE object)
    BY <1>2 DEF CommandSucceeds
  <2>3. device' = (IF d = "geometry" THEN op.length ELSE IF d = "geometryBack" THEN op.before ELSE device)
    BY <1>2 DEF CommandSucceeds
  <2> QED
    BY <2>1, <2>2, <2>3
<1>7. /\ c \in [type : Types \cup {"none"}, length : Nat, label : Labels, online : BOOLEAN]
      /\ d \in {"format", "formatLabel"} => c.type = object.type /\ c.length = device
      /\ d = "wipe" => c = Nothing
      /\ d = "copy" => c.type = op.type /\ c.length = SourceLength
      /\ d = "fillCopy" => c.type = op.type /\ c.length = device
      /\ d = "resize" => c.length = Target
      /\ d = "fill" => c.length = device
      /\ d \in {"label", "import"} => c.label = "new"
      /\ d = "import" => c.online
      /\ d \notin Rewrites => /\ c.type = content.type
                              /\ d \notin {"resize", "fill"} => c.length = content.length
                              /\ d \notin {"label", "import"} => c.label = content.label
      /\ d # "export" /\ content.online => c.online
      /\ d \notin Rewrites \cup {"resize", "fill", "label", "export", "import"} => c = content
  <2>1. content \in [type : Types \cup {"none"}, length : Nat, label : Labels, online : BOOLEAN]
    BY DEF IInv, TypesOK
  <2>2. op.type \in Types
    BY <1>3
  <2>3. d = Step.does
    BY <1>2
  <2> HIDE DEF d, c
  <2>4. c = Written
    BY DEF c
  <2> QED
    BY <1>3, <2>1, <2>2, <2>3, <2>4, WrittenIs
<1>8. /\ IsSeq(t) /\ (t = << >> => Len(todo) = 1) /\ (t # << >> => 1 \in DOMAIN t)
      /\ \A i \in DOMAIN t : \E k \in DOMAIN todo : t[i] = todo[k]
  <2>1. IsSeq(t) /\ Len(todo) \in Nat /\ Len(t) = Len(todo) - 1
    BY <1>1, <1>2, Rest
  <2>2. \A i \in DOMAIN t : i + 1 \in DOMAIN todo /\ t[i] = todo[i + 1]
    BY <1>1, <1>2, Rest
  <2> HIDE DEF t
  <2>3. t = << >> => Len(t) = 0
    BY Lists
  <2>4. t # << >> => 1 \in DOMAIN t
    BY <2>1, Domains
  <2> QED
    BY <2>1, <2>2, <2>3, <2>4
<1>9. /\ Brackets(t) /\ (\A i \in DOMAIN t : t[i].does # "mount")
      /\ t # << >> => t[Len(t)] = todo[Len(todo)]
  <2>1. Brackets(todo)
    BY DEF IInv, Progress
  <2> QED
    BY <1>1, <1>2, <2>1, RestBrackets
<1>10. Exports(t) /\ (d = "export" => Counts(t, {"import"}))
  <2>1. Exports(todo)
    BY DEF IInv, Progress
  <2> QED
    BY <1>1, <1>2, <2>1, RestExports
<1>11. \A E : Counts(todo, E) <=> Counts(t, E) \/ (d \in E /\ ~todo[1].lax)
  BY <1>1, <1>2, RestCounts
<1>12. job \in {"resize", "maximize"} =>
          /\ Changing(t)
          /\ d \in Changes => ~todo[1].lax /\ \A i \in DOMAIN t : t[i].does = "umount" /\ t[i].lax
  <2>1. job \in {"resize", "maximize"} => Changing(todo)
    BY DEF IInv, Halfway
  <2> QED
    BY <1>1, <1>2, <2>1, RestChanging
<1>13. todo[1].does = d
  OBVIOUS
<1> HIDE DEF d, t, c
<1>14. /\ object' \in [type : Types, length : Nat, label : Labels, mounted : BOOLEAN]
       /\ object'.type = object.type /\ object'.mounted = object.mounted
       /\ d \in {"copy", "fillCopy"} => object'.length = SourceLength
       /\ d \notin {"copy", "fillCopy"} => object'.length = object.length
  <2>1. object \in [type : Types, length : Nat, label : Labels, mounted : BOOLEAN]
    BY DEF IInv, TypesOK
  <2>2. SourceLength \in Nat
    BY DEF SourceLength
  <2> QED
    BY <1>6, <2>1, <2>2
<1>15. \A name, E : Ahead(name, E) => Ahead(name, E)' \/ (job = name /\ d \in E)
  BY <1>1, <1>4, <1>11 DEF Ahead
<1>16. (outcome = "running" /\ Sound) \/ (~Sound /\ job = "restore")
  BY <1>2 DEF IInv, Progress, Idle, Sound, TypesOK, JobNames
<1>17. /\ d = "wipe" => job = "delete" /\ op.name \in {"delete", "create"}
       /\ d \in {"format", "formatLabel"} => job = "create" /\ op.name = "create"
       /\ d \in {"copy", "fillCopy"} => job = "copy" /\ op.name = "copy"
       /\ d \in {"resize", "fill"} => job \in {"resize", "maximize"}
       /\ job = "resize" => op.name \in {"shrink", "grow"}
       /\ job = "maximize" => op.name = "copy"
       /\ d = "geometry" => job = "geometry" /\ op.name \in {"shrink", "grow"}
       /\ Sound => d # "geometryBack"
       /\ d \in {"label", "export", "import"} => job = "label" /\ op.name = "label"
  <2>1. CASE job = "restore"
    <3>1. d = "geometryBack"
      BY <1>5, <2>1, EffectsOf
    <3>2. ~Sound
      BY <1>2, <1>3, <2>1, JobsAre
    <3> QED
      BY <2>1, <3>1, <3>2
  <2>2. CASE job # "restore"
    <3>1. job \in JobsIn(op.name)
      BY <1>2, <1>16, <2>2
    <3>2. /\ job = "resize" => op.name \in {"shrink", "grow"}
          /\ job = "geometry" => op.name \in {"shrink", "grow"}
          /\ job = "maximize" => op.name = "copy"
          /\ job = "label" => op.name = "label"
          /\ job = "delete" => op.name \in {"delete", "create"}
          /\ job = "create" => op.name = "create"
          /\ job = "copy" => op.name = "copy"
      BY <1>3, <3>1, JobsAre
    <3>3. /\ d = "wipe" => job = "delete"
          /\ d \in {"format", "formatLabel"} => job = "create"
          /\ d \in {"copy", "fillCopy"} => job = "copy"
          /\ d \in {"resize", "fill"} => job \in {"resize", "maximize"}
          /\ d = "geometry" => job = "geometry"
          /\ d = "geometryBack" => job = "restore"
          /\ d \in {"label", "export", "import"} => job = "label"
      BY <1>2, <1>5, EffectsTell
    <3> QED
      BY <2>2, <3>2, <3>3
  <2> QED
    BY <2>1, <2>2
<1>18. /\ Sound /\ d # "geometry" => device' = device
       /\ d = "geometry" => device' = op.length
       /\ device' \in Nat
  BY <1>3, <1>6, <1>17
<1>19. TypesOK'
  BY <1>1, <1>7, <1>8, <1>14, <1>18 DEF IInv, TypesOK
<1>20. (Queued /\ Recorded)'
  <2>1. Queued'
    BY <1>1, <1>14 DEF IInv, Queued, Constructed, Supported, Can, CanOnline
  <2>2. Recorded'
    BY <1>1, <1>2, <1>14 DEF IInv, Recorded, Records, Idle
  <2> QED
    BY <2>1, <2>2
<1>21. Progress'
  <2>1. job # "idle"
    BY <1>2 DEF JobNames
  <2>2. \A i \in DOMAIN t : t[i].does \in Effects(job)
    BY <1>2, <1>8
  <2>3. (Within(todo, Effects(job)) /\ Brackets(todo) /\ Exports(todo))'
    BY <1>1, <1>9, <1>10, <2>2 DEF Within, Effects, Brackets, Exports
  <2>4. Supported(op)' <=> Supported(op)
    BY <1>1, <1>14 DEF Supported, Can, CanOnline
  <2> QED
    BY <1>1, <1>2, <1>14, <2>1, <2>3, <2>4 DEF IInv, Progress, Idle
<1>22. Bracketed'
  <2> SUFFICES ASSUME "temp" \in mounts', ~stuck
               PROVE  t # << >> /\ t[Len(t)].does = "umount" /\ t[1].does # "mount"
    BY <1>1 DEF Bracketed
  <2>1. d # "umount"
    BY <1>6
  <2>2. todo[Len(todo)].does = "umount"
    <3>1. CASE d = "mount"
      BY <1>2, <1>13, <3>1 DEF IInv, Progress, Brackets
    <3>2. CASE d # "mount"
      BY <1>1, <1>6, <2>1, <3>2 DEF IInv, Bracketed
    <3> QED
      BY <3>1, <3>2
  <2>3. t # << >>
    BY <1>8, <1>13, <2>1, <2>2
  <2> QED
    BY <1>8, <1>9, <2>2, <2>3
<1>23. WipesUnmounted'
  <2>1. "user" \in mounts' => "user" \in mounts
    BY <1>6
  <2> QED
    BY <1>1, <1>8, <2>1 DEF IInv, WipesUnmounted
<1>24. Resizing'
  <2> SUFFICES ASSUME op.name \in {"shrink", "grow"}, Sound
               PROVE  /\ device' = op.length \/ Ahead("geometry", {"geometry"})'
                      /\ Tracked' => c.length = op.length \/ Ahead("resize", {"resize", "fill"})'
    BY <1>1 DEF IInv, Resizing, Sound, Ordered, Has
  <2>1. device' = op.length \/ Ahead("geometry", {"geometry"})'
    BY <1>15, <1>18 DEF IInv, Resizing
  <2>2. d \notin Rewrites
    BY <1>17 DEF Rewrites
  <2>3. Tracked' => Tracked
    BY <1>1, <1>7, <2>2 DEF Tracked, Sized
  <2>4. CASE d \in {"resize", "fill"}
    <3>1. job = "resize" /\ Target = op.length /\ content.type = object.type
      BY <1>4, <1>17, <2>4 DEF Target
    <3>2. d = "fill" /\ Tracked => device = Target
      BY <1>2, <1>13, <3>1 DEF IInv, Halfway, Known
    <3> QED
      BY <1>7, <2>1, <2>3, <2>4, <3>1, <3>2
  <2>5. CASE d \notin {"resize", "fill"}
    BY <1>7, <1>15, <2>1, <2>2, <2>3, <2>5 DEF IInv, Resizing
  <2> QED
    BY <2>4, <2>5
<1>25. Labelling'
  <2> SUFFICES ASSUME op.name = "label", Sound
               PROVE  \/ ~Can(object.type, "SetLabel")
                      \/ c.type \in {"ntfs", "bcachefs"}
                      \/ c.label = "new"
                      \/ Ahead("label", {"label", "import"})'
    BY <1>1, <1>14 DEF Labelling, Sound, Can
  <2>1. d \notin Rewrites
    BY <1>17 DEF Rewrites
  <2> QED
    BY <1>7, <1>15, <2>1 DEF IInv, Labelling
<1>26. Deleting'
  <2> SUFFICES ASSUME op.name = "delete", Sound
               PROVE  c = Nothing \/ Ahead("delete", {"wipe"})'
    BY <1>1 DEF Deleting, Sound
  <2>1. CASE d = "wipe"
    BY <1>7, <2>1
  <2>2. CASE d # "wipe"
    <3>1. c = content
      BY <1>7, <1>17, <2>2 DEF Rewrites
    <3> QED
      BY <1>15, <2>2, <3>1 DEF IInv, Deleting
  <2> QED
    BY <2>1, <2>2
<1>27. Creating'
  <2> SUFFICES ASSUME op.name = "create", Sound
               PROVE  IF object.type \in Unwritten
                      THEN /\ c = Nothing \/ Ahead("delete", {"wipe"})'
                           /\ \A i \in DOMAIN t : t[i].does \notin {"format", "formatLabel"}
                      ELSE \/ c.type = op.type /\ c.length = device'
                           \/ Ahead("create", {"format", "formatLabel"})'
    BY <1>1, <1>14 DEF IInv, Creating, Sound, Ordered, Has
  <2>1. d \notin {"format", "formatLabel", "wipe"} => c = content
    BY <1>7, <1>17 DEF Rewrites
  <2>2. CASE object.type \in Unwritten
    <3>1. \A i \in DOMAIN todo : todo[i].does \notin {"format", "formatLabel"}
      BY <2>2 DEF IInv, Creating
    <3>2. \A i \in DOMAIN t : t[i].does \notin {"format", "formatLabel"}
      BY <1>8, <3>1
    <3>3. d \notin {"format", "formatLabel"}
      BY <1>2, <1>13, <3>1
    <3>4. c = Nothing \/ Ahead("delete", {"wipe"})'
      BY <1>7, <1>15, <2>1, <2>2, <3>3 DEF IInv, Creating
    <3> QED
      BY <2>2, <3>2, <3>4
  <2>3. CASE object.type \notin Unwritten
    <3>1. device' = device
      BY <1>17, <1>18
    <3>2. CASE d \in {"format", "formatLabel"}
      BY <1>3, <1>7, <2>3, <3>1, <3>2
    <3>3. CASE d = "wipe"
      <4>1. Has(jobs, "create")
        BY <1>17, <3>3 DEF IInv, Creating
      <4> QED
        BY <1>1, <2>3, <4>1 DEF Ahead, Has
    <3>4. CASE d \notin {"format", "formatLabel", "wipe"}
      BY <1>15, <2>1, <2>3, <3>1, <3>4 DEF IInv, Creating
    <3> QED
      BY <3>2, <3>3, <3>4
  <2> QED
    BY <2>2, <2>3
<1>28. Copying'
  <2> SUFFICES ASSUME op.name = "copy", Sound
               PROVE  /\ \/ c.type = op.type /\ c.length >= SourceLength
                         \/ Ahead("copy", {"copy", "fillCopy"})'
                      /\ \A i \in DOMAIN t : t[i].does = "fillCopy" => op.type = "linuxswap"
    BY <1>1 DEF IInv, Copying, Sound, Ordered, Has
  <2>1. \A i \in DOMAIN t : t[i].does = "fillCopy" => op.type = "linuxswap"
    BY <1>8 DEF IInv, Copying
  <2>2. device >= SourceLength /\ SourceLength \in Nat
    BY DEF IInv, Placed, Progress, SourceLength
  <2>3. CASE d \in {"copy", "fillCopy"}
    BY <1>7, <2>1, <2>2, <2>3
  <2>4. CASE d \in {"resize", "fill"}
    <3>1. c.length = device /\ c.type = content.type
      BY <1>7, <1>17, <2>4 DEF Target, Rewrites
    <3> QED
      BY <1>15, <2>1, <2>2, <2>4, <3>1 DEF IInv, Copying
  <2>5. CASE d \notin {"copy", "fillCopy", "resize", "fill"}
    <3>1. c = content
      BY <1>7, <1>17, <2>5 DEF Rewrites
    <3> QED
      BY <1>15, <2>1, <2>5, <3>1 DEF IInv, Copying
  <2> QED
    BY <2>3, <2>4, <2>5
<1>29. Placed'
  BY <1>1, <1>17, <1>18 DEF IInv, Placed, Sound
<1>30. Matching'
  <2> SUFFICES ASSUME Sound
               PROVE  \/ c.type = object.type
                      \/ c.type = "none" /\ formatted /\ object.type \in Unwritten
                      \/ c.type = "none" /\ op.name = "delete"
                      \/ outcome = "running" /\ op.name \in {"create", "copy"}
    BY <1>1, <1>14 DEF Matching, Sound
  <2>1. CASE d \in Rewrites
    <3>1. Nothing.type = "none"
      BY DEF Nothing
    <3> QED
      BY <1>7, <1>16, <1>17, <2>1, <3>1 DEF Rewrites
  <2>2. CASE d \notin Rewrites
    BY <1>7, <2>2 DEF IInv, Matching
  <2> QED
    BY <2>1, <2>2
<1>31. Online'
  <2> SUFFICES ASSUME Sound
               PROVE  c.online \/ (job = "label" /\ (~value \/ Counts(t, {"import"})))
    BY <1>1 DEF Online, Sound
  <2>1. CASE d = "export"
    BY <1>10, <1>17, <2>1
  <2>2. CASE d # "export"
    BY <1>7, <1>11, <2>2 DEF IInv, Online
  <2> QED
    BY <2>1, <2>2
<1>32. LengthTells'
  <2> SUFFICES ASSUME Known', job \notin {"resize", "maximize"}
               PROVE  \/ object'.length = c.length
                      \/ op.name = "copy" /\ Ahead("copy", {"copy", "fillCopy"})'
    BY <1>1 DEF LengthTells
  <2>1. steady /\ ~formatted /\ c.type \notin {"linuxswap", "freebsdswap"} /\ c.type = object.type
    BY <1>1, <1>14 DEF Known, Tracked, Sized
  <2>2. CASE d \in Rewrites
    <3>1. d \notin {"format", "formatLabel"}
      BY <1>17, <2>1 DEF IInv, Progress
    <3>2. d # "wipe"
      <4>1. Nothing.type = "none"
        BY DEF Nothing
      <4> QED
        BY <1>3, <1>7, <2>1, <4>1, NoType
    <3>3. d # "fillCopy"
      <4>1. d = "fillCopy" => Sound
        BY <1>16, <1>17
      <4>2. d = "fillCopy" => op.type = "linuxswap"
        BY <1>2, <1>13, <1>17, <4>1 DEF IInv, Copying
      <4> QED
        BY <1>7, <2>1, <4>2
    <3>4. d = "copy"
      BY <2>2, <3>1, <3>2, <3>3 DEF Rewrites
    <3> QED
      BY <1>7, <1>14, <3>4
  <2>3. CASE d \notin Rewrites
    <3>1. d \notin {"resize", "fill"}
      BY <1>17
    <3>2. c.type = content.type /\ c.length = content.length /\ object'.length = object.length
      BY <1>7, <1>14, <2>3, <3>1 DEF Rewrites
    <3>3. Known
      BY <2>1, <3>2 DEF Known, Tracked, Sized
    <3>4. outcome # "error"
      BY <1>2 DEF Idle
    <3> QED
      BY <1>15, <2>3, <3>2, <3>3, <3>4 DEF IInv, LengthTells, Rewrites
  <2> QED
    BY <2>2, <2>3
<1>33. Halfway'
  <2> SUFFICES ASSUME job \in {"resize", "maximize"} PROVE Halfway'
    BY <1>1 DEF Halfway
  <2>1. d \in {"mount", "try", "resize", "fill", "umount"}
    BY <1>4, <1>5, EffectsOf
  <2>2. /\ c.type = content.type /\ device' = device /\ object'.length = object.length
        /\ d \notin {"resize", "fill"} => c.length = content.length
    BY <1>6, <1>7, <1>14, <2>1 DEF Rewrites
  <2>3. (Known' <=> Known) /\ Target' = Target
    BY <1>1, <1>14, <2>2 DEF Known, Tracked, Sized, Target
  <2>4. d \in Changes <=> d \in {"resize", "fill"}
    BY <1>4 DEF Changes
  <2>5. \A i \in DOMAIN t : t[i].does = "fill" /\ Known => device = Target
    BY <1>8 DEF IInv, Halfway
  <2>6. IF value /\ ~Counts(t, Changes)
        THEN /\ \A i \in DOMAIN t : t[i].does = "umount" /\ t[i].lax
             /\ Known => c.length = Target
        ELSE /\ Known => c.length = object.length
             /\ ~value => \A i \in DOMAIN t : t[i].does = "umount"
    <3>1. CASE value /\ ~Counts(todo, Changes)
      <4>1. \A i \in DOMAIN todo : todo[i].does = "umount" /\ todo[i].lax
        BY <3>1 DEF IInv, Halfway
      <4>2. Known => content.length = Target
        BY <3>1 DEF IInv, Halfway
      <4>3. d = "umount"
        BY <1>2, <1>13, <4>1
      <4>4. ~Counts(t, Changes)
        BY <1>11, <3>1
      <4> QED
        BY <1>8, <2>2, <3>1, <4>1, <4>2, <4>3, <4>4
    <3>2. CASE ~(value /\ ~Counts(todo, Changes)) /\ d \in {"resize", "fill"}
      <4>1. value
        BY <1>2, <1>13, <3>2 DEF IInv, Halfway, Within
      <4>2. \A i \in DOMAIN t : t[i].does = "umount" /\ t[i].lax
        BY <1>12, <2>4, <3>2
      <4>3. ~Counts(t, Changes)
        BY <4>2 DEF Counts
      <4>4. d = "fill" /\ Known => device = Target
        BY <1>2, <1>13 DEF IInv, Halfway
      <4> QED
        BY <1>7, <3>2, <4>1, <4>2, <4>3, <4>4
    <3>3. CASE ~(value /\ ~Counts(todo, Changes)) /\ d \notin {"resize", "fill"}
      <4>1. Counts(t, Changes) <=> Counts(todo, Changes)
        BY <1>11, <2>4, <3>3
      <4>2. Known => content.length = object.length
        BY <3>3 DEF IInv, Halfway
      <4>3. ~value => \A i \in DOMAIN t : t[i].does = "umount"
        BY <1>8, <3>3 DEF IInv, Halfway, Within
      <4> QED
        BY <2>2, <3>3, <4>1, <4>2, <4>3
    <3> QED
      BY <3>1, <3>2, <3>3
  <2>7. Changing(t)
    BY <1>12
  <2>8. t = todo' /\ c = content'
    BY <1>1
  <2> QED
    BY <1>1, <2>2, <2>3, <2>5, <2>6, <2>7, <2>8 DEF Halfway, Within
<1> QED
  BY <1>19, <1>20, <1>21, <1>22, <1>23, <1>24, <1>25, <1>26, <1>27, <1>28, <1>29, <1>30, <1>31, <1>32, <1>33 DEF IInv
--------------------------------------------------------------------------------
(* The theorems.                                                           *)

LEMMA StepInvariant == IInv /\ [Next]_vars => IInv'
<1> SUFFICES ASSUME IInv, [Next]_vars PROVE IInv'
  OBVIOUS
<1>1. CASE Push
  BY <1>1, PushKeeps
<1>2. CASE Mount \/ Unmount \/ MountOutside
  BY <1>2, MountingKeeps
<1>3. CASE Execute
  BY <1>3, ExecuteKeeps
<1>4. CASE StartJob
  BY <1>4, StartJobKeeps
<1>5. CASE CommandSucceeds
  BY <1>5, CommandSucceedsKeeps
<1>6. CASE CommandFails \/ CommandDoesNotRun
  BY <1>6, FailureKeeps
<1>7. CASE EndJob
  BY <1>7, EndJobKeeps
<1>8. CASE UNCHANGED vars
  <2>1. UNCHANGED <<found, device, content, mounts, object, queue, op, jobs, job, todo, value, outcome,
                    formatted, steady, stuck>>
    BY <1>8 DEF vars
  <2>2. TypesOK' /\ Bracketed' /\ WipesUnmounted'
    BY <2>1 DEF IInv, TypesOK, Bracketed, WipesUnmounted
  <2>3. Queued' /\ Recorded'
    BY <2>1 DEF IInv, Queued, Recorded, Records, Constructed, Supported, Can, CanOnline
  <2>4. Progress'
    BY <2>1 DEF IInv, Progress, Idle, Within, Effects, Brackets, Exports, Supported, Can, CanOnline
  <2>5. \A name, E : Ahead(name, E)' <=> Ahead(name, E)
    BY <2>1 DEF Ahead, Has, Counts
  <2>6. Resizing' /\ Labelling' /\ Deleting'
    BY <2>1, <2>5 DEF IInv, Resizing, Labelling, Deleting, Sound, Tracked, Sized, Ordered, Has, Can
  <2>7. Creating' /\ Copying'
    BY <2>1, <2>5 DEF IInv, Creating, Copying, Sound, Ordered, Has
  <2>8. Placed' /\ Matching' /\ Online'
    BY <2>1 DEF IInv, Placed, Matching, Online, Sound, Counts
  <2>9. LengthTells' /\ Halfway'
    BY <2>1, <2>5 DEF IInv, LengthTells, Halfway, Known, Tracked, Sized, Target, Changing, Within, Counts
  <2> QED
    BY <2>2, <2>3, <2>4, <2>6, <2>7, <2>8, <2>9 DEF IInv
<1> QED
  BY <1>1, <1>2, <1>3, <1>4, <1>5, <1>6, <1>7, <1>8 DEF Next, Work

\* The invariant holds in every state.
THEOREM InvariantHolds == Spec => []IInv
<1> QED
  BY InitInvariant, StepInvariant, PTL DEF Spec

\* An operation that reports success has done what it says, with the commands of every class.
THEOREM SuccessIsTrueHolds == Spec => []SuccessIsTrue
<1>1. ASSUME IInv, outcome = "success" PROVE SuccessIsTrue
  <2>1. Sound /\ Idle
    BY <1>1 DEF Sound, Idle
  <2>2. job = "idle" /\ \A name, effects : name # "idle" => ~Ahead(name, effects)
    BY <1>1, <2>1, NothingAhead DEF IInv
  <2>3. op.name \in {"shrink", "grow"} /\ steady /\ ~formatted /\ Sized =>
           content.length = op.length /\ device = op.length
    BY <1>1, <2>1, <2>2 DEF IInv, Resizing, Tracked
  <2>4. op.name = "label" /\ Can(object.type, "SetLabel") /\ content.type \notin {"ntfs", "bcachefs"} =>
           content.label = "new" /\ content.online
    BY <1>1, <2>1, <2>2 DEF IInv, Labelling, Online
  <2>5. op.name = "delete" => content = Nothing
    BY <1>1, <2>1, <2>2 DEF IInv, Deleting
  <2>6. op.name = "create" /\ object.type \notin {"unformatted", "freebsdswap"} =>
           content.type = op.type /\ content.length = device
    BY <1>1, <2>1, <2>2 DEF IInv, Creating, Unwritten
  <2>7. op.name = "copy" => content.type = op.type /\ content.length >= SourceLength
    BY <1>1, <2>1, <2>2 DEF IInv, Copying
  <2> QED
    BY <2>3, <2>4, <2>5, <2>6, <2>7 DEF SuccessIsTrue
<1>2. IInv => SuccessIsTrue
  BY <1>1 DEF SuccessIsTrue
<1> QED
  BY <1>2, InvariantHolds, PTL

\* The length in the object is the one on the disk when an operation has ended, whatever failed.
THEOREM ObjectTellsHolds == Spec => []ObjectTells
<1>1. IInv => ObjectTells
  <2> SUFFICES ASSUME IInv, Idle, steady, ~formatted, Sized, content.type = object.type,
                      ~(op.name = "copy" /\ outcome = "error")
               PROVE  object.length = content.length
    BY DEF ObjectTells
  <2>1. job = "idle" /\ \A name, effects : name # "idle" => ~Ahead(name, effects)
    BY NothingAhead DEF IInv
  <2> QED
    BY <2>1 DEF IInv, LengthTells, Known, Tracked
<1> QED
  BY <1>1, InvariantHolds, PTL

\* What a job mounted is unmounted when it ends, unless the umount itself fails.
THEOREM NothingLeftMountedHolds == Spec => []NothingLeftMounted
<1>1. IInv => NothingLeftMounted
  BY DEF IInv, Bracketed, Progress, NothingLeftMounted
<1> QED
  BY <1>1, InvariantHolds, PTL

\* No signature is wiped from a file system that is mounted.
THEOREM WipesOnlyUnmountedHolds == Spec => WipesOnlyUnmounted
<1>1. ASSUME IInv, CommandSucceeds, content'.type = "none", content.type # "none"
      PROVE  "user" \notin mounts
  <2> DEFINE d == todo[1].does
             c == Written
  <2>1. todo # << >> /\ content' = c
    BY <1>1 DEF CommandSucceeds
  <2>2. 1 \in DOMAIN todo /\ Step = todo[1] /\ ~Idle
    BY <1>1, <2>1, Running
  <2>3. op.type \in Types /\ object.type \in Types /\ device \in Nat /\ op.length \in Nat
    BY <1>1, <2>2, Executed
  <2>4. content \in [type : Types \cup {"none"}, length : Nat, label : Labels, online : BOOLEAN]
    BY <1>1 DEF IInv, TypesOK
  <2>5. d = Step.does /\ c = Written
    BY <2>2
  <2> HIDE DEF d, c
  <2>6. /\ d \in {"format", "formatLabel"} => c.type = object.type
        /\ d \in {"copy", "fillCopy"} => c.type = op.type
        /\ d \notin Rewrites => c.type = content.type
    BY <2>3, <2>4, <2>5, WrittenIs
  <2>7. d = "wipe"
    BY <1>1, <2>1, <2>3, <2>6, NoType DEF Rewrites
  <2> QED
    BY <1>1, <2>2, <2>7 DEF IInv, WipesUnmounted, d
<1>2. ASSUME [Next]_vars, ~CommandSucceeds
      PROVE  content' = content
  <2>1. CASE Push \/ Mount \/ Unmount \/ MountOutside \/ Execute
    BY <2>1 DEF Push, Mount, Unmount, MountOutside, Execute, disk
  <2>2. CASE StartJob \/ CommandFails \/ CommandDoesNotRun \/ EndJob
    BY <2>2 DEF StartJob, CommandFails, CommandDoesNotRun, EndJob, disk
  <2>3. CASE UNCHANGED vars
    BY <2>3 DEF vars
  <2> QED
    BY <1>2, <2>1, <2>2, <2>3 DEF Next, Work
<1>3. IInv /\ [Next]_vars => [content'.type = "none" /\ content.type # "none" => "user" \notin mounts]_vars
  BY <1>1, <1>2
<1> QED
  BY <1>3, InvariantHolds, PTL DEF Spec, WipesOnlyUnmounted

================================================================================
