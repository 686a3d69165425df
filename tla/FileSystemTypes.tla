--------------------------- MODULE FileSystemTypes ---------------------------
(***************************************************************************)
(* The file system classes of fs/*.cpp: what init() finds support for, and *)
(* the commands that each overridden method runs.  LUKS and LVM physical   *)
(* volumes, which hold other devices, are in LuksVolume and Volumes.       *)
(*                                                                         *)
(* An Init table says by what an operation is supported, "tool" (the class *)
(* runs a command) or "core" (the library does it), and which commands     *)
(* init() must find for that.  Operations that are not in the table are    *)
(* not supported.  An Online set holds the operations whose                *)
(* support...Online() returns the same member as the offline function.     *)
(* A Runs table holds the overridden methods, each with the steps it runs. *)
(***************************************************************************)

\* The entries of a table, and of another one what it has no entry for.
own ++ base == [x \in DOMAIN own \cup DOMAIN base |-> IF x \in DOMAIN own THEN own[x] ELSE base[x]]

Tool(commands) == [by |-> "tool", needs |-> commands]
Core(commands) == [by |-> "core", needs |-> commands]

\* Steps.  "does" is the effect of the command when it succeeds.
Cmd(command, does)  == [tool |-> command, does |-> does, lax |-> FALSE]
\* A command whose exit code nobody looks at.
Lax(command, does)  == [tool |-> command, does |-> does, lax |-> TRUE]
\* Data that the helper writes to the device.
Write(does)         == [tool |-> "helper", does |-> does, lax |-> FALSE]

\* Copies and moves are done by the library where a check can follow.
Checked(check) == [Copy |-> Core({check}), Move |-> Core({check}), Backup |-> Core({})]
Blocks         == [Copy |-> Core({}), Move |-> Core({}), Backup |-> Core({})]

\* The file system is mounted in a temporary directory to be resized.
Mounted(mount, resize) == <<mount, resize, Lax("umount", "umount")>>

--------------------------------------------------------------------------------
Ext2Init == Checked("e2fsck") ++
            [Create     |-> Tool({"mkfs.ext2"}),
             Check      |-> Tool({"e2fsck"}),
             Grow       |-> Tool({"e2fsck", "resize2fs"}),
             Shrink     |-> Tool({"e2fsck", "resize2fs", "dumpe2fs"}),
             SetLabel   |-> Tool({"e2label"}),
             UpdateUUID |-> Tool({"tune2fs"})]
Ext2Online == {"SetLabel"}
Ext2Runs == [check            |-> <<Cmd("e2fsck", "check")>>,
             create           |-> <<Cmd("mkfs.ext2", "format")>>,
             resize           |-> <<Cmd("resize2fs", "resize")>>,
             writeLabel       |-> <<Cmd("e2label", "label")>>,
             writeLabelOnline |-> <<Cmd("e2label", "label")>>,
             updateUUID       |-> <<Cmd("tune2fs", "uuid")>>]

\* ext3 and ext4 are ext2 with a create() and a resizeOnline() of their own.
Ext3Online == Ext2Online \cup {"Grow"}
Ext3Runs   == [create       |-> <<Cmd("mkfs.ext3", "format")>>,
               resizeOnline |-> Ext2Runs.resize] ++ Ext2Runs
Ext4Online == Ext2Online \cup {"Grow"}
Ext4Runs   == [create       |-> <<Cmd("mkfs.ext4", "format")>>,
               resizeOnline |-> Ext2Runs.resize] ++ Ext2Runs

Fat12Init == Blocks ++ [Create     |-> Tool({"mkfs.fat"}),
                        Check      |-> Tool({"mkfs.fat"}),
                        SetLabel   |-> Tool({"fatlabel"}),
                        UpdateUUID |-> Core({})]
Fat12Online == {}
Fat12Runs == [check      |-> <<Cmd("fsck.fat", "check")>>,
              create     |-> <<Cmd("mkfs.fat", "format")>>,
              writeLabel |-> <<Cmd("fatlabel", "label")>>,
              updateUUID |-> <<Write("uuid")>>]
Fat16Init == Fat12Init ++ [Grow |-> Tool({"fatresize"}), Shrink |-> Tool({"fatresize"})]
Fat16Online == {}
Fat16Runs == [resize |-> <<Cmd("fatresize", "resize")>>] ++ Fat12Runs
Fat32Online == {}
Fat32Runs == [updateUUID |-> <<Write("uuid")>>] ++ Fat16Runs

\* The two implementations of the exFAT tools are told apart by mkexfatfs.
ExfatInit(found) ==
    Checked("fsck.exfat") ++
    [Create   |-> Tool(IF "mkexfatfs" \in found THEN {"mkexfatfs"} ELSE {"mkfs.exfat"}),
     Check    |-> Tool({"fsck.exfat"}),
     SetLabel |-> Tool(IF "mkexfatfs" \in found THEN {"exfatlabel"} ELSE {"tune.exfat"})]
ExfatOnline == {}
ExfatRuns(found) ==
    [check      |-> <<Cmd("fsck.exfat", "check")>>,
     create     |-> <<Cmd("mkfs.exfat", "format")>>,
     writeLabel |-> <<Cmd(IF "mkexfatfs" \in found THEN "exfatlabel" ELSE "tune.exfat", "label")>>]

BtrfsInit == Checked("btrfs") ++
             [Create     |-> Tool({"mkfs.btrfs"}),
              Check      |-> Tool({"btrfs"}),
              Grow       |-> Tool({"btrfs"}),
              Shrink     |-> Tool({"btrfs"}),
              SetLabel   |-> Tool({"btrfs"}),
              UpdateUUID |-> Tool({"btrfstune"})]
BtrfsOnline == {"Grow", "Shrink", "SetLabel"}
BtrfsRuns == [check            |-> <<Cmd("btrfs", "check")>>,
              create           |-> <<Cmd("mkfs.btrfs", "format")>>,
              resize           |-> Mounted(Cmd("mount", "mount"), Cmd("btrfs", "resize")),
              resizeOnline     |-> <<Cmd("btrfs", "resize")>>,
              writeLabel       |-> <<Cmd("btrfs", "label")>>,
              writeLabelOnline |-> <<Cmd("btrfs", "label")>>,
              updateUUID       |-> <<Cmd("btrfstune", "uuid")>>]

\* create() is given no label, and the class has no writeLabel().
BcachefsInit == Checked("bcachefs") ++
                [Create   |-> Tool({"bcachefs"}),
                 Check    |-> Tool({"bcachefs"}),
                 Grow     |-> Tool({"bcachefs"}),
                 SetLabel |-> Tool({"bcachefs"})]
BcachefsOnline == {"Grow", "Shrink", "SetLabel"}
BcachefsRuns == [check           |-> <<Cmd("bcachefs", "check")>>,
                 create          |-> <<Cmd("bcachefs", "format")>>,
                 createWithLabel |-> <<Cmd("bcachefs", "formatLabel")>>,
                 resize          |-> Mounted(Cmd("mount", "mount"), Cmd("bcachefs", "resize")),
                 resizeOnline    |-> <<Cmd("bcachefs", "resize")>>]

\* resize.f2fs is not told the length: it fills the device.
F2fsInit == Checked("fsck.f2fs") ++
            [Create   |-> Tool({"mkfs.f2fs"}),
             Check    |-> Tool({"fsck.f2fs"}),
             Grow     |-> Tool({"fsck.f2fs", "resize.f2fs"}),
             SetLabel |-> Tool({"f2fslabel"})]
F2fsOnline == {}
F2fsRuns == [check      |-> <<Cmd("fsck.f2fs", "check")>>,
             create     |-> <<Cmd("mkfs.f2fs", "format")>>,
             resize     |-> <<Cmd("resize.f2fs", "fill")>>,
             writeLabel |-> <<Cmd("f2fslabel", "label")>>]

HfsInit == Checked("hfsck") ++ [Create |-> Tool({"hformat"}), Check |-> Tool({"hfsck"})]
HfsOnline == {}
HfsRuns == [check  |-> <<Cmd("hfsck", "check")>>,
            create |-> <<Cmd("hformat", "format")>>]

HfsplusInit == Checked("fsck.hfsplus") ++
               [Create |-> Tool({"mkfs.hfsplus"}), Check |-> Tool({"fsck.hfsplus"})]
HfsplusOnline == {}
HfsplusRuns == [check  |-> <<Cmd("fsck.hfsplus", "check")>>,
                create |-> <<Cmd("mkfs.hfsplus", "format")>>]

\* The remount that resizes fills the device.  Nobody looks whether the mount worked.
JfsInit == Checked("fsck.jfs") ++
           [Create   |-> Tool({"mkfs.jfs"}),
            Check    |-> Tool({"fsck.jfs"}),
            Grow     |-> Tool({"fsck.jfs"}),
            SetLabel |-> Tool({"jfs_tune"})]
JfsOnline == {"Grow", "SetLabel"}
JfsRuns == [check            |-> <<Cmd("fsck.jfs", "check")>>,
            create           |-> <<Cmd("mkfs.jfs", "format")>>,
            resize           |-> Mounted(Lax("mount", "mount"), Cmd("mount", "fill")),
            resizeOnline     |-> <<Cmd("mount", "fill")>>,
            writeLabel       |-> <<Cmd("jfs_tune", "label")>>,
            writeLabelOnline |-> <<Cmd("jfs_tune", "label")>>]

\* A swap area is "resized" and "copied" by making it again with its label and UUID:
\* mkswap takes the length from the device.
LinuxswapInit == [Create |-> Tool({"mkswap"}), Grow |-> Tool({"mkswap"}), Shrink |-> Tool({"mkswap"}),
                  SetLabel |-> Tool({"mkswap"}), UpdateUUID |-> Tool({"mkswap"}),
                  Copy |-> Tool({}), Move |-> Core({})]
LinuxswapOnline == {}
LinuxswapRuns == [create     |-> <<Cmd("mkswap", "format")>>,
                  resize     |-> <<Cmd("mkswap", "fill")>>,
                  copy       |-> <<Cmd("mkswap", "fillCopy")>>,
                  writeLabel |-> <<Cmd("swaplabel", "label")>>,
                  updateUUID |-> <<Cmd("mkswap", "uuid")>>]

\* There is nothing on a FreeBSD swap partition to create or to resize.
FreebsdswapInit == [Create |-> Tool({"swapctl"}), Grow |-> Tool({}), Shrink |-> Tool({}),
                    Move |-> Core({})]
FreebsdswapOnline == {}
FreebsdswapRuns == [create |-> << >>]

MinixInit == Checked("fsck.minix") ++
             [Create |-> Tool({"mkfs.minix"}), Check |-> Tool({"fsck.minix"})]
MinixOnline == {}
MinixRuns == [check  |-> <<Cmd("fsck.minix", "check")>>,
              create |-> <<Cmd("mkfs.minix", "format")>>]

\* There is no check, but copies and moves do not wait for one.
Nilfs2Init == Blocks ++
              [Create     |-> Tool({"mkfs.nilfs2"}),
               Grow       |-> Tool({"nilfs-resize"}),
               Shrink     |-> Tool({"nilfs-resize", "nilfs-tune"}),
               SetLabel   |-> Tool({"nilfs-tune"}),
               UpdateUUID |-> Tool({"nilfs-tune"})]
Nilfs2Online == {"Grow", "Shrink"}
Nilfs2Runs == [check        |-> <<Cmd("fsck.nilfs2", "check")>>,
               create       |-> <<Cmd("mkfs.nilfs2", "format")>>,
               resize       |-> Mounted(Cmd("mount", "mount"), Cmd("nilfs-resize", "resize")),
               resizeOnline |-> <<Cmd("nilfs-resize", "resize")>>,
               writeLabel   |-> <<Cmd("nilfs-tune", "label")>>,
               updateUUID   |-> <<Cmd("nilfs-tune", "uuid")>>]

\* resize() tries it without writing first; the exit code of ntfslabel is not looked at;
\* the boot sector holds the start of the partition, and its copy lies at the end.
NtfsInit == [Create     |-> Tool({"mkfs.ntfs"}),
             Check      |-> Tool({"ntfsresize"}),
             Grow       |-> Tool({"ntfsresize"}),
             Shrink     |-> Tool({"ntfsresize"}),
             SetLabel   |-> Tool({"ntfslabel"}),
             Copy       |-> Tool({"ntfsclone"}),
             Move       |-> Core({"ntfsresize"}),
             Backup     |-> Core({}),
             UpdateUUID |-> Core({})]
NtfsOnline == {}
NtfsRuns == [check            |-> <<Cmd("ntfsresize", "check")>>,
             create           |-> <<Cmd("mkfs.ntfs", "format")>>,
             copy             |-> <<Cmd("ntfsclone", "copy")>>,
             resize           |-> <<Cmd("ntfsresize", "try"), Cmd("ntfsresize", "resize")>>,
             writeLabel       |-> <<Lax("ntfslabel", "label")>>,
             updateUUID       |-> <<Cmd("ntfslabel", "uuid")>>,
             updateBootSector |-> <<Write("boot"), Write("boot")>>]

Ocfs2Init == Checked("fsck.ocfs2") ++
             [Create     |-> Tool({"mkfs.ocfs2"}),
              Check      |-> Tool({"fsck.ocfs2"}),
              Grow       |-> Tool({"fsck.ocfs2", "tunefs.ocfs2", "debugfs.ocfs2"}),
              SetLabel   |-> Tool({"tunefs.ocfs2"}),
              UpdateUUID |-> Tool({"tunefs.ocfs2"})]
Ocfs2Online == {}
Ocfs2Runs == [check      |-> <<Cmd("fsck.ocfs2", "check")>>,
              create     |-> <<Cmd("mkfs.ocfs2", "format")>>,
              resize     |-> <<Cmd("debugfs.ocfs2", "try"), Cmd("tunefs.ocfs2", "resize")>>,
              writeLabel |-> <<Cmd("tunefs.ocfs2", "label")>>,
              updateUUID |-> <<Cmd("tunefs.ocfs2", "uuid")>>]

UdfInit == Blocks ++ [Create          |-> Tool({"mkudffs"}),
                      CreateWithLabel |-> Tool({"mkudffs"}),
                      SetLabel        |-> Tool({"udflabel"}),
                      UpdateUUID      |-> Tool({"udflabel"})]
UdfOnline == {}
UdfRuns == [create          |-> <<Cmd("mkudffs", "format")>>,
            createWithLabel |-> <<Cmd("mkudffs", "formatLabel")>>,
            writeLabel      |-> <<Cmd("udflabel", "label")>>,
            updateUUID      |-> <<Cmd("udflabel", "uuid")>>]

Reiser4Init == Checked("fsck.reiser4") ++
               [Create |-> Tool({"mkfs.reiser4"}), Check |-> Tool({"fsck.reiser4"})]
Reiser4Online == {}
Reiser4Runs == [check  |-> <<Cmd("fsck.reiser4", "check")>>,
                create |-> <<Cmd("mkfs.reiser4", "format")>>]

ReiserfsInit == Checked("fsck.reiserfs") ++
                [Create     |-> Tool({"mkfs.reiserfs"}),
                 Check      |-> Tool({"fsck.reiserfs"}),
                 Grow       |-> Tool({"resize_reiserfs"}),
                 Shrink     |-> Tool({"resize_reiserfs", "debugreiserfs"}),
                 SetLabel   |-> Tool({"reiserfstune"}),
                 UpdateUUID |-> Tool({"reiserfstune"})]
ReiserfsOnline == {"Grow"}
ReiserfsRuns == [check        |-> <<Cmd("fsck.reiserfs", "check")>>,
                 create       |-> <<Cmd("mkfs.reiserfs", "format")>>,
                 resize       |-> <<Cmd("resize_reiserfs", "resize")>>,
                 resizeOnline |-> <<Cmd("resize_reiserfs", "resize")>>,
                 writeLabel   |-> <<Cmd("reiserfstune", "label")>>,
                 updateUUID   |-> <<Cmd("reiserfstune", "uuid")>>]

\* xfs_growfs fills the device.  Nobody looks whether the mount worked.
XfsInit == [Create   |-> Tool({"mkfs.xfs"}),
            Check    |-> Tool({"xfs_repair"}),
            Grow     |-> Tool({"xfs_repair", "xfs_growfs"}),
            SetLabel |-> Tool({"xfs_db"}),
            Copy     |-> Tool({"xfs_copy"}),
            Move     |-> Core({"xfs_repair"}),
            Backup   |-> Core({})]
XfsOnline == {"Grow"}
XfsRuns == [check        |-> <<Cmd("xfs_repair", "check")>>,
            create       |-> <<Cmd("mkfs.xfs", "format")>>,
            copy         |-> <<Cmd("xfs_copy", "copy")>>,
            resize       |-> Mounted(Lax("mount", "mount"), Cmd("xfs_growfs", "fill")),
            resizeOnline |-> <<Cmd("xfs_growfs", "fill")>>,
            writeLabel   |-> <<Cmd("xfs_db", "label")>>]

\* A pool gets its label when it is imported again.
ZfsInit == [SetLabel |-> Tool({"zpool"}), Backup |-> Core({})]
ZfsOnline == {}
ZfsRuns == [writeLabel |-> <<Cmd("zpool", "export"), Cmd("zpool", "import")>>]

\* Types that are only told apart from others.
ApfsInit        == Blocks
BitlockerInit   == Blocks
UfsInit         == Blocks
UnknownInit     == [Copy |-> Core({}), Move |-> Core({})]
UnformattedInit == [Create |-> Tool({})]
UnformattedRuns == [create |-> << >>]
\* hpfs, iso9660 and linuxraidmember support nothing.
HpfsInit        == << >>

--------------------------------------------------------------------------------
(* FileSystemFactory's map from types to classes.                          *)

Inits(found) ==
    [ext2 |-> Ext2Init, ext3 |-> Ext2Init, ext4 |-> Ext2Init, fat12 |-> Fat12Init,
     fat16 |-> Fat16Init, fat32 |-> Fat16Init, exfat |-> ExfatInit(found), btrfs |-> BtrfsInit,
     bcachefs |-> BcachefsInit, f2fs |-> F2fsInit, hfs |-> HfsInit, hfsplus |-> HfsplusInit,
     jfs |-> JfsInit, linuxswap |-> LinuxswapInit, freebsdswap |-> FreebsdswapInit,
     minix |-> MinixInit, nilfs2 |-> Nilfs2Init, ntfs |-> NtfsInit, ocfs2 |-> Ocfs2Init,
     udf |-> UdfInit, reiser4 |-> Reiser4Init, reiserfs |-> ReiserfsInit, xfs |-> XfsInit,
     zfs |-> ZfsInit, apfs |-> ApfsInit, bitlocker |-> BitlockerInit, ufs |-> UfsInit,
     unknown |-> UnknownInit, unformatted |-> UnformattedInit, hpfs |-> HpfsInit,
     iso9660 |-> HpfsInit, linuxraidmember |-> HpfsInit]

Types == DOMAIN Inits({})

Onlines ==
    [ext2 |-> Ext2Online, ext3 |-> Ext3Online, ext4 |-> Ext4Online, fat12 |-> Fat12Online,
     fat16 |-> Fat16Online, fat32 |-> Fat32Online, exfat |-> ExfatOnline, btrfs |-> BtrfsOnline,
     bcachefs |-> BcachefsOnline, f2fs |-> F2fsOnline, hfs |-> HfsOnline,
     hfsplus |-> HfsplusOnline, jfs |-> JfsOnline, linuxswap |-> LinuxswapOnline,
     freebsdswap |-> FreebsdswapOnline, minix |-> MinixOnline, nilfs2 |-> Nilfs2Online,
     ntfs |-> NtfsOnline, ocfs2 |-> Ocfs2Online, udf |-> UdfOnline, reiser4 |-> Reiser4Online,
     reiserfs |-> ReiserfsOnline, xfs |-> XfsOnline, zfs |-> ZfsOnline]

Runs(found) ==
    [ext2 |-> Ext2Runs, ext3 |-> Ext3Runs, ext4 |-> Ext4Runs, fat12 |-> Fat12Runs,
     fat16 |-> Fat16Runs, fat32 |-> Fat32Runs, exfat |-> ExfatRuns(found), btrfs |-> BtrfsRuns,
     bcachefs |-> BcachefsRuns, f2fs |-> F2fsRuns, hfs |-> HfsRuns, hfsplus |-> HfsplusRuns,
     jfs |-> JfsRuns, linuxswap |-> LinuxswapRuns, freebsdswap |-> FreebsdswapRuns,
     minix |-> MinixRuns, nilfs2 |-> Nilfs2Runs, ntfs |-> NtfsRuns, ocfs2 |-> Ocfs2Runs,
     udf |-> UdfRuns, reiser4 |-> Reiser4Runs, reiserfs |-> ReiserfsRuns, xfs |-> XfsRuns,
     zfs |-> ZfsRuns, unformatted |-> UnformattedRuns]

\* CommandSupportType: "tool", "core" or "none".
Support(found, type, operation) ==
    LET init == Inits(found)[type]
    IN  IF operation \in DOMAIN init /\ init[operation].needs \subseteq found
        THEN init[operation].by ELSE "none"

SupportOnline(found, type, operation) ==
    IF type \in DOMAIN Onlines /\ operation \in Onlines[type]
    THEN Support(found, type, operation) ELSE "none"

\* A method that the class does not override does nothing and returns true.
Steps(found, type, method) ==
    IF type \in DOMAIN Runs(found) /\ method \in DOMAIN Runs(found)[type]
    THEN Runs(found)[type][method] ELSE << >>

\* The commands that init() looks for.
Sought(type) == UNION {Inits(tools)[type][operation].needs :
                          operation \in DOMAIN Inits({})[type], tools \in {{}, {"mkexfatfs"}}}
==============================================================================
