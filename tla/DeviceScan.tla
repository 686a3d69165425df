----------------------------- MODULE DeviceScan -----------------------------
(***************************************************************************)
(* The device scanner: it clears the operation stack and the device list,  *)
(* has the sfdisk backend scan disks, software RAID arrays and volume      *)
(* groups, and adds what was found to the list, step by step, while disks  *)
(* and arrays come and go and commands fail.  Mount points come from the   *)
(* mounted volumes and from /etc/fstab.                                    *)
(***************************************************************************)
EXTENDS Fstab, Smart, FiniteSetsExt

CONSTANTS Disks, Arrays, Groups,  \* names of disks, of arrays, of volume groups
          Configured,             \* the arrays that mdadm.conf names
          NoTable,                \* a device without a partition table
          Contents,               \* what may be on a disk, see below
          ArrayContent,           \* what is on an array
          Rank,                   \* the order of the devices' names
          TotalSectors, Alignment,
          GptTail,                \* sectors of the second header of a GPT
          MaxScans, MaxChanges    \* bounds

(* What is on a device: [table, parts, whole, readOnly, smart]; "table" is  *)
(* what sfdisk calls the partition table, or NoTable if sfdisk fails, parts *)
(* lists its entries by number, "whole" is the type of a file system on the *)
(* whole device, and "smart" what smartctl answers.  An entry is [first,    *)
(* last, extended, type, on], "on" for what a LUKS container is mapped to   *)
(* or the volume group a physical volume is in, or NoPoint.                 *)

ASSUME ScanAssumption ==
    /\ Configured \subseteq Arrays /\ Cardinality(Disks \cup Arrays \cup Groups) =
                                      Cardinality(Disks) + Cardinality(Arrays) + Cardinality(Groups)
    /\ IsFiniteSet(Disks \cup Arrays \cup Groups)
    /\ TotalSectors \in Nat /\ Alignment \in Nat \ {0} /\ GptTail \in Nat
    /\ MaxScans \in Nat /\ MaxChanges \in Nat
    /\ \A c \in Contents : c.smart = NoAnswer \/ Answer(c.smart)

VARIABLES disk,     \* what is on each disk there is
          running,  \* array -> "stopped", "inactive", "active" or "resync"
          mounted,  \* the nodes of the mounted partitions
          list,     \* previewDevices()
          stack,    \* the pending operations, each as the device object it works on, see Object
          scan,     \* the scanner's thread
          changes   \* bound: disks and arrays that came or went

world    == <<disk, running, mounted, changes>>
scanVars == <<disk, running, mounted, list, stack, scan, changes>>

\* The node a device file belongs to: mapper nodes of LUKS containers exist while they are open.
Node(device, i)        == <<device, i>>
MountNode(node, entry) == IF entry.type # "Luks" THEN {node} ELSE {entry.on} \ {NoPoint}

--------------------------------------------------------------------------------
(* The sfdisk backend: one device                                          *)

\* blkid's output has no version of a FAT or a LUKS, without which neither has a type.
fileSystemNameToType(type, tool) == IF tool = "blkid" /\ type \in {"Fat32", "Luks"} THEN "Unknown" ELSE type

\* The commands that the helper may run, of which some answer.
AllTools == {"blockdev", "udev", "blkid", "smartctl"}

\* detectFileSystem(): udev first, then blkid.
detectFileSystem(type, tools) ==
    IF "udev" \in tools /\ type # "Unknown" THEN fileSystemNameToType(type, "udev")
    ELSE IF "blkid" \in tools THEN fileSystemNameToType(type, "blkid") ELSE "Unknown"

\* A physical volume counts as mounted, on its volume group, while it is in one.
detectMountStatus(node, entry) ==
    IF entry.type = "Lvm2_PV" THEN entry.on # NoPoint ELSE MountNode(node, entry) \cap mounted # {}

\* A container that is open is looked up in fstab by the node of its mapping.
detectMountPoint(node, entry) ==
    IF entry.type = "Lvm2_PV" THEN entry.on
    ELSE IF MountNode(node, entry) = {} THEN NoPoint
    ELSE LET looked == CHOOSE n \in MountNode(node, entry) : TRUE
             points == possibleMountPoints(looked)
         IN  IF detectMountStatus(node, entry) THEN looked
             ELSE IF points = <<>> THEN NoPoint ELSE Head(points)

Partition(node, parent, role, type, entry) ==
    [node |-> node, parent |-> parent, role |-> role, type |-> type, first |-> entry.first, last |-> entry.last,
     mounted |-> detectMountStatus(node, entry), point |-> detectMountPoint(node, entry)]

\* scanPartition(): the parent is the extended partition that was found around the first sector.
scanPartition(table, tools, node, parts, entry) ==
    LET extended == table = "msdos" /\ entry.extended
        around   == {p \in Range(parts) : p.role = "Extended" /\ entry.first \in p.first .. p.last}
        type     == IF extended THEN "Extended" ELSE detectFileSystem(entry.type, tools)
    IN  Partition(node, {p.node : p \in around},
                  IF around # {} THEN "Logical" ELSE IF extended THEN "Extended" ELSE "Primary", type, entry)

\* scanDevicePartitions(), the partitions in the order of their entries.
scanDevicePartitions(device, on, tools) ==
    FoldLeft(LAMBDA parts, i :
                 Append(parts, scanPartition(on.table, tools, Node(device, i), parts, on.parts[i])),
             <<>>, [i \in DOMAIN on.parts |-> i])

\* setType() gives a scanned table the default limits of its type, gpt or not.
defaultFirstUsable(class)       == IF class = "disk" THEN Alignment ELSE 0
defaultLastUsable(table, total) == total - 1 - IF table = "gpt" THEN GptTail ELSE 0

\* The maximum number of entries is to be read from the header of a GPT, but the helper's
\* ReadData() refuses every device: only nodes of /dev/ may be read, and only those of /dev/shm/.
ReadData(node) == <<>>
maxPrimaries(device, table) ==
    IF table = "gpt" THEN IF ReadData(device) # <<>> THEN Head(ReadData(device)) ELSE 128 ELSE 4

updateDevicePartitionTable(device, class, on, tools, total) ==
    [type |-> on.table, first |-> defaultFirstUsable(class), last |-> defaultLastUsable(on.table, total),
     max |-> maxPrimaries(device, on.table), parts |-> scanDevicePartitions(device, on, tools)]

\* scanWholeDevicePartition(): one partition over the whole device, or no table when nothing is on it.
scanWholeDevicePartition(device, on, tools, total) ==
    LET entry == [first |-> 0, last |-> total - 1, extended |-> FALSE, type |-> on.whole, on |-> NoPoint]
        p     == scanPartition("none", tools, Node(device, 0), <<>>, entry)
    IN  IF p.type = "Unknown" THEN NoTable
        ELSE [type |-> "none", first |-> 0, last |-> total - 1, max |-> 1, parts |-> <<p>>]

\* Only a disk has a SmartStatus; its constructor asks smartctl.
Device(node, class, status, table, volumes) ==
    [gen |-> scan.count, node |-> node, class |-> class, status |-> status, table |-> table,
     volumes |-> volumes, smart |-> NoStatus]
DiskDevice(node, table, answer)   == [Device(node, "disk", "Active", table, {}) EXCEPT !.smart = update(NoStatus, answer)]
SoftwareRAID(node, status, table) == Device(node, "raid", status, table, {})
LvmDevice(group, volumes)         == Device(group, "lvm", "Active", NoTable, volumes)

\* A boot sector of FAT looks like a table of type msdos: the whole device is tried first.
TableOf(device, class, on, tools, total) ==
    LET whole == scanWholeDevicePartition(device, on, tools, total)
    IN  IF on.table = NoTable \/ (on.table = "msdos" /\ whole # NoTable) THEN whole
        ELSE updateDevicePartitionTable(device, class, on, tools, total)

Present(node) == node \in DOMAIN disk \/ (node \in Arrays /\ running[node] # "stopped")
Blank == [table |-> NoTable, parts |-> <<>>, whole |-> "Unknown", readOnly |-> FALSE, smart |-> NoAnswer]
On(node) == IF node \in DOMAIN disk THEN disk[node] ELSE IF running[node] = "inactive" THEN Blank ELSE ArrayContent

\* What mdadm tells about an array: without an answer size and chunk size are -1, one sector in all.
getTotalChunk(detail) == IF detail THEN TotalSectors ELSE 1
getRaidLevel(detail)  == IF detail THEN 1 ELSE -1

\* The UUID of an array, from mdadm or from its configuration; NoTable if neither has it.
getUUID(array, detail) == IF detail \/ array \in Configured THEN array ELSE NoTable

\* What smartctl says of a disk, if it is there and the helper runs it.
smartctl(node, runs) == IF runs /\ node \in DOMAIN disk THEN disk[node].smart ELSE NoAnswer

\* scanDevice() as the set of the devices it returns, one or none: blockdev must answer.
ScannedDisk(node, tools) ==
    IF ~Present(node) \/ "blockdev" \notin tools THEN {}
    ELSE {DiskDevice(node, TableOf(node, "disk", On(node), tools, TotalSectors), smartctl(node, "smartctl" \in tools))}
ScannedArray(array, detail) ==
    IF ~Present(array) THEN {}
    ELSE {SoftwareRAID(array, "Active", TableOf(array, "raid", On(array), AllTools, getTotalChunk(detail)))}

\* getPVs(): the partitions of the scanned devices that are physical volumes of a group.
getPVs(devices, group) ==
    UNION {{p.node : p \in {q \in Range(d.table.parts) : q.type \in {"Lvm2_PV", "Luks"} /\ q.point = group}} :
               d \in {e \in Range(devices) : e.table # NoTable}}

--------------------------------------------------------------------------------
(* Unallocated space of a scanned table                                    *)

\* (mutant) The children stay in the order of their numbers.
ChildrenByNumber(table, parent) == SelectSeq(table.parts, LAMBDA p : p.parent = parent)

\* append() sorts the children, of a table or of an extended partition, by their first sectors.
Children(table, parent) ==
    SortSeq(SelectSeq(table.parts, LAMBDA p : p.parent = parent), LAMBDA a, b : a.first < b.first)

Stretch(f, l) == [first |-> f, last |-> l]

\* insertUnallocated(): from the end of the child before to the start of each child.
Gaps(kids, start, end) ==
    LET LastEnd(i) == IF i = 1 THEN start ELSE kids[i - 1].last + 1
    IN  {Stretch(LastEnd(i), kids[i].first - 1) : i \in DOMAIN kids} \cup {Stretch(LastEnd(Len(kids) + 1), end)}

\* getUnallocatedRange() on a disk, with room for metadata in an extended partition.
OfDisk(table, extended, g) ==
    LET r == IF extended = {} THEN g
             ELSE Stretch(g.first + Alignment, IF \A p \in extended : g.last < p.last THEN g.last - Alignment ELSE g.last)
    IN  IF r.last - r.first + 1 >= Alignment THEN {r} ELSE {}

\* The unallocated partitions in the table and in its extended partition.
Unallocated(d) ==
    LET Extended == {p \in Range(d.table.parts) : p.role = "Extended"}
        Within(g, e) == IF d.class = "disk" THEN OfDisk(d.table, e, g) ELSE IF g.first <= g.last THEN {g} ELSE {}
    IN  UNION {Within(g, {}) : g \in Gaps(Children(d.table, {}), d.table.first, d.table.last)}
        \cup UNION {UNION {Within(g, {p}) : g \in Gaps(Children(d.table, {p.node}), p.first, p.last)} : p \in Extended}

--------------------------------------------------------------------------------
(* The scanner                                                             *)

\* A set of names in their order.
Names(set) == [i \in 1 .. Cardinality(set) |->
                  CHOOSE x \in set : Cardinality({y \in set : Rank[y] < Rank[x]}) = i - 1]

Idle == [phase |-> "idle", count |-> 0, todo |-> <<>>, mdstat |-> <<>>, conf |-> {}, found |-> <<>>,
         sorted |-> 0, sure |-> TRUE]

ScanInit == /\ disk \in [Disks -> Contents]
            /\ running \in [Arrays -> {"stopped", "active"}]
            /\ mounted \in SUBSET {Node(d, 1) : d \in Disks}
            /\ list = <<>> /\ stack = <<>> /\ scan = Idle /\ changes = 0

Start == /\ scan.phase = "idle" /\ scan.count < MaxScans
         /\ scan' = [Idle EXCEPT !.phase = "operations", !.count = scan.count + 1]
         /\ UNCHANGED <<world, list, stack>>

\* (mutant) Only the list of devices is cleared.
ClearOperationsLater == /\ scan.phase = "operations" /\ UNCHANGED <<world, list, stack>>
                        /\ scan' = [scan EXCEPT !.phase = "devices"]

\* clear(): first the operations, which refer to the devices, ...
ClearOperations == /\ scan.phase = "operations" /\ stack' = <<>>
                   /\ scan' = [scan EXCEPT !.phase = "devices"]
                   /\ UNCHANGED <<world, list>>

\* ... then the devices.
ClearDevices == /\ scan.phase = "devices" /\ list' = <<>>
                /\ scan' = [scan EXCEPT !.phase = "nodes"]
                /\ UNCHANGED <<world, stack>>

\* scanDevices(): the disks by name, without the read-only ones; none if lsblk fails.
ListNodes == /\ scan.phase = "nodes"
             /\ \E answers \in BOOLEAN :
                    scan' = [scan EXCEPT !.phase = "disks", !.sure = @ /\ answers,
                                         !.todo = IF answers THEN Names({d \in DOMAIN disk : ~disk[d].readOnly}) ELSE <<>>]
             /\ UNCHANGED <<world, list, stack>>

ScanDisk == /\ scan.phase = "disks" /\ scan.todo # <<>>
            /\ \E tools \in {AllTools, AllTools \ {"udev"}, {"blockdev"}, {}} :
                   scan' = [scan EXCEPT !.todo = Tail(@), !.found = @ \o SetToSeq(ScannedDisk(Head(scan.todo), tools)),
                                        !.sure = @ /\ {"blockdev", "udev"} \subseteq tools]
            /\ UNCHANGED <<world, list, stack>>

\* scanSoftwareRAID(): mdadm.conf and /proc/mdstat are read once.
ReadArrays == /\ scan.phase = "disks" /\ scan.todo = <<>>
              /\ scan' = [scan EXCEPT !.phase = "arrays", !.conf = Configured, !.mdstat = running,
                                      !.todo = Names({a \in Arrays : running[a] # "stopped"})]
              /\ UNCHANGED <<world, list, stack>>

\* The RAID level is known when mdadm answers, and a rebuild is only looked for when there is one.
Status(state, level) ==
    IF state = "resync" /\ level > 0 THEN "Resync" ELSE IF state = "inactive" THEN "Inactive" ELSE "Active"

\* (mutant) An array that runs and that is configured stays on the list of the configured ones.
ScanArrayTwice ==
    /\ scan.phase = "arrays" /\ scan.todo # <<>>
    /\ \E detail \in BOOLEAN :
           scan' = [scan EXCEPT
               !.todo = Tail(@),
               !.found = @ \o SetToSeq({[d EXCEPT !.status = Status(scan.mdstat[Head(scan.todo)], getRaidLevel(detail))] :
                                           d \in ScannedArray(Head(scan.todo), detail)})]
    /\ UNCHANGED <<world, list, stack>>

\* What was scanned is no longer looked for among the configured arrays, which mdadm is asked for
\* once more.
ScanArray ==
    /\ scan.phase = "arrays" /\ scan.todo # <<>>
    /\ \E detail, again \in BOOLEAN :
           LET array   == Head(scan.todo)
               scanned == {[d EXCEPT !.status = Status(scan.mdstat[array], getRaidLevel(detail))] :
                              d \in ScannedArray(array, detail)}
           IN  scan' = [scan EXCEPT
                   !.todo = Tail(@), !.found = @ \o SetToSeq(scanned),
                   !.conf = IF scanned = {} THEN @
                            ELSE {a \in @ : getUUID(a, again) # getUUID(array, detail)}]
    /\ UNCHANGED <<world, list, stack>>

\* The other configured arrays are listed as inactive; then the volume groups.
ListOthers ==
    /\ scan.phase = "arrays" /\ scan.todo = <<>>
    /\ LET others == Names(scan.conf)  groups == Names(Groups)
       IN  scan' = [scan EXCEPT !.phase = "add",
               !.found = @ \o [i \in DOMAIN others |-> SoftwareRAID(others[i], "Inactive", NoTable)]
                           \o [i \in DOMAIN groups |-> LvmDevice(groups[i], getPVs(scan.found, groups[i]))]]
    /\ UNCHANGED <<world, list, stack>>

AddDevice == /\ scan.phase = "add" /\ scan.found # <<>>
             /\ list' = Append(list, Head(scan.found))
             /\ scan' = [scan EXCEPT !.found = Tail(@)]
             /\ UNCHANGED <<world, stack>>

deviceLessThan(a, b) == ~(a.class = "lvm" /\ b.class = "disk") /\ Rank[a.node] <= Rank[b.node]

\* std::sort() on a short list inserts each element: in front of all, or behind the last that is not greater.
Insert(sorted, d) ==
    LET behind == IF sorted = <<>> \/ deviceLessThan(d, Head(sorted)) THEN 0
                  ELSE Max({0} \cup {i \in DOMAIN sorted : ~deviceLessThan(d, sorted[i])})
    IN  SubSeq(sorted, 1, behind) \o <<d>> \o SubSeq(sorted, behind + 1, Len(sorted))

\* The list is locked until it is sorted: no one sees the steps.
BeginSort == /\ scan.phase = "add" /\ scan.found = <<>>
             /\ scan' = [scan EXCEPT !.phase = "sort"]
             /\ UNCHANGED <<world, list, stack>>

SortDevices ==
    /\ scan.phase = "sort"
    /\ IF scan.sorted = Len(list) THEN scan' = [scan EXCEPT !.phase = "idle"] /\ UNCHANGED list
       ELSE LET n == scan.sorted
            IN  /\ list' = Insert(SubSeq(list, 1, n), list[n + 1]) \o SubSeq(list, n + 2, Len(list))
                /\ scan' = [scan EXCEPT !.sorted = n + 1]
    /\ UNCHANGED <<world, stack>>

Scanner == \/ ClearOperations \/ ClearDevices \/ ListNodes \/ ScanDisk \/ ReadArrays
           \/ ScanArray \/ ListOthers \/ AddDevice \/ BeginSort \/ SortDevices

--------------------------------------------------------------------------------
(* The others                                                              *)

\* The first device of the list that has the partition.
Has(d, node) == d.table # NoTable /\ \E p \in Range(d.table.parts) : p.node = node
findDeviceForPartition(node) ==
    LET having == {i \in DOMAIN list : Has(list[i], node)}
    IN  list[CHOOSE i \in having : \A j \in having : i <= j]

Object(d) == <<d.gen, d.node>>

\* A front end waits until the scan is over before it lets the user push an operation.
Push == /\ scan.phase = "idle" /\ stack = <<>>
        /\ \E d \in Range(list) : /\ d.table # NoTable
                                  /\ \E p \in Range(d.table.parts) :
                                         stack' = <<Object(findDeviceForPartition(p.node))>>
        /\ UNCHANGED <<world, list, scan>>

\* A front end has the SMART status of a disk of the list updated.
Refresh == /\ scan.phase = "idle"
           /\ \E i \in DOMAIN list, runs \in BOOLEAN :
                  /\ list[i].class = "disk"
                  /\ list' = [list EXCEPT ![i].smart = update(@, smartctl(list[i].node, runs))]
           /\ UNCHANGED <<world, stack, scan>>

Changed == changes < MaxChanges /\ changes' = changes + 1 /\ scan' = [scan EXCEPT !.sure = FALSE]

Unplug == /\ Changed
          /\ \E d \in DOMAIN disk : disk' = [e \in DOMAIN disk \ {d} |-> disk[e]]
          /\ UNCHANGED <<running, mounted, list, stack>>

\* What SMART says of a disk changes.
Wear == /\ Changed
        /\ \E d \in DOMAIN disk, c \in Contents : /\ disk[d] # c /\ [disk[d] EXCEPT !.smart = c.smart] = c
                                                /\ disk' = [disk EXCEPT ![d] = c]
        /\ UNCHANGED <<running, mounted, list, stack>>

\* assembleSoftwareRAID(), stopSoftwareRAID(), or another program.
Assemble == /\ Changed
            /\ \E a \in Arrays : /\ running[a] = "stopped"
                                 /\ \E s \in {"inactive", "active", "resync"} : running' = [running EXCEPT ![a] = s]
            /\ UNCHANGED <<disk, mounted, list, stack>>
Stop == /\ Changed
        /\ \E a \in Arrays : running[a] # "stopped" /\ running' = [running EXCEPT ![a] = "stopped"]
        /\ UNCHANGED <<disk, mounted, list, stack>>

ScanNext == Start \/ Scanner \/ Push \/ Refresh \/ Unplug \/ Wear \/ Assemble \/ Stop

--------------------------------------------------------------------------------
(* Properties                                                              *)

\* A pending operation works on a device of the list: the scanner deletes the operations before it
\* deletes the devices that they would be undone on.
OperationsLive == \A i \in DOMAIN stack : \E d \in Range(list) : stack[i] = Object(d)

(* The SMART status of each disk of the list, after the scan and after updates that smartctl       *)
(* answered or did not: what is shown as the verdict on the disk agrees with the attributes shown. *)
SmartTells == \A d \in Range(list) : VerdictMatchesTable(d.smart)

Shows(node, status) == Cardinality({i \in DOMAIN list : list[i].node = node /\ list[i].status \in status}) = 1

\* Whatever comes and goes, and whoever answers, between the reads of a scan: nothing is listed twice.
ListedOnce == \A i, j \in DOMAIN list : i # j => list[i].node # list[j].node

\* When nothing came or went since the scan began and lsblk, blockdev and udev answered, the list
\* has each disk, array and volume group once, an array is shown as running if and only if it is,
\* and a volume group has the physical volumes that are on the disks.
ListIsComplete ==
    scan.phase = "idle" /\ scan.count > 0 /\ scan.sure =>
        /\ \A d \in DOMAIN disk : ~disk[d].readOnly => Shows(d, {"Active"})
        /\ \A a \in Arrays :
               IF running[a] \in {"active", "resync"} THEN Shows(a, {"Active", "Resync"})
               ELSE running[a] = "inactive" \/ a \in Configured => Shows(a, {"Inactive"})
        /\ \A g \in Groups : Shows(g, {"Active"})
        /\ \A d \in Range(list) : d.class = "lvm" =>
               d.volumes = UNION {{Node(e, i) : i \in {k \in DOMAIN disk[e].parts : disk[e].parts[k].on = d.node}} :
                                      e \in {f \in DOMAIN disk : ~disk[f].readOnly}}

\* The list of devices is what there is, each once (scanDevices(), scanSoftwareRAID()).
ListIsWorld == ListedOnce /\ ListIsComplete

\* The unallocated space of a scanned table is "the free space between the end of the last child
\* and the end of the device or the extended partition" and in front of each child.
FreeIsFree ==
    \A d \in Range(list) : d.table # NoTable /\ d.table.type # "none" =>
        \A u \in Unallocated(d), p \in Range(d.table.parts) :
            p.role # "Extended" => u.last < p.first \/ p.last < u.first

\* A scanned table has the entries of the disk, the logical ones in the extended partition they
\* lie in and no other one in any, and the unallocated space takes nothing from a partition.
TreeIsTable ==
    /\ \A d \in Range(list) : d.class = "disk" /\ d.table # NoTable /\ d.table.type # "none" /\ d.node \in DOMAIN disk =>
           /\ {<<p.first, p.last>> : p \in Range(d.table.parts)} =
              {<<e.first, e.last>> : e \in Range(disk[d.node].parts)}
           /\ \A p \in Range(d.table.parts) :
                  LET holder == {q \in Range(d.table.parts) : q.role = "Extended" /\ p # q
                                                              /\ p.first \in q.first .. q.last}
                  IN  /\ p.parent = {q.node : q \in holder}
                      /\ p.role = "Logical" <=> holder # {}
    /\ FreeIsFree
==============================================================================
