-------------------------------- MODULE Files -------------------------------
(***************************************************************************)
(* The file system: the partition table (kernel/disk/partTable.cpp), the   *)
(* mount points and paths (vfs.cpp), ext2 (ext2.cpp), and what loadTask    *)
(* does with them, on top of the disk that DiskReads promises.             *)
(*                                                                         *)
(* The results of diskRead are not looked at: after a failed read the      *)
(* program goes on with what the memory of its buffer held, which may be   *)
(* anything.  It then reads from other places, makes Nodes of what it      *)
(* finds, stays in a loop for ever, ends with a page fault or stops the    *)
(* kernel.                                                                 *)
(*                                                                         *)
(* A block is a sequence of pointers, or of items of data.  An item is a   *)
(* directory entry; the words of a file are items that look like unused    *)
(* entries.  A path is the sequence of its components.                     *)
(***************************************************************************)
EXTENDS Integers, Sequences, FiniteSets, SequencesExt

CONSTANTS
    Readers,        \* who loads files: boot(), the main loop, the tasks in run
    Boot,           \* the reader that mounts the partitions
    Disk,           \* what is on the disk: [mbr, table, vol]
    Paths,          \* the paths that are loaded
    NDirect,        \* the direct blocks of an inode (12 in the code)
    Wrap,           \* the blocks that 32 bits of bytes address
    GroupWrap,      \* the groups that 16 bits count
    Junk,           \* what new memory may hold, for each kind of buffer
    MaxNodes,       \* the Nodes that the kernel's memory has room for
    MaxFaults       \* bound: how many reads fail

ASSUME FilesAssumption ==
    /\ Boot \in Readers
    /\ {NDirect, Wrap, GroupWrap, MaxNodes} \subseteq Nat \ {0}
    /\ Paths \subseteq Seq(STRING)
    /\ MaxFaults \in Nat

VARIABLES
    asked, answer, driveErr,    \* the interface of DiskReads
    nodes,          \* the Nodes in memory; node Root is VFS::root
    task,           \* the locals of each reader
    cpu,            \* "run" or "halt"
    faults,         \* how many reads have failed
    mountFault,     \* history: a read failed while the partitions were mounted
    fault           \* history: the readers for whom one failed in their last load

disk == <<asked, answer, driveErr>>
history == <<faults, mountFault, fault>>
vars == <<disk, nodes, task, cpu, history>>

Root == 0
Null == -1

\* NodeEXT2Type
NODE_UNKNOWN   == 0
NODE_DIRECTORY == 1
NODE_FILE      == 2
NODE_ROOT      == 3

EXT2_ROOT_INUM == 2

-----------------------------------------------------------------------------
(***************************************************************************)
(* What is read.  Any place can be read as any kind.                       *)
(***************************************************************************)
Request(what, part, at, index) == [what |-> what, part |-> part, at |-> at, index |-> index]

NoInode == [mode |-> 0, size |-> 0, block |-> [i \in 1 .. NDirect + 3 |-> 0]]

BadSb == [magic |-> FALSE, blocks |-> 0, inodes |-> 0, blocksPerGroup |-> 0,
          inodesPerGroup |-> 0, incompat |-> {}]

EmptySb == [BadSb EXCEPT !.magic = TRUE]

Content(r) ==
    CASE r.what = "mbr"   -> Disk.mbr
      [] r.what = "entry" -> Disk.table[r.at]
      [] r.what = "sb"    -> Disk.vol[r.part].sb
      [] r.what = "gd"    -> SubSeq(Disk.vol[r.part].gd, 1, r.at)
      [] r.what = "inode" ->
           IF <<r.at, r.index>> \in DOMAIN Disk.vol[r.part].inodes
           THEN Disk.vol[r.part].inodes[r.at, r.index] ELSE NoInode
      [] r.what = "data"  ->
           IF r.at \in DOMAIN Disk.vol[r.part].data THEN Disk.vol[r.part].data[r.at]
           ELSE <<>>
      [] r.what = "pointers" ->
           IF r.at \in DOMAIN Disk.vol[r.part].pointers THEN Disk.vol[r.part].pointers[r.at]
           ELSE <<>>

\* What a buffer holds, under the name of its kind.
Buffer(what, c) == [w \in {what} |-> c]

OnDisk(r) == Buffer(r.what, Content(r))

\* What the buffer holds when nothing was read into it.
Leftovers(r) == Junk[r.what]

Reads == INSTANCE DiskReads WITH Bytes <- OnDisk

Locals ==
    [pc |-> "idle", want |-> Reads!Nothing, buf |-> Buffer("none", 0),   \* the request and its buffer
     i |-> 0, table |-> <<>>, sb |-> BadSb, gd |-> <<>>,    \* mountAll
     goal |-> <<>>, path |-> <<>>, current |-> Root,        \* resolvePath
     todo |-> <<>>, data |-> <<>>,                          \* ext2ReadFile
     node |-> Null]                                         \* what it returned

Init ==
    /\ Reads!DiskInit
    /\ nodes = [n \in {Root} |-> [name |-> "", parent |-> Root, hd |-> Reads!Nothing, inode |-> NoInode,
                                type |-> NODE_UNKNOWN, childs |-> <<>>]]
    /\ task = [t \in Readers |->
                 IF t = Boot THEN [Locals EXCEPT !.pc = "mbr", !.want = Request("mbr", 1, 0, 0)]
                 ELSE Locals]
    /\ cpu = "run"
    /\ faults = 0 /\ mountFault = FALSE /\ fault = {}

-----------------------------------------------------------------------------
(***************************************************************************)
(* diskRead.                                                               *)
(***************************************************************************)
Ask(t) ==
    /\ task[t].want # Reads!Nothing
    /\ Reads!Ask(t, task[t].want)
    /\ UNCHANGED <<nodes, task, history>>

Mounting(t) == task[t].pc \in {"mbr", "entry", "sb", "gd", "root"}

Failing(t) ==
    /\ faults < MaxFaults
    /\ faults' = faults + 1
    /\ mountFault' = (mountFault \/ Mounting(t))
    /\ fault' = fault \cup {t}

\* t goes on with what a failed read left: in its buffers, or in the disk and the
\* Node of a volume.
Spoilt(t) == mountFault \/ t \in fault

\* The drive reports an error, which the driver does not see.
DriveError(t) ==
    /\ Reads!DriveError(t)
    /\ Failing(t)
    /\ UNCHANGED <<nodes, task>>

Filled(t, c) == task' = [task EXCEPT ![t].buf = Buffer(asked[t].what, c), ![t].want = Reads!Nothing]

\* diskRead returns.
Reply(t) ==
    /\ asked[t] # Reads!Nothing
    /\ \E c \in {Content(asked[t])} \cup (IF t \in driveErr THEN Leftovers(asked[t]) ELSE {}) :
          Reads!Answer(t, Reads!Success(Buffer(asked[t].what, c))) /\ Filled(t, c)
    /\ UNCHANGED <<nodes, history>>

\* diskRead fails, and nobody looks; or it reads another place than the one that is
\* meant, because the place was computed from what an earlier failed read left.
ReplyFailure(t) ==
    /\ \/ Reads!Answer(t, Reads!Failure)
       \/ Spoilt(t) /\ Reads!Answer(t, Reads!Success(OnDisk(asked[t])))
    /\ \E c \in Leftovers(asked[t]) : Filled(t, c)
    /\ Failing(t)
    /\ UNCHANGED nodes

\* t has executed everything up to pc, and its buffer is filled.
At(t, pc) == task[t].pc = pc /\ task[t].want = Reads!Nothing

Silent == UNCHANGED <<disk, history>>

-----------------------------------------------------------------------------
(***************************************************************************)
(* PartTable::mountAll, VFS::mount and FilesystemEXT2::mount.              *)
(***************************************************************************)
NParts == 4

Ext2Types == {"LINUX", "FAT32"}

\* mountAll goes on with the first partition after i that is worth a try.
NextPart(t, table, i) ==
    LET due == {j \in i + 1 .. NParts : table[j] \in Ext2Types}
        j == CHOOSE k \in due : \A l \in due : k <= l
    IN  task' = [task EXCEPT ![t] =
                   IF due = {} THEN Locals
                   ELSE [Locals EXCEPT !.pc = "sb", !.table = table, !.i = j,
                                       !.want = Request("sb", j, 0, 0)]]

IsMBR(t) ==
    /\ At(t, "mbr")
    /\ task' = [task EXCEPT ![t] =
                  IF task[t].buf["mbr"]
                  THEN [Locals EXCEPT !.pc = "entry", !.i = 1, !.want = Request("entry", 1, 1, 0)]
                  ELSE Locals]
    /\ UNCHANGED nodes /\ Silent

\* readMBR reads all the entries before any partition is mounted.
ReadMBR(t) ==
    LET table == Append(task[t].table, task[t].buf["entry"])
        i == task[t].i
    IN  /\ At(t, "entry")
        /\ IF i = NParts THEN NextPart(t, table, 0)
           ELSE task' = [task EXCEPT ![t].table = table, ![t].i = i + 1,
                                     ![t].want = Request("entry", 1, i + 1, 0)]
        /\ UNCHANGED nodes /\ Silent

CeilDiv(a, b) == (a \div b) + (IF a % b = 0 THEN 0 ELSE 1)

\* The block groups of the volume.
AllGroups(sb) ==
    LET i == CeilDiv(sb.blocks, sb.blocksPerGroup)
        j == CeilDiv(sb.inodes, sb.inodesPerGroup)
    IN  IF i > j THEN i ELSE j

\* ext2GetDiskInfo keeps them in 16 bits.
Groups(sb) == AllGroups(sb) % GroupWrap

\* The bits of sFeatureIncompat that ext2GetDiskInfo refuses.
Unsupported ==
    {1, 4, 8, 16, 64, 128, 256, 512, 1024, 4096, 8192, 16384, 32768}

ReadSb(t) ==
    LET sb == task[t].buf["sb"]
        good == sb.magic /\ sb.blocksPerGroup # 0 /\ sb.inodesPerGroup # 0
    IN  /\ At(t, "sb")
        /\ IF good
           THEN task' = [task EXCEPT ![t].pc = "gd", ![t].sb = sb,
                                     ![t].want = Request("gd", task[t].i, Groups(sb), 0)]
           ELSE NextPart(t, task[t].table, task[t].i)
        /\ UNCHANGED nodes /\ Silent

\* ext2ReadInode: the table of the inode's group and the index in it.  Beyond the
\* descriptors that were read there is some table or other, here at place 0.
InodeAt(hd, inum) ==
    LET group == (inum - 1) \div hd.inodesPerGroup
    IN  Request("inode", hd.part,
                IF group + 1 \in DOMAIN hd.gd THEN hd.gd[group + 1] % Wrap ELSE 0,
                (inum - 1) % hd.inodesPerGroup)

Ext2Disk(t) ==
    [part |-> task[t].i, inodesPerGroup |-> task[t].sb.inodesPerGroup, gd |-> task[t].gd]

ReadGd(t) ==
    /\ At(t, "gd")
    /\ IF task[t].sb.incompat \cap Unsupported = {}
       THEN task' = [task EXCEPT ![t].pc = "root", ![t].gd = task[t].buf["gd"],
                                 ![t].want = InodeAt([Ext2Disk(t) EXCEPT !.gd = task[t].buf["gd"]],
                                                     EXT2_ROOT_INUM)]
       ELSE NextPart(t, task[t].table, task[t].i)
    /\ UNCHANGED nodes /\ Silent

\* The smallest address that no Node has.
Fresh == CHOOSE n \in 1 .. Cardinality(DOMAIN nodes) : n \notin DOMAIN nodes

\* The constructor of Node, and the append to the childs of p.
Child(p, name, hd, inode, type) ==
    [n \in DOMAIN nodes \cup {Fresh} |->
        IF n = Fresh THEN [name |-> name, parent |-> p, hd |-> hd, inode |-> inode,
                           type |-> type, childs |-> <<>>]
        ELSE [nodes[n] EXCEPT !.childs = IF n = p THEN Append(@, Fresh) ELSE @]]

\* VFS::mount names a mount point after how many there are.
MountName(n) == <<"0", "1", "2", "3">>[n + 1]

\* Mutant of Mount: mount points are named after their partitions.
MountByPart(t) ==
    /\ At(t, "root")
    /\ nodes' = Child(Root, MountName(task[t].i - 1), Ext2Disk(t), task[t].buf["inode"], NODE_ROOT)
    /\ NextPart(t, task[t].table, task[t].i)
    /\ Silent

Mount(t) ==
    /\ At(t, "root")
    /\ nodes' = Child(Root, MountName(Len(nodes[Root].childs)), Ext2Disk(t), task[t].buf["inode"], NODE_ROOT)
    /\ NextPart(t, task[t].table, task[t].i)
    /\ Silent

-----------------------------------------------------------------------------
(***************************************************************************)
(* ext2ReadFile: a stack of the blocks that are still to be read, each     *)
(* with the depth of the tree of pointers above its data.                  *)
(***************************************************************************)
\* The pointers up to the first 0.
UpToZero(p) ==
    SubSeq(p, 1, SelectInSeq(p \o <<0>>, LAMBDA b : b = 0) - 1)

\* Where block b is: its address is computed in 32 bits, except that of iBlock[12].
Block(depth, b) == [depth |-> depth, at |-> b % Wrap]

\* Mutant of Blocks: the trees of depth 2 and 3 are left out.
BlocksShallow(inode) ==
    LET p == UpToZero(SubSeq(inode.block, 1, NDirect))
    IN  [i \in 1 .. Len(p) |-> Block(0, p[i])]
        \o (IF inode.block[NDirect + 1] = 0 THEN <<>>
            ELSE <<[depth |-> 1, at |-> inode.block[NDirect + 1]]>>)

Blocks(inode) ==
    LET p == UpToZero(SubSeq(inode.block, 1, NDirect))
        tree(d) == IF inode.block[NDirect + d] = 0 THEN <<>>
                   ELSE IF d = 1 THEN <<[depth |-> 1, at |-> inode.block[NDirect + 1]]>>
                   ELSE <<Block(d, inode.block[NDirect + d])>>
    IN  [i \in 1 .. Len(p) |-> Block(0, p[i])] \o tree(1) \o tree(2) \o tree(3)

\* The request for the block on top of the stack.
BlockRequest(hd, todo) ==
    IF todo = <<>> THEN Reads!Nothing
    ELSE Request(IF Head(todo).depth = 0 THEN "data" ELSE "pointers", hd.part, Head(todo).at, 0)

\* At most iSize items are kept, and no more than a block at a time.
Kept(data, buf, size) == SubSeq(data \o buf, 1, IF Len(data \o buf) > size THEN size
                                                ELSE Len(data \o buf))

\* t starts to read the file of node n; pc is where it goes on.
StartFile(t, n, pc) ==
    LET todo == Blocks(nodes[n].inode)
    IN  [task[t] EXCEPT !.pc = pc, !.todo = todo, !.data = <<>>,
                        !.want = BlockRequest(nodes[n].hd, todo)]

\* The loops of ext2ReadFile, for the file of node n.
ReadBlock(t, n) ==
    LET l == task[t]
        top == Head(l.todo)
        p == UpToZero(l.buf["pointers"])
        below == IF top.depth = 0 THEN <<>>
                 ELSE [i \in 1 .. Len(p) |-> Block(top.depth - 1, p[i])]
        todo == below \o Tail(l.todo)
    IN  /\ l.todo # <<>>
        /\ task' = [task EXCEPT ![t] =
                      [l EXCEPT !.todo = todo,
                                !.data = IF top.depth = 0 THEN Kept(@, l.buf["data"], nodes[n].inode.size)
                                         ELSE @,
                                !.want = BlockRequest(nodes[n].hd, todo)]]
        /\ UNCHANGED nodes /\ Silent

\* The file's memory when the loops are done; what they have not filled holds
\* anything.
Mapped(t, n) ==
    LET d == task[t].data
        inode == nodes[n].inode
    IN  IF Len(d) >= inode.size THEN {d}
        ELSE {Kept(d, c, inode.size) : c \in Leftovers(Request("data", nodes[n].hd.part, 0, 0))}

-----------------------------------------------------------------------------
(***************************************************************************)
(* NodeEXT2::lookup.                                                       *)
(***************************************************************************)
\* EXT2_S_IFDIR is tested as a bit of the mode, of which the model keeps the four
\* bits of the file type.
isDirectory(inode) == (inode.mode \div 4) % 2 = 1

\* Mutant of Subtree: the destructor does not delete the children.
SubtreeTop(n) == {n}

\* With every node its children.
Closed(S) == \A m \in S : ToSet(nodes[m].childs) \subseteq S

\* What "delete n" deletes: the nodes that are in every such set with n in it.
Subtree(n) ==
    LET closed == {S \in SUBSET DOMAIN nodes : n \in S /\ Closed(S)}
    IN  {m \in DOMAIN nodes : \A S \in closed : m \in S}

\* Mutant of Emptied: the node itself goes with its children.
EmptiedWhole(n) ==
    LET gone == Subtree(n)
        left == [m \in DOMAIN nodes \ gone |-> nodes[m]]
    IN  [left EXCEPT ![nodes[n].parent].childs = SelectSeq(@, LAMBDA c : c # n)]

\* The nodes after lookup has deleted the children of n.
Emptied(n) ==
    LET gone == UNION {Subtree(c) : c \in ToSet(nodes[n].childs)}
    IN  [m \in DOMAIN nodes \ gone |-> [nodes[m] EXCEPT !.childs = IF m = n THEN <<>> ELSE @]]

\* Node::lookup, of VFS::root, and NodeEXT2::lookup up to the end of ext2ReadFile.
Lookup(t) ==
    LET n == task[t].current
    IN  /\ At(t, "walk") /\ task[t].path # <<>>
        /\ IF n = Root
           THEN UNCHANGED nodes /\ task' = [task EXCEPT ![t].pc = "pick"]
           ELSE /\ nodes' = Emptied(n)
                /\ task' = [task EXCEPT ![t] = IF isDirectory(nodes[n].inode)
                                               THEN StartFile(t, n, "lookup")
                                               ELSE [@ EXCEPT !.pc = "pick"]]
        /\ Silent

LookupBlock(t) == At(t, "lookup") /\ ReadBlock(t, task[t].current)

\* Lengths that do not add up to the size lead beyond the file's memory.
LookupRead(t) ==
    /\ At(t, "lookup") /\ task[t].todo = <<>>
    /\ \E d \in Mapped(t, task[t].current) \cup
               (IF Spoilt(t) THEN {task[t].data \o c : c \in Junk["data"]} ELSE {}) :
          task' = [task EXCEPT ![t].pc = "dentry", ![t].data = d]
    /\ UNCHANGED nodes /\ Silent

Dots == {".", ".."}

\* The entries from the next one on.  An entry of length 0 is its own next one.
Following(data) == IF Head(data).recLen = 0 THEN data ELSE Tail(data)

\* The loop over the entries ends at the first one without an inode.
Dentry(t) ==
    LET data == task[t].data
        n == task[t].current
    IN  /\ At(t, "dentry")
        /\ task' = [task EXCEPT ![t] =
                      IF data = <<>> \/ Head(data).inum = 0 THEN [@ EXCEPT !.pc = "pick"]
                      ELSE IF Head(data).name \in Dots THEN [@ EXCEPT !.data = Following(data)]
                      ELSE [@ EXCEPT !.pc = "child",
                                     !.want = InodeAt(nodes[n].hd, Head(data).inum)]]
        /\ UNCHANGED nodes /\ Silent

CreateChild(t) ==
    LET l == task[t]
        inode == l.buf["inode"]
    IN  /\ At(t, "child")
        /\ Cardinality(DOMAIN nodes) < MaxNodes
        /\ nodes' = Child(l.current, Head(l.data).name, nodes[l.current].hd, inode,
                          IF isDirectory(inode) THEN NODE_DIRECTORY ELSE NODE_FILE)
        /\ task' = [task EXCEPT ![t].pc = "dentry", ![t].data = Following(@)]
        /\ Silent

\* fatalError never returns, and nobody uses the locals again.
Stops ==
    /\ cpu' = "halt"
    /\ task' = [t \in Readers |-> Locals]
    /\ UNCHANGED nodes

\* malloc finds no page for another Node, and stops the kernel.
OutOfMemory(t) ==
    /\ At(t, "child")
    /\ Cardinality(DOMAIN nodes) >= MaxNodes
    /\ Stops /\ Silent

-----------------------------------------------------------------------------
(***************************************************************************)
(* VFS::resolvePath, and the use that loadTask makes of the node.          *)
(***************************************************************************)
NoPath == <<"">>

Mounted == ~Mounting(Boot)

LoadTask(t, p) ==
    /\ Mounted /\ At(t, "idle")
    /\ task' = [task EXCEPT ![t] =
                  [Locals EXCEPT !.goal = p, !.path = p,
                                 !.pc = IF p = NoPath THEN "done" ELSE "walk"]]
    /\ fault' = fault \ {t}
    /\ UNCHANGED <<disk, nodes, faults, mountFault>>

\* Mutant of Pick: "." is not passed over.
PickStays(t) ==
    LET l == task[t]
        name == Head(l.path)
        kids == nodes[l.current].childs
        i == SelectInSeq(kids, LAMBDA c : nodes[c].name = name)
        found == kids # <<>> /\ (name \in Dots \/ i # 0)
    IN  /\ At(t, "pick")
        /\ task' = [task EXCEPT ![t] =
                      IF ~found THEN [l EXCEPT !.pc = "done"]
                      ELSE IF name = "." THEN [l EXCEPT !.pc = "walk"]
                      ELSE [l EXCEPT !.pc = "walk", !.path = Tail(l.path),
                                     !.current = IF name = ".." THEN nodes[l.current].parent
                                                 ELSE kids[i]]]
        /\ UNCHANGED nodes /\ Silent

\* The component is looked for among the children, of which there must be some.
Pick(t) ==
    LET l == task[t]
        name == Head(l.path)
        kids == nodes[l.current].childs
        i == SelectInSeq(kids, LAMBDA c : nodes[c].name = name)
        found == kids # <<>> /\ (name \in Dots \/ i # 0)
    IN  /\ At(t, "pick")
        /\ task' = [task EXCEPT ![t] =
                      IF ~found THEN [l EXCEPT !.pc = "done"]
                      ELSE [l EXCEPT !.pc = "walk", !.path = Tail(l.path),
                                     !.current = IF name = ".." THEN nodes[l.current].parent
                                                 ELSE IF name = "." THEN l.current ELSE kids[i]]]
        /\ UNCHANGED nodes /\ Silent

\* The path ends: loadTask reads the node, if it is a file.
Found(t) ==
    LET n == task[t].current
    IN  /\ At(t, "walk") /\ task[t].path = <<>>
        /\ task' = [task EXCEPT ![t] =
                      IF nodes[n].type = NODE_FILE
                      THEN [StartFile(t, n, "load") EXCEPT !.node = n]
                      ELSE [@ EXCEPT !.pc = "done", !.data = <<>>, !.node = n]]
        /\ UNCHANGED nodes /\ Silent

LoadBlock(t) == At(t, "load") /\ ReadBlock(t, task[t].node)

\* NodeEXT2::read of getSize() bytes.
LoadRead(t) ==
    /\ At(t, "load") /\ task[t].todo = <<>>
    /\ \E d \in Mapped(t, task[t].node) :
          task' = [task EXCEPT ![t].pc = "done", ![t].data = d]
    /\ UNCHANGED nodes /\ Silent

\* loadTask is done with the file and with the node.
Return(t) ==
    /\ At(t, "done")
    /\ task' = [task EXCEPT ![t] = Locals]
    /\ UNCHANGED nodes /\ Silent

-----------------------------------------------------------------------------
(***************************************************************************)
(* Where else what a failed read left may lead.                            *)
(***************************************************************************)
Astray(t) == Spoilt(t) /\ task[t].pc \notin {"idle", "done"} /\ asked[t] = Reads!Nothing

\* diskRead calls fatalError for an address past 28 bits, malloc for a size that
\* memory has no pages for, and a page fault of the kernel's own thread is fatal.
Crash(t) ==
    /\ Astray(t)
    /\ Stops /\ Silent

\* A page fault ends a task, and the Nodes stay as they are.
Killed(t) ==
    /\ Astray(t) /\ ~Mounting(t)
    /\ task' = [task EXCEPT ![t] = Locals]
    /\ UNCHANGED nodes /\ Silent

-----------------------------------------------------------------------------
Running == cpu = "run"

\* The kernel has stopped.
Halt == ~Running /\ UNCHANGED vars

ReaderStep(t) ==
    /\ Running
    /\ \/ /\ UNCHANGED cpu
          /\ \/ Ask(t) \/ Reply(t)
             \/ IsMBR(t) \/ ReadMBR(t) \/ ReadSb(t) \/ ReadGd(t) \/ Mount(t)
             \/ Lookup(t) \/ LookupBlock(t) \/ LookupRead(t) \/ Dentry(t) \/ CreateChild(t)
             \/ Pick(t) \/ Found(t) \/ LoadBlock(t) \/ LoadRead(t) \/ Return(t)
       \/ OutOfMemory(t)

Next ==
    \/ \E t \in Readers :
          \/ ReaderStep(t)
          \/ /\ Running /\ UNCHANGED cpu
             /\ \/ DriveError(t) \/ ReplyFailure(t) \/ Killed(t)
                \/ \E p \in Paths : LoadTask(t, p)
          \/ Running /\ Crash(t)
    \/ Halt

\* A reader goes on, and a read is answered: ReadReturns of module Ata.
Fairness == \A t \in Readers : WF_vars(ReaderStep(t))

Spec == Init /\ [][Next]_vars /\ Fairness

-----------------------------------------------------------------------------
(***************************************************************************)
(* What the disk says: a volume has its inodes in the order of their       *)
(* numbers, and a place is the sequence of entries that lead to it.        *)
(***************************************************************************)
Mountable(i) ==
    LET sb == Disk.vol[i].sb
    IN  /\ Disk.table[i] \in Ext2Types
        /\ sb.magic /\ 0 \notin {sb.blocksPerGroup, sb.inodesPerGroup}
        /\ sb.incompat \cap Unsupported = {}

\* The pointers of a list that has no holes.
Used(p) == SubSeq(p, 1, Cardinality({i \in DOMAIN p : p[i] # 0}))

\* What is in block b, and below it through one, two and three levels of pointers.
DataAt(v, b) == IF b \in DOMAIN v.data THEN v.data[b] ELSE <<>>

PointersAt(v, b) == IF b \in DOMAIN v.pointers THEN Used(v.pointers[b]) ELSE <<>>

Tree1(v, b) ==
    LET p == PointersAt(v, b) IN FlattenSeq([i \in DOMAIN p |-> DataAt(v, p[i])])

Tree2(v, b) ==
    LET p == PointersAt(v, b) IN FlattenSeq([i \in DOMAIN p |-> Tree1(v, p[i])])

Tree3(v, b) ==
    LET p == PointersAt(v, b) IN FlattenSeq([i \in DOMAIN p |-> Tree2(v, p[i])])

Tree(v, d, b) ==
    CASE d = 0 -> DataAt(v, b) [] d = 1 -> Tree1(v, b) [] d = 2 -> Tree2(v, b)
      [] d = 3 -> Tree3(v, b)

\* All the items in the blocks of an inode, and those that are the file.
Whole(part, inode) ==
    LET v == Disk.vol[part]
        p == Used(SubSeq(inode.block, 1, NDirect))
        top(d) == IF inode.block[NDirect + d] = 0 THEN <<>>
                  ELSE Tree(v, d, inode.block[NDirect + d])
    IN  FlattenSeq([i \in DOMAIN p |-> DataAt(v, p[i])]) \o top(1) \o top(2) \o top(3)

Items(part, inode) == Kept(Whole(part, inode), <<>>, inode.size)

Inode(e) == Disk.vol[e.part].number[e.inum]

\* Mount points are named after how many come before them.
MountEntry(i) ==
    [name |-> MountName(Cardinality({j \in 1 .. i - 1 : Mountable(j)})), part |-> i,
     inum |-> EXT2_ROOT_INUM]

Entries(place) ==
    IF place = <<>>
    THEN {MountEntry(i) : i \in {j \in 1 .. NParts : Disk.mbr /\ Mountable(j)}}
    ELSE IF Inode(Last(place)).mode # 4 THEN {}
    ELSE {[name |-> e.name, part |-> Last(place).part, inum |-> e.inum] :
            e \in {x \in ToSet(Items(Last(place).part, Inode(Last(place)))) :
                     x.inum # 0 /\ x.name \notin Dots}}

Nowhere == <<[name |-> "", part |-> 0, inum |-> 0]>>

\* One component; a place without entries leads nowhere, not even back.
Step(place, c) ==
    IF place = Nowhere \/ Entries(place) = {} THEN Nowhere
    ELSE IF c = "." THEN place
    ELSE IF c = ".." THEN IF place = <<>> THEN <<>> ELSE Front(place)
    ELSE IF \E e \in Entries(place) : e.name = c
         THEN Append(place, CHOOSE e \in Entries(place) : e.name = c)
    ELSE Nowhere

\* Where the first components lead.
Places(path) ==
    LET place[i \in 0 .. Len(path)] == IF i = 0 THEN <<>> ELSE Step(place[i - 1], path[i])
    IN  place

Where(path) == IF path = NoPath THEN Nowhere ELSE Places(path)[Len(path)]

-----------------------------------------------------------------------------
(***************************************************************************)
(* What the program takes for granted of the volumes that it mounts.       *)
(***************************************************************************)
NoHoles(p) == \A i, j \in DOMAIN p : i < j /\ p[j] # 0 => p[i] # 0

\* Blocks that 32 bits of bytes address, except for iBlock[12], and enough of them
\* for the size; directories are the only inodes with the bit EXT2_S_IFDIR.
SoundInode(part, inode) ==
    /\ inode.size \in Nat
    /\ inode.block \in [1 .. NDirect + 3 -> Nat]
    /\ NoHoles(SubSeq(inode.block, 1, NDirect))
    /\ \A i \in 1 .. NDirect + 3 : i # NDirect + 1 => inode.block[i] < Wrap
    /\ inode.size <= Len(Whole(part, inode))
    /\ isDirectory(inode) <=> inode.mode = 4

\* No entry comes after an unused one, and no name comes twice; an entry that is used
\* has a length.
SoundDirectory(part, inode) ==
    LET d == Items(part, inode)
    IN  /\ \A i, j \in DOMAIN d : i < j /\ d[i].inum = 0 => d[j].inum = 0
        /\ \A i \in DOMAIN d : d[i].inum # 0 =>
              d[i].inum \in DOMAIN Disk.vol[part].number /\ d[i].recLen # 0
        /\ \A i, j \in DOMAIN d :
              d[i].inum # 0 /\ d[j].inum # 0 /\ d[i].name = d[j].name => i = j

\* What Ext2Disk is for a partition that has been mounted.
DiskOf(part) ==
    LET v == Disk.vol[part]
    IN  [part |-> part, inodesPerGroup |-> v.sb.inodesPerGroup, gd |-> SubSeq(v.gd, 1, AllGroups(v.sb))]

Words(part) == UNION {ToSet(Disk.vol[part].data[b]) : b \in DOMAIN Disk.vol[part].data}

\* Inodes are where ext2ReadInode looks for them, and 16 bits count the groups.
SoundVolume(part) ==
    LET v == Disk.vol[part]
    IN  /\ AllGroups(v.sb) \in 0 .. GroupWrap - 1
        /\ \A b \in DOMAIN v.data : v.data[b] \in Seq(Words(part))
        /\ \A b \in DOMAIN v.pointers :
              v.pointers[b] \in Seq(0 .. Wrap - 1) /\ NoHoles(v.pointers[b])
        /\ EXT2_ROOT_INUM \in DOMAIN v.number
        /\ \A m \in DOMAIN v.number :
              /\ SoundInode(part, v.number[m])
              /\ v.number[m].mode = 4 => SoundDirectory(part, v.number[m])
              /\ Content(InodeAt(DiskOf(part), m)) = v.number[m]

SoundDisk ==
    /\ Disk.table \in Seq(STRING) /\ Len(Disk.table) = NParts
    /\ Disk.mbr \in BOOLEAN
    /\ \A i \in 1 .. NParts : Mountable(i) => SoundVolume(i)

-----------------------------------------------------------------------------
(***************************************************************************)
(* Properties.                                                             *)
(***************************************************************************)
\* The Nodes in memory are the tree below VFS::root: each is once among the
\* children of its parent, and what lookup and the destructors drop is deleted.
NodesFormTree ==
    /\ DOMAIN nodes = Subtree(Root)
    /\ \A n \in DOMAIN nodes \ {Root} :
          /\ nodes[n].parent \in DOMAIN nodes
          /\ Cardinality({i \in DOMAIN nodes[nodes[n].parent].childs :
                            nodes[nodes[n].parent].childs[i] = n}) = 1

InUse(t) ==
    IF task[t].pc \in {"walk", "lookup", "dentry", "child", "pick"} THEN {task[t].current}
    ELSE IF task[t].pc = "load" THEN {task[t].node} ELSE {}

\* With one load at a time, resolvePath and loadTask never hold a Node that a
\* lookup has deleted, wherever "..", "." and failed reads lead them.
UsesLiveNodes == \A t \in Readers : InUse(t) \subseteq DOMAIN nodes

Sound(t) == task[t].pc = "done" /\ ~mountFault /\ t \notin fault

\* "Returns the node associated to path or nullptr on errors" (vfs.cpp): when none
\* of its reads failed, the node is the one that the disk has at that path, however
\* many reads of earlier loads have failed and whatever they left in memory.
ResolvesRight ==
    \A t \in Readers : Sound(t) =>
        LET place == Where(task[t].goal)
            n == task[t].node
        IN  IF place \in {Nowhere, <<>>} THEN n = IF place = <<>> THEN Root ELSE Null
            ELSE /\ n \in DOMAIN nodes
                 /\ nodes[n].name = Last(place).name
                 /\ nodes[n].hd.part = Last(place).part
                 /\ nodes[n].inode = Inode(Last(place))

\* loadTask gets the bytes of the file, through direct blocks and trees of pointers
\* of every depth.
LoadsTheFile ==
    \A t \in Readers : Sound(t) /\ task[t].node # Null =>
        task[t].data = IF nodes[task[t].node].type # NODE_FILE THEN <<>>
                       ELSE Items(Last(Where(task[t].goal)).part, Inode(Last(Where(task[t].goal))))

\* t is at an entry of length 0.
Stuck(t) ==
    /\ task[t].pc = "dentry" /\ task[t].data # <<>>
    /\ Head(task[t].data).inum # 0 /\ Head(task[t].data).recLen = 0

\* Mounting and every load end, whatever failed reads leave, unless the kernel stops
\* or lookup comes to an entry of length 0, which only a failed read of this load or
\* of the mount puts there.
LoadReturns ==
    \A t \in Readers :
        task[t].pc \notin {"idle", "done"}
          ~> (task[t].pc \in {"idle", "done"} \/ (Stuck(t) /\ Spoilt(t)) \/ ~Running)

=============================================================================
