------------------------------- MODULE MCFiles ------------------------------
(***************************************************************************)
(* A disk with four partitions: an ext4 volume that cannot be read, a      *)
(* volume with directories and a file that needs pointers of every depth,  *)
(* no partition, and a volume whose inodes are in one group.               *)
(***************************************************************************)
EXTENDS Files

Entry(i, n) == [inum |-> i, name |-> n, recLen |-> 1]
Word(n) == Entry(0, n)

Node(mode, size, block) == [mode |-> mode, size |-> size, block |-> block]

\* Where the inodes are: two in each table.
Tables(number, gd) ==
    [a \in {<<gd[((i - 1) \div 2) + 1], (i - 1) % 2>> : i \in 1 .. Len(number)} |->
        number[CHOOSE i \in 1 .. Len(number) : a = <<gd[((i - 1) \div 2) + 1], (i - 1) % 2>>]]

Volume(incompat, blocks, gd, number, data, pointers) ==
    [sb |-> [magic |-> TRUE, blocks |-> blocks, inodes |-> Len(number), blocksPerGroup |-> 10,
             inodesPerGroup |-> 2, incompat |-> incompat],
     gd |-> gd, number |-> number, inodes |-> Tables(number, gd),
     data |-> data, pointers |-> pointers]

NoData == [b \in {} |-> <<>>]

\* An ext4 volume: extents.
Ext4 == Volume({2, 64}, 10, <<1>>, <<NoInode, Node(4, 0, <<0, 0, 0, 0>>)>>, NoData, NoData)

\* Inodes: 2 is the root, 3 is bin, 4 is bin/sh, 5 is the empty directory e.
Linux ==
    Volume({2}, 20, <<1, 2, 3>>,
           <<NoInode, Node(4, 4, <<4, 5, 0, 0>>), Node(4, 3, <<6, 7, 0, 0>>),
             Node(8, 7, <<8, 40, 10, 11>>), Node(4, 2, <<12, 0, 0, 0>>)>>,
           (4 :> <<Entry(2, "."), Entry(2, "..")>>) @@ (6 :> <<Entry(3, "."), Entry(2, "..")>>)
             @@ (14 :> <<Entry(3, "bin"), Entry(5, "e")>>) @@ (15 :> <<Entry(4, "sh"), Word("x")>>)
             @@ (8 :> <<Word("a"), Word("b")>>) @@ (16 :> <<Word("c"), Word("d")>>)
             @@ (17 :> <<Word("e"), Word("f")>>) @@ (18 :> <<Word("g"), Word("h")>>)
             @@ (12 :> <<Entry(5, "."), Entry(2, "..")>>),
           (5 :> <<14, 0>>) @@ (7 :> <<15, 0>>) @@ (40 :> <<16, 0>>)
             @@ (10 :> <<19, 0>>) @@ (19 :> <<17, 0>>)
             @@ (11 :> <<20, 0>>) @@ (20 :> <<21, 0>>) @@ (21 :> <<18, 0>>))

\* A volume with one empty directory.
Small ==
    Volume({}, 10, <<1>>, <<NoInode, Node(4, 2, <<2, 0, 0, 0>>)>>,
           2 :> <<Entry(2, "."), Entry(2, "..")>>, NoData)

MCDisk == [mbr |-> TRUE, table |-> <<"LINUX", "LINUX", "EMPTY", "FAT32">>,
           vol |-> <<Ext4, Linux, Ext4, Small>>]

ASSUME DiskIsSound == SoundDisk

\* What memory may hold: a superblock of no groups and one of more groups than 16
\* bits count, a table of inodes that is not on the disk, an inode that is not what its
\* mode says, entries that lead beyond the groups, back to the directory itself, and
\* nowhere.
MCJunk ==
    [mbr      |-> BOOLEAN,
     entry    |-> {"LINUX", "EMPTY"},
     sb       |-> {EmptySb, [Linux.sb EXCEPT !.blocks = 70]},
     gd       |-> {<<>>, <<3, 9>>},
     inode    |-> {Node(12, 3, <<6, 33, 0, 0>>)},
     data     |-> {<<Entry(9, "sh"), Entry(3, "bin")>>, <<[Entry(4, "sh") EXCEPT !.recLen = 0]>>},
     pointers |-> {<<>>, <<33, 6>>}]

MCPaths ==
    {<<"">>, <<>>, <<"0", "bin", "sh">>, <<"0", "bin", "..", ".", "e">>, <<"0", "e", "..">>,
     <<"0", "bin", "sh", "..">>, <<"0", "..", "1">>}

=============================================================================
