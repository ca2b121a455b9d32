------------------------- MODULE MCFileDescriptors -------------------------
(***************************************************************************)
(* FileDescriptors on a disk with a directory of two entries and a file of *)
(* three bytes in two blocks.                                              *)
(***************************************************************************)
EXTENDS FileDescriptors

Disk ==
  <<[filename |-> <<".">>, filetype |-> DirectoryType, inode_num |-> 0],
    [filename |-> <<"t", "x">>, filetype |-> RegularType, inode_num |-> 0]>>

File == <<[length |-> 3, data_block_num |-> <<1, 0>>]>>

DiskNames == {Disk[i].filename : i \in DOMAIN Disk}
=============================================================================
