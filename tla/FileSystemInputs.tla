-------------------------- MODULE FileSystemInputs --------------------------
(***************************************************************************)
(* The stateless functions of the file system against reference            *)
(* definitions, on every input up to a size: each initial state is one.    *)
(***************************************************************************)
EXTENDS FileSystem, Inputs

CONSTANTS
  Letters,      \* the characters of names and commands, except the space
  MaxEntries,   \* most entries of a directory
  Blocks,       \* numbers of data blocks
  MaxFile,      \* longest file, in bytes
  MaxCommand    \* longest command line

ASSUME LettersAssumption == {NUL, SPACE} \cap Letters = {}
ASSUME InputsAssumption ==
  /\ MaxEntries \in Nat /\ MaxFile \in Nat /\ MaxCommand \in Nat

Entries ==
  [filename : SeqOf(Letters, FILENAME_LEN) \ {<<>>},
   filetype : {RTCType, DirectoryType, RegularType}, inode_num : {0}]

Lookups ==
  [kind : {"lookup"}, fname : SeqOf(Letters, FILENAME_LEN + 1),
   direntries : SeqOf(Entries, MaxEntries)]

\* A file of size bytes whose blocks lie anywhere on the disk, in any order.
BlocksOf(size) == (size + BYTES_PER_BLOCK - 1) \div BYTES_PER_BLOCK
Inodes ==
  UNION {[length : {size}, data_block_num : Injection(1 .. BlocksOf(size), Blocks)] :
           size \in 0 .. MaxFile}

\* offset + length stays below UintValues: see the README on larger sums.
Reads ==
  {r \in [kind : {"read"}, inode : Inodes, offset : 0 .. MaxFile + 1,
          length : 0 .. UintValues - 1] : r.offset + r.length < UintValues}

Commands == [kind : {"command"}, text : SeqOf(Letters \cup {SPACE}, MaxCommand)]

FileInput == input \in Lookups \cup Reads \cup Commands
FileInputs == FileInput /\ [][SameInput]_input

-----------------------------------------------------------------------------
(***************************************************************************)
(* A file is found exactly under its own name, "testpr" never stands for   *)
(* "testprint" (buglog.txt:113), and of two entries with one name the      *)
(* first counts (read_dentry_by_name).                                     *)
(***************************************************************************)
LookupIsExact ==
  input.kind = "lookup" =>
    LET found == read_dentry_by_name(input.fname, input.direntries)
        named == {i \in DOMAIN input.direntries :
                    input.direntries[i].filename = input.fname}
    IN IF named = {} \/ input.fname = <<>> THEN found = Failure ELSE found = Min(named)

(***************************************************************************)
(* read_data returns the slice of the file that starts at offset, at most  *)
(* length bytes and never beyond the end, across block boundaries and      *)
(* wherever the blocks lie.                                                *)
(***************************************************************************)
ReadIsSlice ==
  input.kind = "read" =>
    LET inode == input.inode
        contents == [k \in 1 .. inode.length |->
          <<inode.data_block_num[(k - 1) \div BYTES_PER_BLOCK + 1],
            (k - 1) % BYTES_PER_BLOCK>>]
    IN BytesRead(inode, input.offset, input.length)
         = SubSeq(contents, input.offset + 1,
                  Min({input.offset + input.length, inode.length}))

Spaces(n) == [i \in 1 .. n |-> SPACE]
IsNameAndArgs(text) ==
  LET name == CommandName(text)
      args == CommandArgs(text)
      blanks == Len(text) - Len(name) - Len(args)
  IN EndOfName(text) <= FILENAME_LEN =>
       /\ \A i \in DOMAIN name : name[i] # SPACE
       /\ args # <<>> => args[1] # SPACE /\ args[Len(args)] # SPACE
       /\ \E before, between, after \in 0 .. blanks :
            /\ text = Spaces(before) \o name \o Spaces(between) \o args \o Spaces(after)
            /\ args # <<>> => name # <<>> /\ between > 0

(***************************************************************************)
(* A command line whose name ends within FILENAME_LEN characters consists  *)
(* of the parsed name and the parsed arguments, with nothing but spaces    *)
(* around them: no character is lost, none is in both (the two loops of    *)
(* system_execute).                                                        *)
(***************************************************************************)
CommandIsNameAndArgs == input.kind = "command" => IsNameAndArgs(input.text)
=============================================================================
