----------------------------- MODULE FileSystem -----------------------------
(***************************************************************************)
(* The stateless part of the file system (file_sys.c) and of               *)
(* system_execute (syscalls.c): finding a directory entry by name, reading *)
(* bytes of a file out of its data blocks, and splitting a command line    *)
(* into program name and arguments.                                        *)
(*                                                                         *)
(* A C string is the sequence of its characters before the terminating     *)
(* NUL; CharAt gives the NUL after them.  A directory entry is a record    *)
(* [filename, filetype, inode_num]; a name of FILENAME_LEN characters has  *)
(* no NUL on disk and runs on into filetype.  A byte of the disk is named  *)
(* by its place <<data block, index in it>>.                               *)
(***************************************************************************)
EXTENDS Integers, SequencesExt

CONSTANTS
  FILENAME_LEN,      \* 32 in file_sys.h
  BYTES_PER_BLOCK,   \* 4096 in file_sys.h
  UintValues         \* how many values a uint32_t has, 2^32

ASSUME FilenameLenAssumption == FILENAME_LEN \in Nat \ {0}
ASSUME BlockAssumption == BYTES_PER_BLOCK \in Nat \ {0}
ASSUME UintAssumption == UintValues \in Nat \ {0}

RTCType == 0
DirectoryType == 1
RegularType == 2

Failure == -1
NUL == "NUL"
SPACE == "SPACE"

CharAt(string, i) == IF i <= Len(string) THEN string[i] ELSE NUL

-----------------------------------------------------------------------------
(***************************************************************************)
(* read_dentry_by_name and read_dentry_by_index.                           *)
(***************************************************************************)

\* strlen of a name on disk: filetype is stored right behind the name, low
\* byte first, and ends the string of an entry that fills its field.
StoredLen(entry) ==
  IF Len(entry.filename) = FILENAME_LEN /\ entry.filetype # 0
    THEN FILENAME_LEN + 1
    ELSE Len(entry.filename)

\* Mutant of ComparedLength: only as many characters as the caller typed.
ComparedLength_OfArgument(fname, entry) == Len(fname)

\* The longer of both names, but no more than the field holds.
ComparedLength(fname, entry) ==
  IF StoredLen(entry) > Len(fname)
    THEN Min({StoredLen(entry), FILENAME_LEN})
    ELSE Len(fname)

\* strncmp(a, b, n) = 0: equal up to n characters or the first NUL.
StrncmpEqual(a, b, n) ==
  \A i \in 1 .. n :
    (\A j \in 1 .. i - 1 : CharAt(a, j) # NUL) => CharAt(a, i) = CharAt(b, i)

Matches(fname, direntries) ==
  {i \in DOMAIN direntries :
     StrncmpEqual(direntries[i].filename, fname, ComparedLength(fname, direntries[i]))}

\* The index (from 1) of the entry found, or Failure.  Slots past the last
\* entry hold empty names, which no argument matches.
read_dentry_by_name(fname, direntries) ==
  IF fname = <<>> \/ Len(fname) > FILENAME_LEN \/ Matches(fname, direntries) = {}
    THEN Failure
    ELSE Min(Matches(fname, direntries))

\* Mutant of read_dentry_by_index: accepts the slot after the last entry.
read_dentry_by_index_OffByOne(index, direntries) ==
  IF index <= Len(direntries) THEN index + 1 ELSE Failure

\* index counts from 0.
read_dentry_by_index(index, direntries) ==
  IF index < Len(direntries) THEN index + 1 ELSE Failure

-----------------------------------------------------------------------------
(***************************************************************************)
(* read_data: inodes is the sequence of inodes, inode_num counts from 0.   *)
(***************************************************************************)
Clipped(offset, length, size) ==
  CASE offset >= size -> 0
    [] offset < size /\ (offset + length) % UintValues > size -> size - offset
    [] OTHER -> length

\* Mutant of NextPlace: leaves the block one byte late.
NextPlace_Late(place) ==
  IF place.byte + 1 > BYTES_PER_BLOCK
    THEN [block |-> place.block + 1, byte |-> 0]
    ELSE [place EXCEPT !.byte = @ + 1]

\* One iteration of the loop: the place in the file of the next byte.
NextPlace(place) ==
  IF place.byte + 1 >= BYTES_PER_BLOCK
    THEN [block |-> place.block + 1, byte |-> 0]
    ELSE [place EXCEPT !.byte = @ + 1]

\* The places of count bytes from offset on.
Places(offset, count) ==
  LET place[i \in 1 .. count] ==
        IF i = 1
          THEN [block |-> offset \div BYTES_PER_BLOCK, byte |-> offset % BYTES_PER_BLOCK]
          ELSE NextPlace(place[i - 1])
  IN place

\* The bytes copied to the caller's buffer.
BytesRead(inode, offset, length) ==
  LET count == Clipped(offset, length, inode.length)
      place == Places(offset, count)
  IN [i \in 1 .. count |->
        <<CharAt(inode.data_block_num, place[i].block + 1), place[i].byte>>]

read_data(inode_num, inodes, offset, length) ==
  IF inode_num >= Len(inodes)
    THEN Failure
    ELSE Len(BytesRead(inodes[inode_num + 1], offset, length))

-----------------------------------------------------------------------------
(***************************************************************************)
(* The command line of system_execute.  The code's index i of a character  *)
(* is i + 1 here.                                                          *)
(***************************************************************************)
SkipSpaces(command, i) ==
  Min({j \in i .. Len(command) + 1 : CharAt(command, j) # SPACE})

\* Where the loop over the name stops: the end, a space or FILENAME_LEN.
EndOfName(command) ==
  Min({j \in SkipSpaces(command, 1) .. Len(command) + 1 :
         j > FILENAME_LEN \/ CharAt(command, j) \in {NUL, SPACE}})

CommandName(command) ==
  SubSeq(command, SkipSpaces(command, 1), EndOfName(command) - 1)

\* Mutant of EndOfArgs: keeps the spaces at the end.
EndOfArgs_Untrimmed(command) == Len(command)

\* The last character that is not one of the spaces at the end.
EndOfArgs(command) ==
  Max({0} \cup {j \in DOMAIN command : command[j] # SPACE})

\* arg_idx stays 0, and the arguments empty, unless a space ended the name.
CommandArgs(command) ==
  IF EndOfName(command) <= FILENAME_LEN /\ CharAt(command, EndOfName(command)) = SPACE
    THEN SubSeq(command, SkipSpaces(command, EndOfName(command)), EndOfArgs(command))
    ELSE <<>>
=============================================================================
