-------------------------- MODULE FileDescriptors --------------------------
(***************************************************************************)
(* The file side of the system calls (syscalls.c, file_sys.c): descriptor  *)
(* tables in the PCBs, file positions, the directory counter and the       *)
(* arguments of the last command.                                          *)
(*                                                                         *)
(* Which process runs, and the order in which terminals are served, come   *)
(* from Sessions, which ProcessManager implements: "the current process"   *)
(* is the topmost program of the served session.  System calls run with    *)
(* interrupts enabled, except execute and halt, so a tick may fall between *)
(* any two accesses to memory that processes share.  A descriptor table is *)
(* touched by its own process only, so open, close and a read of a file    *)
(* are one step each; read_directory works on a counter all processes      *)
(* share and takes four.  Descriptors 0 and 1 are the terminal; execute    *)
(* sets them and close refuses them, so they never change.                 *)
(***************************************************************************)
EXTENDS FileSystem

CONSTANTS
  NumTerminals, NumProcesses,
  FILE_DESCRIPTOR_MIN, FILE_DESCRIPTOR_MAX,   \* 2 and 8 in syscalls.h
  direntries, inodes,                         \* the contents of the disk
  Names,        \* names given to open, some of them on the disk
  Arguments,    \* arguments given to execute, the empty ones ("") among them
  Requests,     \* values of nbytes
  MaxPos,       \* bound: no read moves file_pos beyond it
  MaxCounter    \* bound: races of increments with resets drive dentry_counter
                \* to any value; here only up to this one

ASSUME ProcessesAssumption == NumTerminals \in Nat \ {0} /\ NumProcesses \in Nat \ {0}
ASSUME DescriptorsAssumption ==
  /\ FILE_DESCRIPTOR_MIN \in Nat /\ FILE_DESCRIPTOR_MAX \in Nat
  /\ FILE_DESCRIPTOR_MIN < FILE_DESCRIPTOR_MAX
ASSUME DiskAssumption ==
  /\ direntries # <<>> /\ DOMAIN direntries = 1 .. Len(direntries) /\ Len(direntries) \in Nat
  /\ Len(inodes) \in Nat
  /\ \A i \in DOMAIN direntries :
       /\ direntries[i].filetype \in {RTCType, DirectoryType, RegularType}
       /\ direntries[i].inode_num \in 0 .. Len(inodes) - 1
  /\ \A k \in 1 .. Len(inodes) : inodes[k].length \in Nat
ASSUME BoundsAssumption ==
  /\ Requests \subseteq Nat
  /\ MaxPos \in Nat /\ MaxPos < UintValues
  /\ MaxCounter \in Nat

Terminals == 0 .. NumTerminals - 1
Pids == 0 .. NumProcesses - 1
Fds == FILE_DESCRIPTOR_MIN .. FILE_DESCRIPTOR_MAX - 1
DirCount == Len(direntries)

VARIABLES
  session, served, running,   \* see Sessions
  file_descriptors,   \* per pid and fd: in_use (flags), type (the jump
                      \* table), inode, file_pos
  cur_args,           \* the string all pcb->args point to
  dentry_counter,     \* the next entry read_directory returns
  lister,             \* per terminal: its process's progress in read_directory
  \* History, read by the properties only:
  delivered,          \* per pid and fd: bytes a file has given since its open
  given,              \* per pid: the arguments it was started with
  round               \* who called read_directory since dentry_counter was
                      \* last reset, and what a sole reader was given

processes == <<session, served, running>>
history == <<delivered, given, round>>
vars == <<processes, file_descriptors, cur_args, dentry_counter, lister, history>>

S == INSTANCE Sessions

\* get_pcb(terminal_array[curr_terminal].pid)
Current == Last(session[served])

Idle == [at |-> "idle", fd |-> FILE_DESCRIPTOR_MIN, entry |-> 1, loaded |-> 0]
NoReader == -1
SeveralReaders == -2

\* The running program is about to make a system call.
Calls == running = Current /\ lister[served].at = "idle"

-----------------------------------------------------------------------------
Unused == [in_use |-> FALSE, type |-> RTCType, inode |-> 0, file_pos |-> 0]

Init ==
  /\ S!Init
  /\ file_descriptors = [p \in Pids |-> [fd \in Fds |-> Unused]]
  /\ cur_args = ""
  /\ dentry_counter = 0
  /\ lister = [t \in Terminals |-> Idle]
  /\ delivered = [p \in Pids |-> [fd \in Fds |-> 0]]
  /\ given = [p \in Pids |-> ""]
  /\ round = [reader |-> NoReader, entries |-> <<>>]

\* Mutant of FreshTable: the descriptors of the last process of this pid.
FreshTable_Stale(table) == table

\* What execute makes of a PCB's table: the jump tables stay.
FreshTable(table) ==
  [fd \in Fds |-> [table[fd] EXCEPT !.in_use = FALSE, !.inode = 0, !.file_pos = 0]]

Start(new, args) ==
  /\ file_descriptors' = [file_descriptors EXCEPT ![new] = FreshTable(@)]
  /\ cur_args' = args
  /\ delivered' = [delivered EXCEPT ![new] = [fd \in Fds |-> 0]]
  /\ given' = [given EXCEPT ![new] = args]
  /\ UNCHANGED <<dentry_counter, lister, round>>

\* system_execute.
Execute(new, args) ==
  /\ Calls
  /\ new \in Pids \ S!Live
  /\ S!Begin(new)
  /\ Start(new, args)

\* The scheduler executes "shell" for a terminal that has none.
BootShell(new) ==
  /\ new \in Pids \ S!Live
  /\ S!ServeNew(new)
  /\ Start(new, "")

\* system_execute gives up on the file or for want of a pid, after it has
\* parsed the command line.
ExecuteFails(args) ==
  /\ Calls
  /\ cur_args' = args
  /\ UNCHANGED <<processes, file_descriptors, dentry_counter, lister, history>>

\* What system_close leaves of a descriptor.
Closed(descriptor) == [descriptor EXCEPT !.in_use = FALSE, !.inode = -1, !.file_pos = 0]

\* system_halt of a program that is not a base shell.  terminal_array names
\* the parent by the time the descriptors are closed: they are the parent's.
Halt ==
  /\ Calls
  /\ S!Leave
  /\ file_descriptors' = [file_descriptors EXCEPT ![Last(session'[served])] =
       [fd \in Fds |-> IF @[fd].in_use THEN Closed(@[fd]) ELSE @[fd]]]
  /\ UNCHANGED <<cur_args, dentry_counter, lister, history>>

Tick ==
  /\ S!Serve
  /\ UNCHANGED <<file_descriptors, cur_args, dentry_counter, lister, history>>

-----------------------------------------------------------------------------
(***************************************************************************)
(* system_open, system_close, and system_read of a regular file.           *)
(***************************************************************************)
\* Mutant of FreeFds: the last descriptor is never given out twice.
FreeFds_InUse(p) == Fds

FreeFds(p) == {fd \in Fds : ~file_descriptors[p][fd].in_use}

Open(name) ==
  LET found == read_dentry_by_name(name, direntries)
      fd == Min(FreeFds(Current))
  IN /\ Calls
     /\ found # Failure
     /\ FreeFds(Current) # {}
     /\ file_descriptors' = [file_descriptors EXCEPT ![Current][fd] =
          [in_use |-> TRUE, type |-> direntries[found].filetype,
           inode |-> direntries[found].inode_num, file_pos |-> 0]]
     /\ delivered' = [delivered EXCEPT ![Current][fd] = 0]
     /\ UNCHANGED <<processes, cur_args, dentry_counter, lister, given, round>>

Close(fd) ==
  /\ Calls
  /\ file_descriptors[Current][fd].in_use
  /\ file_descriptors' = [file_descriptors EXCEPT ![Current][fd] = Closed(@)]
  /\ UNCHANGED <<processes, cur_args, dentry_counter, lister, history>>

\* Mutant of NewPos: a read that starts at 0 is not counted.
NewPos_Lagging(file_pos, nbytes) == IF file_pos = 0 THEN nbytes - 1 ELSE file_pos + nbytes

\* read_file advances file_pos by what was asked for, not what was there.
NewPos(file_pos, nbytes) == file_pos + nbytes

ReadFile(fd, nbytes) ==
  LET descriptor == file_descriptors[Current][fd]
      next == NewPos(descriptor.file_pos, nbytes)
  IN /\ Calls
     /\ descriptor.in_use /\ descriptor.type = RegularType
     /\ next <= MaxPos
     /\ file_descriptors' = [file_descriptors EXCEPT ![Current][fd].file_pos = next]
     /\ delivered' = [delivered EXCEPT ![Current][fd] =
          @ + read_data(descriptor.inode, inodes, descriptor.file_pos, nbytes)]
     /\ UNCHANGED <<processes, cur_args, dentry_counter, lister, given, round>>

-----------------------------------------------------------------------------
(***************************************************************************)
(* read_directory: compare the counter, fetch the entry, increment the     *)
(* counter (a load and a store in the unoptimised build).                  *)
(***************************************************************************)
Lists(at) == running = Current /\ lister[served].at = at

Joined == [round EXCEPT !.reader = IF @ \in {NoReader, served} THEN served ELSE SeveralReaders]

ListBegin(fd) ==
  LET descriptor == file_descriptors[Current][fd]
  IN /\ Calls
     /\ descriptor.in_use /\ descriptor.type = DirectoryType
     /\ dentry_counter < DirCount
     /\ lister' = [lister EXCEPT ![served].at = "fetch", ![served].fd = fd]
     /\ round' = Joined
     /\ UNCHANGED <<processes, file_descriptors, cur_args, dentry_counter,
                    delivered, given>>

ListEnd(fd) ==
  LET descriptor == file_descriptors[Current][fd]
  IN /\ Calls
     /\ descriptor.in_use /\ descriptor.type = DirectoryType
     /\ dentry_counter >= DirCount
     /\ dentry_counter' = 0
     /\ round' = [reader |-> IF \A t \in Terminals : lister[t].at = "idle"
                              THEN NoReader ELSE SeveralReaders,
                  entries |-> <<>>]
     /\ UNCHANGED <<processes, file_descriptors, cur_args, lister, delivered, given>>

\* An index another process has driven past the end leaves the entry at
\* file_pos, which is still 0.
ListFetch ==
  LET found == read_dentry_by_index(dentry_counter, direntries)
  IN /\ Lists("fetch")
     /\ lister' = [lister EXCEPT
          ![served].at = "load",
          ![served].entry = IF found = Failure
            THEN file_descriptors[Current][lister[served].fd].file_pos + 1 ELSE found]
     /\ UNCHANGED <<processes, file_descriptors, cur_args, dentry_counter, history>>

ListLoad ==
  /\ Lists("load")
  /\ dentry_counter < MaxCounter
  /\ lister' = [lister EXCEPT ![served].at = "store", ![served].loaded = dentry_counter]
  /\ UNCHANGED <<processes, file_descriptors, cur_args, dentry_counter, history>>

\* Mutant of Incremented: skips an entry.
Incremented_Twice(counter) == counter + 2

Incremented(counter) == counter + 1

ListStore ==
  /\ Lists("store")
  /\ dentry_counter' = Incremented(lister[served].loaded)
  /\ lister' = [lister EXCEPT ![served] = Idle]
  /\ round' = [round EXCEPT !.entries =
                 IF round.reader = served THEN Append(@, lister[served].entry) ELSE <<>>]
  /\ UNCHANGED <<processes, file_descriptors, cur_args, delivered, given>>

SystemCall ==
  \/ \E p \in Pids, args \in Arguments : Execute(p, args)
  \/ \E args \in Arguments : ExecuteFails(args)
  \/ Halt
  \/ \E name \in Names : Open(name)
  \/ \E fd \in Fds : Close(fd) \/ ListBegin(fd) \/ ListEnd(fd)
  \/ \E fd \in Fds, nbytes \in Requests : ReadFile(fd, nbytes)
  \/ ListFetch \/ ListLoad \/ ListStore

Next == SystemCall \/ Tick \/ \E p \in Pids : BootShell(p)

Spec == Init /\ [][Next]_vars

-----------------------------------------------------------------------------
TypeOK ==
  /\ session \in [Terminals -> Seq(Pids)]
  /\ served \in Terminals /\ running \in Pids
  /\ file_descriptors \in [Pids -> [Fds ->
       [in_use : BOOLEAN, type : {RTCType, DirectoryType, RegularType},
        inode : -1 .. Len(inodes) - 1, file_pos : 0 .. MaxPos]]]
  /\ cur_args \in Arguments \cup {""}
  /\ dentry_counter \in Nat
  /\ lister \in [Terminals ->
       [at : {"idle", "fetch", "load", "store"}, fd : Fds,
        entry : DOMAIN direntries, loaded : Nat]]

(***************************************************************************)
(* A program starts with free descriptors, though it inherits the PCB of   *)
(* an earlier one whose files system_halt did not close (system_execute).  *)
(***************************************************************************)
StartsWithoutFiles ==
  [][\A p \in S!Live' \ S!Live, fd \in Fds : ~file_descriptors'[p][fd].in_use]_vars

(***************************************************************************)
(* An open descriptor stays open on its file and never moves back, whoever *)
(* else makes calls: only its own program closes it, and that one alone.   *)
(* (system_open hands out what is free; system_close, read_file.)  The one *)
(* exception is system_halt, which closes the files of the program it      *)
(* returns to, in the place of its own, but nobody else's.                 *)
(***************************************************************************)
OpenFilesKept ==
  [][\A p \in S!Live \cap S!Live', fd \in Fds :
       LET old == file_descriptors[p][fd]
           new == file_descriptors'[p][fd]
       IN old.in_use =>
            \/ /\ new.in_use /\ new.inode = old.inode /\ new.type = old.type
               /\ new.file_pos >= old.file_pos
            \/ p = Current /\ Close(fd)
            \/ Halt /\ p = Last(session'[served])]_vars

(***************************************************************************)
(* The reads through one descriptor deliver the file from its start, each  *)
(* byte once, whatever other programs read in between (file_pos in         *)
(* read_file, clipped by read_data).                                       *)
(***************************************************************************)
ReadsAreContiguous ==
  \A p \in S!Live, fd \in Fds :
    LET descriptor == file_descriptors[p][fd] IN
      descriptor.in_use /\ descriptor.type = RegularType =>
        delivered[p][fd] =
          Min({descriptor.file_pos, inodes[descriptor.inode + 1].length})

(***************************************************************************)
(* A terminal that had the directory to itself since the last end was      *)
(* given every entry, once and in order, when read_directory reports the   *)
(* end, also in its second and later listings.                             *)
(***************************************************************************)
LoneListingComplete ==
  [][dentry_counter' = 0 /\ dentry_counter # 0 /\ round.reader = served =>
       round.entries = [i \in 1 .. DirCount |-> i]]_vars

(***************************************************************************)
(* "keeps track of current arguments inputted per process"                 *)
(* (syscalls.h:81): system_getargs gives a program its own arguments.      *)
(***************************************************************************)
ArgumentsAreOwn == Calls => cur_args = given[Current]
=============================================================================
