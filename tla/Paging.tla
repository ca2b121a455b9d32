------------------------------- MODULE Paging -------------------------------
(***************************************************************************)
(* The page directory and its tables (page.c, page_setup.S), what execute, *)
(* halt, vidmap, the scheduler and switch_screen write into them, and the  *)
(* translations the processor keeps.  It may fetch one at any moment, also *)
(* without an access, and keeps it until it is flushed.                    *)
(*                                                                         *)
(* A virtual page is a pair <<directory index, table index>>; under a      *)
(* 4 MB entry the second is 0.  A physical page is its size and number.    *)
(***************************************************************************)
EXTENDS ProcessManager

VARIABLES
  page_directory,   \* the entries of Indices; all others stay absent
  tlb               \* the translations the processor keeps

pagingVars == <<page_directory, tlb>>
allVars == <<vars, pagingVars>>

USER_ADDR_INDEX == 32
VidmapIndex == USER_ADDR_INDEX + 1
Indices == {0, 1, USER_ADDR_INDEX, VidmapIndex}
VIDEO == 184   \* VIDEO_ADDR / ALIGN

NullPage == <<0, 0>>
VideoPage(n) == <<0, VIDEO + n>>
KernelPage == <<1, 0>>
ProgramPage == <<USER_ADDR_INDEX, 0>>
VidmapPage == <<VidmapIndex, 0>>
VirtualPages ==
  {NullPage, KernelPage, ProgramPage, VidmapPage} \cup {VideoPage(n) : n \in 0 .. NumTerminals}

KernelFrame == [size |-> "4MB", number |-> 1]
ProgramFrame(p) == [size |-> "4MB", number |-> 2 + p]
VideoFrame(n) == [size |-> "4KB", number |-> VIDEO + n]

-----------------------------------------------------------------------------
(***************************************************************************)
(* init_page: the first 4 MB through a table that holds the video pages,   *)
(* the kernel in one large page, nothing else; nothing for programs.       *)
(***************************************************************************)
Absent == [present |-> FALSE, user |-> FALSE, global |-> FALSE, size |-> "4MB", number |-> 0]
TableEntry == [present |-> TRUE, user |-> FALSE, global |-> FALSE, size |-> "table", number |-> 0]
KernelEntry ==
  [present |-> TRUE, user |-> FALSE, global |-> FALSE, size |-> "4MB", number |-> KernelFrame.number]

init_page ==
  [i \in Indices |->
     CASE i = 0 -> TableEntry
       [] i = 1 -> KernelEntry
       [] OTHER -> Absent]

\* An entry of page_table.
page_table(i) ==
  [present |-> i \in VIDEO .. VIDEO + NumTerminals, user |-> FALSE, number |-> i]

\* An entry of vid_map; only the first is ever used.
vid_map_table(i) ==
  [present |-> i = 0 /\ vid_map.present,
   user |-> i = 0 /\ vid_map.present,
   number |-> IF i = 0 /\ vid_map.page # UnsetPage THEN VIDEO + vid_map.page ELSE i]

ProgramEntry(p) ==
  [present |-> TRUE, user |-> TRUE, global |-> TRUE, size |-> "4MB",
   number |-> ProgramFrame(p).number]

\* The entry system_vidmap writes; it leads to the table vid_map.
VidmapEntry == [present |-> TRUE, user |-> TRUE, global |-> TRUE, size |-> "table", number |-> 0]

process_page(directory, process_id) ==
  IF process_id \in Pids
    THEN [directory EXCEPT ![USER_ADDR_INDEX] = ProgramEntry(process_id)]
    ELSE directory

\* The directory's part of system_vidmap.
system_vidmap(directory) == [directory EXCEPT ![VidmapIndex] = VidmapEntry]

(***************************************************************************)
(* The processor: how it translates a page, and what reloading cr3 makes   *)
(* it forget.  A global translation survives only if cr4 allows for it;    *)
(* in a 4 KB translation it is the bit of the table that counts.           *)
(***************************************************************************)
Translation(v, frame, user, global) ==
  [page |-> v, frame |-> frame, user |-> user, global |-> global]

\* The translations of v there are: one, or none if the page is absent.
Walk(v) ==
  LET entry == page_directory[v[1]]
      leaf == IF v[1] = 0 THEN page_table(v[2]) ELSE vid_map_table(v[2])
  IN CASE ~entry.present -> {}
       [] entry.present /\ entry.size = "4MB" ->
            {Translation(v, [size |-> "4MB", number |-> entry.number], entry.user, entry.global)}
       [] entry.present /\ entry.size = "table" /\ leaf.present ->
            {Translation(v, VideoFrame(leaf.number - VIDEO), entry.user /\ leaf.user, FALSE)}
       [] OTHER -> {}

\* Mutant of cr4: the global pages are taken seriously.
cr4_GlobalPages == {"PSE", "PGE"}

cr4 == {"PSE"}

flushTLB(cached) == {c \in cached : c.global /\ "PGE" \in cr4}

-----------------------------------------------------------------------------
(***************************************************************************)
(* entry sets paging up and starts the first shell.  Then every step of    *)
(* the process manager comes with the writes to the directory it makes and *)
(* with its flush; interrupts are off from the first write to the flush.   *)
(***************************************************************************)
PagingInit ==
  /\ Init
  /\ page_directory = process_page(init_page, 0)
  /\ tlb = {}

\* Mutant of Reload: no flush after the directory is written.
Reload_NoFlush(process_id) ==
  /\ page_directory' = process_page(page_directory, process_id)
  /\ UNCHANGED tlb

Reload(process_id) ==
  /\ page_directory' = process_page(page_directory, process_id)
  /\ tlb' = flushTLB(tlb)

PagedCall == (Execute \/ HaltTeardown) /\ Reload(page')

PagedTick == Tick /\ Reload(terminal_array'[curr_terminal'].pid)

PagedVidmap ==
  /\ Vidmap
  /\ page_directory' = system_vidmap(page_directory)
  /\ tlb' = flushTLB(tlb)

PagedSwitch(new_terminal) ==
  /\ SwitchScreen(new_terminal)
  /\ tlb' = flushTLB(tlb)
  /\ UNCHANGED page_directory

PagedOther == (ExecuteFails \/ HaltRestartsShell \/ HaltReturn) /\ UNCHANGED pagingVars

\* The other pages are never mapped otherwise after init_page.
Fetch(v) ==
  /\ v \in {ProgramPage, VidmapPage}
  /\ tlb' = tlb \cup Walk(v)
  /\ UNCHANGED <<vars, page_directory>>

PagingNext ==
  \/ PagedCall \/ PagedTick \/ PagedVidmap \/ PagedOther
  \/ \E t \in Terminals : PagedSwitch(t)
  \/ \E v \in VirtualPages : Fetch(v)

\* The fairness of the process manager's steps, and none for the rest.
PagingSpec ==
  /\ PagingInit /\ [][PagingNext]_allVars
  /\ SF_allVars(PagedTick) /\ WF_allVars(PagedOther /\ HaltReturn)

-----------------------------------------------------------------------------
(***************************************************************************)
(* Properties.                                                             *)
(***************************************************************************)

(***************************************************************************)
(* What the processor keeps is what the tables say now: each write to an   *)
(* entry or to vid_map[0] is flushed before anybody uses the page, though  *)
(* the entries are marked global.                                          *)
(***************************************************************************)
NoStaleTranslation == \A c \in tlb : c \in Walk(c.page)

\* All that a virtual page may stand for at this moment.
Reach(v) == {c \in tlb \cup Walk(v) : c.page = v}

(***************************************************************************)
(* A program in user mode reaches its own 4 MB at 128 MB, a video page at  *)
(* 132 MB if anybody ever called vidmap, and nothing else: no other        *)
(* program's memory, and nothing of the kernel's, where the PCBs are.      *)
(***************************************************************************)
ProgramsApart ==
  cpu.at = "user" =>
    /\ {c.frame : c \in Reach(ProgramPage)} = {ProgramFrame(cpu.stack)}
    /\ \A v \in VirtualPages : \A c \in Reach(v) :
         c.user => \/ v = ProgramPage
                   \/ v = VidmapPage /\ c.frame \in {VideoFrame(n) : n \in 0 .. NumTerminals}
    /\ \E c \in Reach(KernelPage) : c.frame = KernelFrame /\ ~c.user

(***************************************************************************)
(* What a program writes at 132 MB appears where its terminal is shown: on *)
(* the screen, or in the terminal's backup page.  A display switch or a    *)
(* vidmap in the background breaks that, but never for good.               *)
(***************************************************************************)
VideoPageIsOwn ==
  \A c \in Reach(VidmapPage) :
    c.frame = VideoFrame(IF curr_terminal = screen_terminal THEN 0 ELSE curr_terminal + 1)
VideoPageRecovers == []<>VideoPageIsOwn
=============================================================================
