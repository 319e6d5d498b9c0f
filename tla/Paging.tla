------------------------------- MODULE Paging -------------------------------
(***************************************************************************)
(* The page tables of paging.c and the x86 walk through them.  Addresses   *)
(* are counted in 4KB frames (a physical or virtual address shifted right *)
(* by FOUR_KB_OFFSET), so that 4GB fits TLC's integers; an entry is a      *)
(* record of the bits the code sets (present, R/W, U/S, PS) and its base  *)
(* frame or the page table it points at.  The three arrays                *)
(* page_directory, page_table and page_table_vidmem are functions on the  *)
(* entries the code writes, with the value init_page (or the zeroed BSS)  *)
(* leaves in every other entry.                                           *)
(***************************************************************************)
EXTENDS Integers, TLC

ENTRIES         == 1024                 \* DIR_SIZE, TABLE_SIZE (paging.h)
FRAMES_PER_4MB  == 1024                 \* FOUR_MB_SIZE / FOUR_KB_SIZE
VIDEO_PFN       == 184                  \* VIDEO_OFFSET 0xB8000 >> 12
KERNEL_PDE      == 1                    \* KERNEL_OFFSET 4MB >> 22
PROGRAM_VIRTUAL == 32                   \* 128MB >> 22
USER_VIDEO_PDE  == 52                   \* USER_VIDEO = 128MB + 80MB, >> 22
KERNEL_PFN      == 1024                 \* KERNEL_OFFSET >> 12
EIGHT_MB_PFN    == 2048

(* lib.h 24-26 and lib.c 24: saved_screen[t] is TERMINAL_BUFFER_(t+1),    *)
(* VIDEO + (t + 1) * 4KB.                                                  *)
SavedScreen(t) == VIDEO_PFN + t + 1

(* An entry: the flag bits, a 4MB frame base or page frame (base), and    *)
(* for a directory entry without PS the table it points at.                *)
Entry(p, rw, us, ps, base, table) ==
  [p |-> p, rw |-> rw, us |-> us, ps |-> ps, base |-> base, table |-> table]
NoTable == "none"

(* Entry i of an array written at the indices of DOMAIN f, and dflt(i)    *)
(* everywhere else.                                                       *)
At(f, i, dflt) == IF i \in DOMAIN f THEN f[i] ELSE dflt
Set(f, i, e) == (i :> e) @@ f

(* init_page, paging.c 14-45: every directory entry R/W only; page table   *)
(* entry i R/W with base i; then map_kernel (69-80), initialize_page_table *)
(* (194-205) and map_video (90-122).  page_table_vidmem is zeroed BSS.     *)
PdeDefault(i) == Entry(FALSE, TRUE, FALSE, FALSE, 0, NoTable)
PteDefault(i) == Entry(FALSE, TRUE, FALSE, FALSE, i, NoTable)
VidPteDefault(i) == Entry(FALSE, FALSE, FALSE, FALSE, 0, NoTable)

MapKernel(pd) == Set(pd, KERNEL_PDE, Entry(TRUE, FALSE, FALSE, TRUE, KERNEL_PFN, NoTable))
InitializePageTable(pd) == Set(pd, 0, Entry(TRUE, FALSE, FALSE, FALSE, 0, "page_table"))
MapVideo(pt) ==
  [f \in {VIDEO_PFN} \cup {SavedScreen(t) : t \in 0..2} |->
     Entry(TRUE, TRUE, FALSE, FALSE, f, NoTable)] @@ pt

InitPage ==
  [pd |-> InitializePageTable(MapKernel(<<>>)),
   pt |-> MapVideo(<<>>),
   vt |-> <<>>]

(* Mutation: the program page put at 4MB + pid * 4MB.                    *)
MapProgramFromFourMB(mm, pid) ==
  [mm EXCEPT !.pd = Set(@, PROGRAM_VIRTUAL,
     Entry(TRUE, TRUE, TRUE, TRUE, KERNEL_PFN + pid * FRAMES_PER_4MB, NoTable))]

(* map_program(pid), paging.c 214-230: the user 4MB page at 128MB on      *)
(* physical 8MB + pid * 4MB.                                               *)
MapProgram(mm, pid) ==
  [mm EXCEPT !.pd = Set(@, PROGRAM_VIRTUAL,
     Entry(TRUE, TRUE, TRUE, TRUE, EIGHT_MB_PFN + pid * FRAMES_PER_4MB, NoTable))]

(* map_user_video (132-162) and map_terminal_video (253-283): the user    *)
(* directory entry at USER_VIDEO points at page_table_vidmem, whose first *)
(* entry is video memory or VIDEO + (terminal_id + 1) * 4KB.              *)
MapWindow(mm, frame) ==
  [mm EXCEPT !.pd = Set(@, USER_VIDEO_PDE, Entry(TRUE, TRUE, TRUE, FALSE, 0, "page_table_vidmem")),
             !.vt = Set(@, 0, Entry(TRUE, TRUE, TRUE, FALSE, frame, NoTable))]
MapUserVideo(mm) == MapWindow(mm, VIDEO_PFN)
(* Mutation: the buffer of terminal_id taken as VIDEO + terminal_id * 4KB. *)
MapTerminalVideoOffByOne(mm, t) == MapWindow(mm, VIDEO_PFN + t)
MapTerminalVideo(mm, t) == MapWindow(mm, VIDEO_PFN + t + 1)


(* The MMU's walk (CR4.PSE on, as init_page sets it) for virtual frame    *)
(* vpn: the frame it reaches, or -1 for a page fault; a user-mode access  *)
(* needs U/S in both levels.                                               *)
Pde(mm, i) == At(mm.pd, i, PdeDefault(i))
Pte(mm, tbl, i) ==
  IF tbl = "page_table" THEN At(mm.pt, i, PteDefault(i)) ELSE At(mm.vt, i, VidPteDefault(i))
Walk(mm, vpn, user) ==
  LET d == Pde(mm, vpn \div ENTRIES)
      e == Pte(mm, d.table, vpn % ENTRIES)
  IN  IF ~d.p \/ (user /\ ~d.us) THEN -1
      ELSE IF d.ps THEN d.base + (vpn % ENTRIES)
      ELSE IF ~e.p \/ (user /\ ~e.us) THEN -1
      ELSE e.base

(* The physical frames user mode reaches, as intervals <<lo, hi>>: whole *)
(* 4MB pages and single 4KB pages.  Entries never written are not present.*)
TableDomain(mm, tbl) == IF tbl = "page_table" THEN DOMAIN mm.pt ELSE DOMAIN mm.vt
UserRanges(mm) ==
  LET UserPdes == {i \in DOMAIN mm.pd : Pde(mm, i).p /\ Pde(mm, i).us}
      Ranges(d) ==
        IF d.ps THEN {<<d.base, d.base + FRAMES_PER_4MB - 1>>}
        ELSE {<<Pte(mm, d.table, j).base, Pte(mm, d.table, j).base>> :
                j \in {j \in TableDomain(mm, d.table) :
                         Pte(mm, d.table, j).p /\ Pte(mm, d.table, j).us}}
  IN  UNION {Ranges(Pde(mm, i)) : i \in UserPdes}

Overlap(r, s) == r[1] <= s[2] /\ s[1] <= r[2]
==============================================================================
