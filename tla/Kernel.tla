------------------------------- MODULE Kernel -------------------------------
(***************************************************************************)
(* The process core of the illinix kernel (src/student-distrib):           *)
(*   - execute/halt (syscall.c), which create and destroy processes and   *)
(*     keep one LIFO stack of pids per terminal (process_terminal,         *)
(*     process_terminal_cnt, lib.h);                                       *)
(*   - the PIT scheduler pit_handler (scheduling.c), which round-robins   *)
(*     the terminals, swaps the saved kernel contexts and delivers a       *)
(*     pending signal;                                                     *)
(*   - Alt+Fn terminal switching switch_to_terminal (terminal.c), which   *)
(*     may launch the shell of a terminal that has never run;              *)
(*   - Ctrl-C (keyboard.c input_handler), which marks a pending signal;   *)
(*   - the program slot, the kernel stack pointer in the TSS and the      *)
(*     shared video window (paging.c), reduced to the pid or terminal     *)
(*     they point at;                                                      *)
(*   - set_handler, vidmap and the exception handlers (syscall.c,         *)
(*     exception.c) as far as they change this state.                     *)
(*                                                                         *)
(* The CPU is modelled by the pid whose kernel stack is in use (curr, the *)
(* PCB get_curr_pcb returns) and what that context does next (act).       *)
(* Every action is atomic because the code runs it with interrupts off    *)
(* (cli in execute, halt, pit_handler, switch_to_terminal, interrupt gate *)
(* of the keyboard); the points where the code re-enables interrupts in   *)
(* the middle of a handler are separate values of act.                    *)
(***************************************************************************)
EXTENDS Integers, FiniteSets, FiniteSetsExt

CONSTANTS
  MAX_TASK,         \* lib.h MAX_TASK: number of PCBs / pids
  Statuses,         \* halt statuses user programs pass (uint8_t)
  (* Three races of user timing against the code.  The code allows all   *)
  (* three (TRUE); a run with FALSE checks the system when they do not    *)
  (* happen.                                                                *)
  BackgroundCalls,  \* a process whose terminal is not on screen calls
                    \* execute or halt (the shell read a line, then the
                    \* user switched away before its next syscall)
  PreemptWindows,   \* the PIT or a second key fires inside the sti
                    \* windows of the Alt+Fn path (input_handler sends
                    \* EOI and sti before switch_to_terminal, which sti's
                    \* again before execute("shell"))
  SwitchBeforeKill, \* Alt+Fn is pressed after Ctrl-C and before the
                    \* scheduler delivers that Ctrl-C
  MAX_NEST          \* how many Alt+Fn interrupts may nest inside the
                    \* windows of earlier ones (bounded by the user's
                    \* keys, and by nothing in the code)

ASSUME MAX_TASK \in Nat \ {0}
ASSUME Statuses \subseteq 0..255 /\ Statuses # {}
ASSUME {BackgroundCalls, PreemptWindows, SwitchBeforeKill} \subseteq BOOLEAN
ASSUME MAX_NEST \in Nat \ {0}

MAX_TERMINAL_NUM == 3          \* lib.h; pit_handler hard-codes 3 and cnt[1], cnt[2]
Terms == 0..MAX_TERMINAL_NUM - 1
Pids  == 0..MAX_TASK - 1

(* process_terminal[3][MAX_TASK] as laid out in memory: row t, column j is *)
(* cell t * MAX_TASK + j, so an index of -1 in row t reads row t - 1.      *)
Cells      == 0..MAX_TERMINAL_NUM * MAX_TASK - 1
Cell(t, j) == t * MAX_TASK + j
(* A read outside the array yields whatever byte lies there; MAX_TASK     *)
(* stands for every value above the last pid.                             *)
ReadCell(pt, k) == IF k \in Cells THEN {pt[k]} ELSE 0..MAX_TASK

EXCEPTION_MAGIC == 15          \* exception.h
EXCEPTION_RET   == 256         \* syscall.h
NOSIG           == 63          \* 0x3F, "no pending signal"
INTERRUPT       == 2           \* lib.h; the only signal any code raises
DEFAULT         == "signal_default"
CUSTOM          == "user_handler"
VIDEO           == [on |-> "video"]    \* video window on real video memory
Buffer(t)       == [buffer |-> t]         \* ... on terminal t's off-screen buffer
NONE            == [on |-> "none"]

(* What the CPU does next in the context of curr; a saved scheduling      *)
(* context (sched_ctx) holds the same values, STALE when the PCB's        *)
(* schedule_esp/ebp were not saved during the life of its current process.*)
USER  == [k |-> "user"]        \* user mode, or a syscall with interrupts on
SPIN  == [k |-> "spin"]        \* print_exception's while(1)
SwitchAct(t, b) == [k |-> "switch", t |-> t, back |-> b]  \* input_handler: sti before switch_to_terminal
LaunchAct(b)    == [k |-> "launch", back |-> b]           \* switch_to_terminal: sti before execute("shell")
STALE == [k |-> "stale"]
Resumable == {USER, SPIN}
(* An Alt+Fn taken inside a window interrupts it: back is then the       *)
(* interrupted window, resumed when the inner switch returns.             *)
RECURSIVE ActsUpTo(_)
ActsUpTo(n) ==
  IF n = 0 THEN Resumable
  ELSE LET inner == ActsUpTo(n - 1) IN
       Resumable \cup {SwitchAct(t, b) : t \in Terms, b \in inner}
                 \cup {LaunchAct(b) : b \in inner}
Acts == ActsUpTo(MAX_NEST)
RECURSIVE Depth(_)
Depth(a) == IF a \in Resumable THEN 0 ELSE 1 + Depth(a.back)

(* Where halt jumps back to: the kernel stack execute ran on (parent_esp) *)
(* and what that context resumes; HALTING marks the stack of a process    *)
(* halt has just freed (the shell relaunched from halt).                  *)
BOOT    == [k |-> "boot"]
HALTING == [k |-> "halting"]

VARIABLES
  process,               \* syscall.c process[]: pid in use
  process_terminal,      \* lib.h process_terminal, flattened (Cells)
  process_terminal_cnt,  \* lib.h process_terminal_cnt
  current_terminal,      \* terminal on screen
  running_terminal,      \* terminal whose process the scheduler runs
  terminal_running,      \* terminal.c terminal_running[]
  parent_pid,            \* pcb->parent_pid
  parent_ctx,            \* pcb->parent_esp/ebp: [pid, resume] or BOOT
  sched_ctx,             \* pcb->schedule_esp/ebp
  pending_signal,        \* pcb->pending_signal
  sighandler,            \* pcb->sighandler
  curr,                  \* get_curr_pcb(): owner of the kernel stack in use
  act,                   \* what the CPU does next in that context
  program_slot,          \* pid mapped at 128MB (map_program)
  tss_pid,               \* pid whose kernel stack tss.esp0 points at
  video_window,          \* target of the page at USER_VIDEO
  last_return,           \* value the last resumed execute returned
  corrupt                \* an access outside every array or a jump onto a dead stack

life == <<process, process_terminal, process_terminal_cnt, parent_pid,
          parent_ctx, pending_signal, sighandler>>
cpu  == <<curr, act, program_slot, tss_pid>>
term == <<current_terminal, running_terminal, terminal_running>>
vars == <<life, cpu, term, sched_ctx, video_window, last_return, corrupt>>

(* The page tables of paging.c in a state: init_page at boot, then the   *)
(* last map_program (program_slot) and the last mapping of the window at *)
(* USER_VIDEO (video_window).  Each call rewrites only its own entries,   *)
(* so the last one of each kind decides them.                             *)
PG == INSTANCE Paging
MemoryMap ==
  LET m == PG!MapProgram(PG!InitPage, program_slot) IN
  CASE video_window = NONE  -> m
    [] video_window = VIDEO -> PG!MapUserVideo(m)
    [] OTHER                -> PG!MapTerminalVideo(m, video_window.buffer)

Top(t) == process_terminal[Cell(t, process_terminal_cnt[t] - 1)]

-----------------------------------------------------------------------------
(* Mutations of Spawn: the pid is not marked IN_USE; the two branches   *)
(* of "if (parent_pcb != NULL)" swapped, so every process is its own      *)
(* parent.                                                                 *)
SpawnNoMark(proc, pt, cnt, t) ==
  LET new  == Min({p \in Pids : ~proc[p]})
      push == Cell(t, cnt[t])
      pars == IF new = 0 \/ cnt[t] = 0 THEN {0}
              ELSE ReadCell(pt, Cell(t, cnt[t] - 1))
  IN  {[pid     |-> new,
        process |-> proc,
        pt      |-> IF push \in Cells THEN [pt EXCEPT ![push] = new] ELSE pt,
        cnt     |-> [cnt EXCEPT ![t] = @ + 1],
        parent  |-> IF new = 0 THEN new ELSE par,
        wild    |-> push \notin Cells \/ par \notin Pids] : par \in pars}
SpawnSelfParent(proc, pt, cnt, t) ==
  LET new  == Min({p \in Pids : ~proc[p]})
      push == Cell(t, cnt[t])
      pars == IF new = 0 \/ cnt[t] = 0 THEN {0}
              ELSE ReadCell(pt, Cell(t, cnt[t] - 1))
  IN  {[pid     |-> new,
        process |-> [proc EXCEPT ![new] = TRUE],
        pt      |-> IF push \in Cells THEN [pt EXCEPT ![push] = new] ELSE pt,
        cnt     |-> [cnt EXCEPT ![t] = @ + 1],
        parent  |-> new,
        wild    |-> push \notin Cells \/ par \notin Pids] : par \in pars}

(* execute(), syscall.c 188-236 and 253-269, for a command that names a   *)
(* valid executable: take the lowest free pid, take as parent the top of  *)
(* the stack of the terminal on screen (pid 0 if that stack is empty;     *)
(* itself for pid 0), push the pid onto that stack.  One record per       *)
(* possible outcome; wild marks a push or parent read outside the array.  *)
Spawn(proc, pt, cnt, t) ==
  LET new  == Min({p \in Pids : ~proc[p]})
      push == Cell(t, cnt[t])
      pars == IF new = 0 \/ cnt[t] = 0 THEN {0}
              ELSE ReadCell(pt, Cell(t, cnt[t] - 1))
  IN  {[pid     |-> new,
        process |-> [proc EXCEPT ![new] = TRUE],
        pt      |-> IF push \in Cells THEN [pt EXCEPT ![push] = new] ELSE pt,
        cnt     |-> [cnt EXCEPT ![t] = @ + 1],
        parent  |-> IF new = 0 THEN new ELSE par,
        wild    |-> push \notin Cells \/ par \notin Pids] : par \in pars}

CanSpawn(proc) == \E p \in Pids : ~proc[p]

(* Mutation: the PCB's pending_signal is zeroed instead of set to 0x3F.   *)
StartZeroSignal(o, ctx, sc) ==
  /\ process'              = o.process
  /\ process_terminal'     = o.pt
  /\ process_terminal_cnt' = o.cnt
  /\ parent_pid'     = [parent_pid EXCEPT ![o.pid] = o.parent]
  /\ parent_ctx'     = [parent_ctx EXCEPT ![o.pid] = ctx]
  /\ sched_ctx'      = [sc EXCEPT ![o.pid] = STALE]
  /\ pending_signal' = [pending_signal EXCEPT ![o.pid] = 0]
  /\ sighandler'     = [sighandler EXCEPT ![o.pid] = DEFAULT]
  /\ program_slot' = o.pid
  /\ tss_pid'      = o.pid
  /\ curr'         = o.pid
  /\ act'          = USER
  /\ corrupt'      = o.wild

(* The rest of execute: initialise the PCB (the scheduling context is not *)
(* written), map the program, set tss.esp0, iret into the new program.    *)
Start(o, ctx, sc) ==
  /\ process'              = o.process
  /\ process_terminal'     = o.pt
  /\ process_terminal_cnt' = o.cnt
  /\ parent_pid'     = [parent_pid EXCEPT ![o.pid] = o.parent]
  /\ parent_ctx'     = [parent_ctx EXCEPT ![o.pid] = ctx]
  /\ sched_ctx'      = [sc EXCEPT ![o.pid] = STALE]
  /\ pending_signal' = [pending_signal EXCEPT ![o.pid] = NOSIG]
  /\ sighandler'     = [sighandler EXCEPT ![o.pid] = DEFAULT]
  /\ program_slot' = o.pid
  /\ tss_pid'      = o.pid
  /\ curr'         = o.pid
  /\ act'          = USER
  /\ corrupt'      = o.wild

(* The value execute returns once halt jumps back into it (syscall.c 299- *)
(* 303): retval holds halt's status.                                       *)
ExecuteResult(status) == IF status = EXCEPTION_MAGIC THEN EXCEPTION_RET ELSE 0

(* Mutation: the shell is relaunched only when pid 0 halts.              *)
RelaunchesPid0Only(x, cnt1, r) == x = 0

(* halt relaunches the shell when it halted pid 0 or emptied the stack of *)
(* the running terminal r (syscall.c 73).                                  *)
Relaunches(x, cnt1, r) == x = 0 \/ cnt1[r] = 0

(* Mutation: halt maps the halted process's own program back in.         *)
ResumeParentOwnSlot(x, status) ==
  /\ program_slot' = x
  /\ tss_pid'      = parent_pid[x]
  /\ LET c == parent_ctx[x]
     IN  IF c = BOOT \/ c.resume = HALTING
         THEN /\ corrupt' = TRUE
              /\ UNCHANGED <<curr, act, last_return>>
         ELSE /\ curr' = c.pid
              /\ act' = c.resume
              /\ last_return' = [status |-> status, value |-> ExecuteResult(status)]
              /\ UNCHANGED corrupt

(* The end of halt for a process x that had a parent below it: remap the *)
(* parent's program and kernel stack, then jump to the stack execute ran  *)
(* on (parent_esp), where execute returns status (syscall.c 47-51, 77-88).*)
ResumeParent(x, status) ==
  /\ program_slot' = parent_pid[x]
  /\ tss_pid'      = parent_pid[x]
  /\ LET c == parent_ctx[x]
     IN  IF c = BOOT \/ c.resume = HALTING
         THEN /\ corrupt' = TRUE
              /\ UNCHANGED <<curr, act, last_return>>
         ELSE /\ curr' = c.pid
              /\ act' = c.resume
              /\ last_return' = [status |-> status, value |-> ExecuteResult(status)]
              /\ UNCHANGED corrupt

(* halt(status), syscall.c 32-89, run by context me while terminal r is   *)
(* the running one, sc being the scheduling contexts at that moment: free *)
(* the pid on top of r's stack, pop it, then either relaunch a shell      *)
(* (on the terminal on screen) or return to the parent.  The loop closing *)
(* the descriptors is modelled in FdTable.                                 *)
DoHalt(status, r, me, sc) ==
  LET top == Cell(r, process_terminal_cnt[r] - 1)
  IN  \E x \in ReadCell(process_terminal, top) :
        IF x \notin Pids \/ process_terminal_cnt[r] <= 0
        THEN \* a PCB outside the PCB area, or cnt wraps to 0xFFFFFFFF
             /\ corrupt' = TRUE
             /\ UNCHANGED <<life, cpu, sched_ctx, last_return>>
        ELSE
          LET proc1 == [process EXCEPT ![x] = FALSE]
              pt1   == [process_terminal EXCEPT ![top] = 0]
              cnt1  == [process_terminal_cnt EXCEPT ![r] = @ - 1]
          IN  IF Relaunches(x, cnt1, r)
              THEN /\ \E o \in Spawn(proc1, pt1, cnt1, current_terminal) :
                        Start(o, [pid |-> me, resume |-> HALTING], sc)
                   /\ UNCHANGED last_return
              ELSE /\ process' = proc1
                   /\ process_terminal' = pt1
                   /\ process_terminal_cnt' = cnt1
                   /\ sched_ctx' = sc
                   /\ ResumeParent(x, status)
                   /\ UNCHANGED <<parent_pid, parent_ctx, pending_signal, sighandler>>

-----------------------------------------------------------------------------
(* User code of the running process.                                       *)

MayCall == BackgroundCalls \/ running_terminal = current_terminal

(* Ctrl-C is pending, with the default handler, on the process on screen. *)
KillPendingOnScreen ==
  LET n == process_terminal_cnt[current_terminal] IN
  /\ n \in 1..MAX_TASK
  /\ pending_signal[Top(current_terminal)] = INTERRUPT
  /\ sighandler[Top(current_terminal)] = DEFAULT

MaySwitch == SwitchBeforeKill \/ ~KillPendingOnScreen

MayPreempt == PreemptWindows \/ act \in Resumable

(* execute syscall naming a valid executable.  A bad name, a bad magic    *)
(* number or no free pid return -1 and change nothing.                    *)
SysExecute ==
  /\ act = USER
  /\ MayCall
  /\ CanSpawn(process)
  /\ \E o \in Spawn(process, process_terminal, process_terminal_cnt, current_terminal) :
        Start(o, [pid |-> curr, resume |-> USER], sched_ctx)
  /\ UNCHANGED <<term, video_window, last_return>>

(* halt syscall. *)
SysHalt ==
  /\ act = USER
  /\ MayCall
  /\ \E s \in Statuses : DoHalt(s, running_terminal, curr, sched_ctx)
  /\ UNCHANGED <<term, video_window>>

(* set_handler(signum, handler), syscall.c 545-556: a valid signum and a  *)
(* non-NULL handler replace the process's single handler; NULL returns 0  *)
(* and changes nothing.                                                   *)
SetHandler ==
  /\ act = USER
  /\ sighandler' = [sighandler EXCEPT ![curr] = CUSTOM]
  /\ UNCHANGED <<process, process_terminal, process_terminal_cnt, parent_pid,
                 parent_ctx, pending_signal, cpu, term, sched_ctx,
                 video_window, last_return, corrupt>>

(* vidmap with a pointer inside the program page, syscall.c 536-543:      *)
(* map_user_video points the window at real video memory.                 *)
Vidmap ==
  /\ act = USER
  /\ video_window' = VIDEO
  /\ UNCHANGED <<life, cpu, term, sched_ctx, last_return, corrupt>>

(* A processor exception in user code: the handler prints and enters     *)
(* print_exception's while(1) before its halt (exception.c 379-386).      *)
Fault ==
  /\ act = USER
  /\ act' = SPIN
  /\ UNCHANGED <<life, curr, program_slot, tss_pid, term, sched_ctx,
                 video_window, last_return, corrupt>>

-----------------------------------------------------------------------------
(* Keyboard interrupts (interrupts are on in every value of act).         *)

(* Ctrl-C, keyboard.c 195-206: mark INTERRUPT pending on the top process  *)
(* of the terminal on screen.                                             *)
CtrlC ==
  /\ MayPreempt
  /\ \E x \in ReadCell(process_terminal,
                       Cell(current_terminal, process_terminal_cnt[current_terminal] - 1)) :
        IF x \in Pids
        THEN pending_signal' = [pending_signal EXCEPT ![x] = INTERRUPT] /\ UNCHANGED corrupt
        ELSE corrupt' = TRUE /\ UNCHANGED pending_signal
  /\ UNCHANGED <<process, process_terminal, process_terminal_cnt, parent_pid,
                 parent_ctx, sighandler, cpu, term, sched_ctx, video_window,
                 last_return>>

(* Alt+Fn, keyboard.c 214-231: EOI, sti, then switch_to_terminal.  The    *)
(* sti lets the PIT, and another key, interrupt before the switch runs;   *)
(* with PreemptWindows a key may also come inside an earlier Alt+Fn's     *)
(* windows, up to MAX_NEST deep.                                          *)
AltF(t) ==
  /\ act \in Resumable \/ (PreemptWindows /\ Depth(act) < MAX_NEST)
  /\ MaySwitch
  /\ act' = SwitchAct(t, act)
  /\ UNCHANGED <<life, curr, program_slot, tss_pid, term, sched_ctx,
                 video_window, last_return, corrupt>>

(* Mutation: the schedule_esp/ebp of the old context are not saved.      *)
StartTerminalNoSave(t) ==
  /\ terminal_running' = [terminal_running EXCEPT ![t] = TRUE]
  /\ current_terminal' = t
  /\ running_terminal' = t
  /\ act' = LaunchAct(act.back)
  /\ UNCHANGED sched_ctx

(* The never-run branch of switch_to_terminal (terminal.c 186-205): mark  *)
(* t running, show it, save this context as curr's scheduling context,   *)
(* make t the running terminal, then sti before execute("shell").         *)
StartTerminal(t) ==
  /\ terminal_running' = [terminal_running EXCEPT ![t] = TRUE]
  /\ current_terminal' = t
  /\ sched_ctx' = [sched_ctx EXCEPT ![curr] = act.back]
  /\ running_terminal' = t
  /\ act' = LaunchAct(act.back)

(* switch_to_terminal(t), terminal.c 165-221: nothing for the terminal on *)
(* screen; for one that never ran, give up if get_pid finds no free pid,  *)
(* else start it; for a running one just put it on screen (the video      *)
(* window is not remapped: map_user_video is commented out).              *)
SwitchTerminal ==
  /\ act.k = "switch"
  /\ LET t == act.t IN
     \/ /\ t = current_terminal
        /\ act' = act.back
        /\ UNCHANGED <<current_terminal, running_terminal, terminal_running, sched_ctx>>
     \/ /\ t # current_terminal
        /\ ~terminal_running[t]
        /\ ~CanSpawn(process)                     \* get_pid() == -1
        /\ act' = act.back
        /\ UNCHANGED <<current_terminal, running_terminal, terminal_running, sched_ctx>>
     \/ /\ t # current_terminal
        /\ ~terminal_running[t]
        /\ CanSpawn(process)
        /\ StartTerminal(t)
     \/ /\ t # current_terminal
        /\ terminal_running[t]
        /\ current_terminal' = t
        /\ act' = act.back
        /\ UNCHANGED <<running_terminal, terminal_running, sched_ctx>>
  /\ UNCHANGED <<life, curr, program_slot, tss_pid, video_window, last_return, corrupt>>

(* Mutation: the failing execute has already pushed onto the stack.      *)
LaunchShellPushAnyway ==
  /\ act.k = "launch"
  /\ \/ /\ CanSpawn(process)
        /\ \E o \in Spawn(process, process_terminal, process_terminal_cnt, current_terminal) :
              Start(o, [pid |-> curr, resume |-> act.back], sched_ctx)
     \/ /\ ~CanSpawn(process)
        /\ act' = act.back
        /\ process_terminal_cnt' = [process_terminal_cnt EXCEPT ![current_terminal] = @ + 1]
        /\ UNCHANGED <<process, process_terminal, parent_pid, parent_ctx,
                       pending_signal, sighandler, curr, program_slot, tss_pid,
                       sched_ctx, corrupt>>
  /\ UNCHANGED <<term, video_window, last_return>>

(* The execute("shell") at the end of switch_to_terminal (terminal.c 208).*)
(* If the pid was taken meanwhile it returns -1 and the switch returns 0. *)
LaunchShell ==
  /\ act.k = "launch"
  /\ \/ /\ CanSpawn(process)
        /\ \E o \in Spawn(process, process_terminal, process_terminal_cnt, current_terminal) :
              Start(o, [pid |-> curr, resume |-> act.back], sched_ctx)
     \/ /\ ~CanSpawn(process)
        /\ act' = act.back
        /\ UNCHANGED <<life, curr, program_slot, tss_pid, sched_ctx, corrupt>>
  /\ UNCHANGED <<term, video_window, last_return>>

-----------------------------------------------------------------------------
(* pit_handler, scheduling.c 31-113.                                       *)

(* Mutations of NextTerminal: is_running is not consulted; the search    *)
(* starts at the running terminal itself.                                 *)
NextTerminalNoCheck == (running_terminal + 1) % MAX_TERMINAL_NUM
NextTerminalStay ==
  LET cand(i) == (running_terminal + i) % MAX_TERMINAL_NUM
      hits    == {i \in 0..MAX_TERMINAL_NUM - 1 : terminal_running[cand(i)]}
  IN  IF hits = {} THEN cand(MAX_TERMINAL_NUM - 1) ELSE cand(Min(hits))

(* The first running terminal after running_terminal, round robin.        *)
NextTerminal ==
  LET cand(i) == (running_terminal + 1 + i) % MAX_TERMINAL_NUM
      hits    == {i \in 0..MAX_TERMINAL_NUM - 1 : terminal_running[cand(i)]}
  IN  IF hits = {} THEN cand(MAX_TERMINAL_NUM - 1) ELSE cand(Min(hits))

(* Terminal 1 or 2 has processes: switch to the top process of the next  *)
(* running terminal (a next_process above 5 returns without switching),  *)
(* remap program, TSS and video window, save this context into curr's    *)
(* PCB, load the new one, then deliver its pending signal, which is read *)
(* before the swap and never cleared here.                                *)
TickSwitch ==
  /\ MayPreempt
  /\ process_terminal_cnt[1] # 0 \/ process_terminal_cnt[2] # 0
  /\ LET next == NextTerminal IN
     \E np \in ReadCell(process_terminal, Cell(next, process_terminal_cnt[next] - 1)) :
       /\ np \in Pids
       /\ running_terminal' = next
       /\ video_window' = IF next = current_terminal THEN VIDEO ELSE Buffer(next)
       /\ LET sc == [sched_ctx EXCEPT ![curr] = act] IN
          IF sc[np] = STALE
          THEN /\ corrupt' = TRUE
               /\ sched_ctx' = sc
               /\ UNCHANGED <<life, cpu, last_return>>
          ELSE IF pending_signal[np] # NOSIG /\ sighandler[np] = DEFAULT
          THEN DoHalt(0, next, np, sc)                 \* signal_default -> _kill -> halt(0)
          ELSE /\ sched_ctx' = sc                      \* no signal, or the user handler returns
               /\ curr' = np
               /\ act' = sc[np]
               /\ program_slot' = np
               /\ tss_pid' = np
               /\ UNCHANGED <<life, last_return, corrupt>>
  /\ UNCHANGED <<current_terminal, terminal_running>>

(* Only terminal 0 has processes: no switch; deliver curr's pending      *)
(* signal, clearing it only if the handler returns.  With nothing pending *)
(* (or terminal 0 empty) the tick changes nothing.                         *)
TickSingle ==
  /\ MayPreempt
  /\ process_terminal_cnt[1] = 0 /\ process_terminal_cnt[2] = 0
  /\ process_terminal_cnt[0] # 0
  /\ pending_signal[curr] # NOSIG
  /\ \/ /\ sighandler[curr] = DEFAULT
        /\ DoHalt(0, running_terminal, curr, sched_ctx)
        /\ UNCHANGED <<term, video_window>>
     \/ /\ sighandler[curr] = CUSTOM
        /\ pending_signal' = [pending_signal EXCEPT ![curr] = NOSIG]
        /\ UNCHANGED <<process, process_terminal, process_terminal_cnt, parent_pid,
                       parent_ctx, sighandler, cpu, term, sched_ctx,
                       video_window, last_return, corrupt>>

Tick == TickSwitch \/ TickSingle

-----------------------------------------------------------------------------
(* State right after init_terminal's execute("shell") (terminal.c 106-148).*)
Init ==
  /\ process              = [p \in Pids |-> p = 0]
  /\ process_terminal     = [k \in Cells |-> 0]
  /\ process_terminal_cnt = [t \in Terms |-> IF t = 0 THEN 1 ELSE 0]
  /\ current_terminal = 0
  /\ running_terminal = 0
  /\ terminal_running = [t \in Terms |-> t = 0]
  /\ parent_pid     = [p \in Pids |-> 0]
  /\ parent_ctx     = [p \in Pids |-> BOOT]
  /\ sched_ctx      = [p \in Pids |-> STALE]
  /\ pending_signal = [p \in Pids |-> NOSIG]
  /\ sighandler     = [p \in Pids |-> DEFAULT]
  /\ curr = 0
  /\ act = USER
  /\ program_slot = 0
  /\ tss_pid = 0
  /\ video_window = NONE
  /\ last_return = NONE
  /\ corrupt = FALSE

Next ==
  \/ SysExecute \/ SysHalt \/ SetHandler \/ Vidmap \/ Fault
  \/ CtrlC \/ \E t \in Terms : AltF(t)
  \/ SwitchTerminal \/ LaunchShell
  \/ TickSwitch \/ TickSingle

(* The PIT fires periodically and the PIC latches its IRQ while the CPU  *)
(* runs with interrupts off, so a tick that is enabled again and again is *)
(* eventually taken (strong fairness); the CPU keeps executing kernel     *)
(* code it has entered.  User programs and the keyboard owe nothing.      *)
Fairness ==
  /\ SF_vars(Tick)
  /\ WF_vars(SwitchTerminal \/ LaunchShell)

Spec == Init /\ [][Next]_vars /\ Fairness

-----------------------------------------------------------------------------
(* Properties.                                                             *)

TypeOK ==
  /\ process \in [Pids -> BOOLEAN]
  /\ process_terminal \in [Cells -> Pids]
  /\ process_terminal_cnt \in [Terms -> 0..MAX_TASK]
  /\ current_terminal \in Terms /\ running_terminal \in Terms
  /\ terminal_running \in [Terms -> BOOLEAN]
  /\ parent_pid \in [Pids -> Pids]
  /\ parent_ctx \in [Pids -> {BOOT} \cup [pid : Pids, resume : Acts \cup {HALTING}]]
  /\ sched_ctx \in [Pids -> Acts \cup {STALE}]
  /\ pending_signal \in [Pids -> {NOSIG, INTERRUPT}]
  /\ sighandler \in [Pids -> {DEFAULT, CUSTOM}]
  /\ curr \in Pids /\ act \in Acts
  /\ program_slot \in Pids /\ tss_pid \in Pids
  /\ video_window \in {NONE, VIDEO} \cup {Buffer(t) : t \in Terms}
  /\ last_return \in {NONE} \cup [status : Statuses, value : {0, EXCEPTION_RET}]
  /\ corrupt \in BOOLEAN

(* Every array access of execute, halt, pit_handler and the Ctrl-C path  *)
(* stays inside process_terminal and the PCB area, and halt never jumps  *)
(* onto a freed kernel stack.                                             *)
NoWildAccess == ~corrupt

(* The process table and the terminal stacks agree (syscall.c process[], *)
(* lib.h process_terminal/_cnt): every live pid sits in exactly one stack *)
(* slot below its terminal's count and no free pid does, so a halt never *)
(* frees a pid twice and no pid leaks.                                     *)
StackEntries == {<<t, j>> \in Terms \X (0..MAX_TASK - 1) : j < process_terminal_cnt[t]}
Occurrences(p) ==
  Cardinality({e \in StackEntries : process_terminal[Cell(e[1], e[2])] = p})
ProcessTableMatchesStacks ==
  \A p \in Pids : Occurrences(p) = IF process[p] THEN 1 ELSE 0

(* With the PIT free to fire inside the sti windows of an Alt+Fn that    *)
(* starts a terminal, and a second Alt+Fn launching another terminal     *)
(* inside the first one's launch window,                                 *)
(* the process table and the stacks still agree in every state reached   *)
(* before the first wild access: a shell launch that finds its pid taken  *)
(* (switch_to_terminal's execute failing) leaks nothing.                  *)
TableConsistentUntilWild == ~corrupt => ProcessTableMatchesStacks

(* Only the top process of the running terminal runs (spec 4.3): the     *)
(* context the CPU is in, whose PCB get_curr_pcb returns to halt, read,   *)
(* the scheduler, is the pid halt takes from process_terminal.           *)
RunningIsTop ==
  act \in Resumable =>
    /\ process_terminal_cnt[running_terminal] \in 1..MAX_TASK
    /\ curr = Top(running_terminal)

(* A program in user mode runs in its own 4MB page and traps onto its    *)
(* own kernel stack (map_program and tss.esp0 name the running pid).      *)
AddressSpaceOfCurr ==
  act = USER => program_slot = curr /\ tss_pid = curr

(* halt returns to the process just below on the same terminal: the     *)
(* parent_pid it remaps and the stack it jumps to (parent_esp) both       *)
(* belong to that process, and that stack is not a halted one.            *)
HaltReturnsBelow ==
  \A t \in Terms : \A j \in 1..MAX_TASK - 1 :
    j < process_terminal_cnt[t] =>
      LET p == process_terminal[Cell(t, j)]
          q == process_terminal[Cell(t, j - 1)]
      IN  /\ parent_pid[p] = q
          /\ parent_ctx[p] # BOOT
          /\ parent_ctx[p].pid = q
          /\ parent_ctx[p].resume \in Resumable

(* A started terminal always has a process: when its last one halts the  *)
(* shell is relaunched on it (spec 4.2 step 6, 7).                       *)
StartedTerminalsHaveProcess ==
  act \in Resumable =>
    \A t \in Terms : terminal_running[t] => process_terminal_cnt[t] # 0

(* Round robin: every started terminal is scheduled again and again.     *)
EveryStartedTerminalRuns ==
  \A t \in Terms : []<>(~terminal_running[t] \/ running_terminal = t)

(* A program in user mode reaches only its own 4MB page and the vidmap    *)
(* window: no page with U/S set in the tables map_program, map_user_video *)
(* and map_terminal_video build reaches the kernel's 4MB page (the PCBs   *)
(* and kernel stacks) or the program page of another live process.        *)
UserMemoryIsolated ==
  act = USER =>
    \A r \in PG!UserRanges(MemoryMap) :
      /\ ~PG!Overlap(r, <<PG!KERNEL_PFN, PG!KERNEL_PFN + PG!FRAMES_PER_4MB - 1>>)
      /\ \A q \in Pids \ {curr} :
           process[q] => \A s \in PG!UserRanges(PG!MapProgram(PG!InitPage, q)) : ~PG!Overlap(r, s)

(* The window a program writes through (vidmap's 208MB) lands on real     *)
(* video memory when pit_handler mapped it for the terminal on screen and *)
(* on that terminal's saved_screen buffer otherwise, the buffer            *)
(* putc_terminal and switch_to_terminal use; and the kernel reaches every *)
(* saved_screen buffer at its own address.                                 *)
WindowOnScreenBuffer ==
  LET window == PG!Walk(MemoryMap, PG!USER_VIDEO_PDE * PG!ENTRIES, TRUE) IN
  /\ video_window = VIDEO => window = PG!VIDEO_PFN
  /\ \A t \in Terms : video_window = Buffer(t) => window = PG!SavedScreen(t)
  /\ \A t \in Terms : PG!Walk(MemoryMap, PG!SavedScreen(t), FALSE) = PG!SavedScreen(t)

=============================================================================
