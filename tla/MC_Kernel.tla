----------------------------- MODULE MC_Kernel -----------------------------
(* Model-checking instance of Kernel.                                      *)
EXTENDS Kernel

(* Once an access has left the arrays the machine state means nothing;   *)
(* states after it are not explored.                                      *)
StopAtWild == ~corrupt

(* Programs that install no signal handler and take no exception.        *)
PlainPrograms == sighandler' = sighandler /\ act' # SPIN

(* ... and no Ctrl-C is typed.                                            *)
NoCtrlC == PlainPrograms /\ pending_signal' = pending_signal

(* A nested Alt+Fn comes only inside the launch window (switch_to_terminal *)
(* after its sti, before execute("shell")) and names a terminal not yet   *)
(* started, so that a second launch can take the pid the first one        *)
(* counted on.                                                            *)
NestInLaunchOnly ==
  (act \notin Resumable /\ act'.k = "switch" /\ act'.back = act) =>
    act.k = "launch" /\ ~terminal_running[act'.t]
(* An Alt+Fn to a terminal that already runs is not interrupted: the PIT *)
(* fires inside the windows of the Alt+Fn that start a terminal only.    *)
(* The other switch saves no context and touches no stack, and its       *)
(* windows under the PIT make the run too large.                        *)
SwitchToRunningThrough == act.k = "switch" /\ terminal_running[act.t] => SwitchTerminal

PreemptEnv == NoCtrlC /\ NestInLaunchOnly /\ SwitchToRunningThrough

(* video_window and last_return are written but never read by a guard;    *)
(* runs whose properties do not mention them identify states without them.*)
ControlView == <<life, cpu, term, sched_ctx, corrupt>>


=============================================================================
