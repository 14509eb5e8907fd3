------------------------------- MODULE Lifecycle -------------------------------
(***************************************************************************)
(* Start and stop of the program: main.c, app_init.c and the loops of the  *)
(* three kinds of threads, reduced to where they look at force_quit and    *)
(* what they use.  The main lcore initialises, launches the stats thread   *)
(* and the workers, runs the dispatcher loop, joins the others and frees   *)
(* the rings, the flow table and the rules.  A signal may come at any      *)
(* moment; its handler runs between two steps.  The stats thread also      *)
(* polls the terminal, where the user may ask to quit.                     *)
(***************************************************************************)
EXTENDS Terminal

CONSTANTS
    NUM_WORKERS,
    LCores,         \* lcores other than the main one
    MaxSignals      \* bound: SIGINT and SIGTERM that arrive

ASSUME LifecycleAssumption ==
    /\ NUM_WORKERS \in Nat \ {0}
    /\ LCores \in Nat
    /\ MaxSignals \in Nat

VARIABLES
    mpc,            \* program counter of the main lcore
    step,           \* the next of InitSteps
    lcore, w_id,    \* of the loop of launch_threads
    handlers,       \* are the signal handlers installed
    alive,          \* what is allocated: the flow table, the rules, the rings
    stats_thread,   \* program counter of the stats thread
    worker,         \* program counter of each worker
    ended,          \* how the process ended, "no" before
    signals,        \* signals so far
    promised        \* history: a handler printed "Exiting on signal"

vars == <<mpc, step, lcore, w_id, handlers, force_quit, alive, stats_thread,
          worker, ended, signals, promised, terminalVars>>
mainVars == <<mpc, step, lcore, w_id, handlers, alive>>
signalVars == <<signals, promised>>

InitSteps == <<"eal", "stats", "ports", "table", "rules", "rings">>
Allocates(s) == {s} \cap {"table", "rules", "rings"}

TypeOK ==
    /\ mpc \in {"start", "reset", "init", "launch_stats", "launch_workers",
                "run", "burst", "join", "free_rings", "destroy_table",
                "destroy_rules", "end"}
    /\ step \in 1 .. Len(InitSteps) + 1
    /\ lcore \in Nat /\ w_id \in 0 .. NUM_WORKERS
    /\ handlers \in BOOLEAN
    /\ alive \subseteq {"table", "rules", "rings"}
    /\ stats_thread \in {"idle", "start", "top", "sleep", "poll", "polled", "tick",
                         "leave", "finished"}
    /\ worker \in [0 .. NUM_WORKERS - 1 -> {"idle", "top", "burst", "finished"}]
    /\ ended \in {"no", "returned", "exited", "killed"}
    /\ signals \in 0 .. MaxSignals
    /\ promised \in BOOLEAN
    /\ TerminalTypeOK

\* force_quit is zero in .bss.
Init ==
    /\ mpc = "start" /\ step = 1 /\ lcore = 1 /\ w_id = 0
    /\ handlers = FALSE /\ force_quit = FALSE
    /\ alive = {}
    /\ stats_thread = "idle"
    /\ worker = [w \in 0 .. NUM_WORKERS - 1 |-> "idle"]
    /\ ended = "no"
    /\ signals = 0 /\ promised = FALSE
    /\ TerminalInit

Live == ended = "no"

-----------------------------------------------------------------------------
(* Signals.                                                                *)

\* Without a handler the default action ends the process; the second signal
\* that finds force_quit set does too.
Signal ==
    /\ Live /\ signals < MaxSignals
    /\ signals' = signals + 1
    /\ IF ~handlers \/ force_quit
       THEN ended' = "killed" /\ UNCHANGED <<force_quit, promised>>
       ELSE force_quit' = TRUE /\ promised' = TRUE /\ UNCHANGED ended
    /\ UNCHANGED <<mainVars, stats_thread, worker, terminalVars>>

-----------------------------------------------------------------------------
(* The main lcore.                                                         *)

\* rte_exit, or a return from main.
Exit == ended' = "exited" /\ UNCHANGED mainVars

MainFrame == UNCHANGED <<stats_thread, worker, signalVars, terminalVars>>

InstallHandlers ==
    /\ Live /\ mpc = "start"
    /\ \/ /\ mpc' = "reset" /\ handlers' = TRUE
          /\ UNCHANGED <<step, lcore, w_id, alive, ended>>
       \/ Exit
    /\ UNCHANGED force_quit
    /\ MainFrame

\* app_init begins: force_quit = 0.
ResetForceQuit ==
    /\ Live /\ mpc = "reset"
    /\ force_quit' = FALSE
    /\ mpc' = "init"
    /\ UNCHANGED <<step, lcore, w_id, handlers, alive, ended>>
    /\ MainFrame

\* Any step may fail; before the ports the lcores are counted.
InitStep ==
    /\ Live /\ mpc = "init"
    /\ \/ /\ InitSteps[step] = "ports" => LCores >= NUM_WORKERS + 1
          /\ alive' = alive \cup Allocates(InitSteps[step])
          /\ step' = step + 1
          /\ mpc' = IF step = Len(InitSteps) THEN "launch_stats" ELSE "init"
          /\ UNCHANGED <<lcore, w_id, handlers, ended>>
       \/ Exit
    /\ UNCHANGED force_quit
    /\ MainFrame

\* launch_threads: the stats thread takes the first lcore ...
LaunchStats ==
    /\ Live /\ mpc = "launch_stats"
    /\ \/ /\ stats_thread' = "start"
          /\ lcore' = 2
          /\ mpc' = "launch_workers"
          /\ UNCHANGED <<step, w_id, handlers, alive, ended>>
       \/ Exit /\ UNCHANGED stats_thread
    /\ UNCHANGED <<force_quit, worker, signalVars, terminalVars>>

\* Mutant of LaunchWorker: the loop goes on over all lcores.
LaunchWorker_NoBreak ==
    /\ Live /\ mpc = "launch_workers"
    /\ lcore <= LCores
    /\ \/ /\ worker' = [worker EXCEPT ![w_id] = "top"]
          /\ w_id' = w_id + 1
          /\ lcore' = lcore + 1
          /\ UNCHANGED <<mpc, step, handlers, alive, ended>>
       \/ Exit /\ UNCHANGED worker
    /\ UNCHANGED <<force_quit, stats_thread, signalVars, terminalVars>>

\* ... and the workers the following ones.
LaunchWorker ==
    /\ Live /\ mpc = "launch_workers"
    /\ lcore <= LCores /\ w_id < NUM_WORKERS
    /\ \/ /\ worker' = [worker EXCEPT ![w_id] = "top"]
          /\ w_id' = w_id + 1
          /\ lcore' = lcore + 1
          /\ UNCHANGED <<mpc, step, handlers, alive, ended>>
       \/ Exit /\ UNCHANGED worker
    /\ UNCHANGED <<force_quit, stats_thread, signalVars, terminalVars>>

LaunchEnds ==
    /\ Live /\ mpc = "launch_workers"
    /\ lcore > LCores \/ w_id >= NUM_WORKERS
    /\ IF w_id = NUM_WORKERS
       THEN mpc' = "run" /\ UNCHANGED <<step, lcore, w_id, handlers, alive, ended>>
       ELSE Exit
    /\ UNCHANGED force_quit
    /\ MainFrame

\* The loop of dispatcher_thread.
DispatcherLoop ==
    /\ Live
    /\ \/ mpc = "run" /\ mpc' = IF force_quit THEN "join" ELSE "burst"
       \/ mpc = "burst" /\ mpc' = "run"
    /\ UNCHANGED <<step, lcore, w_id, handlers, alive, ended, force_quit>>
    /\ MainFrame

\* Mutant of Join: the workers are waited for, the stats thread is not.
Join_WorkersOnly ==
    /\ Live /\ mpc = "join"
    /\ \A w \in 0 .. NUM_WORKERS - 1 : worker[w] \in {"idle", "finished"}
    /\ mpc' = "free_rings"
    /\ UNCHANGED <<step, lcore, w_id, handlers, alive, ended, force_quit>>
    /\ MainFrame

\* app_cleanup: rte_eal_mp_wait_lcore ...
Join ==
    /\ Live /\ mpc = "join"
    /\ stats_thread \in {"idle", "finished"}
    /\ \A w \in 0 .. NUM_WORKERS - 1 : worker[w] \in {"idle", "finished"}
    /\ mpc' = "free_rings"
    /\ UNCHANGED <<step, lcore, w_id, handlers, alive, ended, force_quit>>
    /\ MainFrame

\* ... then everything is freed, and main returns.
Cleanup ==
    /\ Live
    /\ \/ /\ mpc = "free_rings" /\ mpc' = "destroy_table"
          /\ alive' = alive \ {"rings"} /\ UNCHANGED ended
       \/ /\ mpc = "destroy_table" /\ mpc' = "destroy_rules"
          /\ alive' = alive \ {"table"} /\ UNCHANGED ended
       \/ /\ mpc = "destroy_rules" /\ mpc' = "end"
          /\ alive' = alive \ {"rules"} /\ ended' = "returned"
    /\ UNCHANGED <<step, lcore, w_id, handlers, force_quit>>
    /\ MainFrame

-----------------------------------------------------------------------------
(* The stats thread and the workers.                                       *)

StatsFrame == UNCHANGED <<mainVars, worker, ended, signalVars>>

\* stats_tui_init and the registration with RCU.
StatsStart ==
    /\ Live /\ stats_thread = "start"
    /\ OpenTerminal
    /\ stats_thread' = "top"
    /\ UNCHANGED force_quit
    /\ StatsFrame

\* Mutant of StatsLoop: the loop never looks at the flag.
StatsLoop_Deaf ==
    /\ Live
    /\ \/ stats_thread = "top" /\ stats_thread' = "sleep"
       \/ stats_thread = "sleep" /\ stats_thread' = "poll"
       \/ stats_thread = "polled" /\ stats_thread' = "tick"
       \/ stats_thread = "tick" /\ stats_thread' = "top"
    /\ UNCHANGED <<force_quit, terminalVars>>
    /\ StatsFrame

\* The flag is looked at by the loop condition, after offline, the sleep and
\* online, and after the poll; the rest of the tick is one step.
StatsLoop ==
    /\ Live
    /\ \/ \E next \in {<<"top", "sleep">>, <<"sleep", "poll">>, <<"polled", "tick">>} :
             /\ stats_thread = next[1]
             /\ stats_thread' = IF force_quit THEN "leave" ELSE next[2]
       \/ stats_thread = "tick" /\ stats_thread' = "top"
    /\ UNCHANGED <<force_quit, terminalVars>>
    /\ StatsFrame

\* poll_tui_command.
StatsPoll ==
    /\ Live /\ stats_thread = "poll"
    /\ \/ ReadKey /\ UNCHANGED stats_thread
       \/ EndPoll /\ stats_thread' = "polled"
    /\ StatsFrame

\* Mutant of StatsLeave: the terminal is left as it is.
StatsLeave_Raw ==
    /\ Live /\ stats_thread = "leave"
    /\ stats_thread' = "finished"
    /\ UNCHANGED <<force_quit, terminalVars>>
    /\ StatsFrame

\* stats_tui_destroy and the end of the registration.
StatsLeave ==
    /\ Live /\ stats_thread = "leave"
    /\ RestoreTerminal
    /\ stats_thread' = "finished"
    /\ UNCHANGED force_quit
    /\ StatsFrame

WorkerLoop(w) ==
    /\ Live
    /\ \/ /\ worker[w] = "top"
          /\ worker' = [worker EXCEPT ![w] =
                          IF force_quit THEN "finished" ELSE "burst"]
       \/ /\ worker[w] = "burst"
          /\ worker' = [worker EXCEPT ![w] = "top"]
    /\ UNCHANGED <<mainVars, stats_thread, force_quit, ended, signalVars,
                   terminalVars>>

-----------------------------------------------------------------------------

MainNext ==
    \/ InstallHandlers \/ ResetForceQuit \/ InitStep
    \/ LaunchStats \/ LaunchWorker \/ LaunchEnds
    \/ DispatcherLoop \/ Join \/ Cleanup

StatsStep == StatsStart \/ StatsLoop \/ StatsPoll \/ StatsLeave

Next ==
    \/ Signal
    \/ MainNext
    \/ StatsStep
    \/ \E w \in 0 .. NUM_WORKERS - 1 : WorkerLoop(w)

Spec == Init /\ [][Next]_vars

\* Each thread has an lcore of its own; the user does not type for ever.
FairSpec ==
    /\ Spec
    /\ WF_vars(MainNext)
    /\ WF_vars(StatsStep)
    /\ \A w \in 0 .. NUM_WORKERS - 1 : WF_vars(WorkerLoop(w))

-----------------------------------------------------------------------------
(* Properties.                                                             *)

\* No thread uses what app_cleanup has freed (app_init.c:293-305) or app_init
\* has not allocated yet: the stats thread and the workers are launched last
\* (app_init.c:279) and joined first, and rcu_unregister comes before the join.
NoUseAfterFree ==
    Live =>
        /\ stats_thread \notin {"idle", "finished"} => "table" \in alive
        /\ stats_thread = "tick" => "rules" \in alive
        /\ \A w \in 0 .. NUM_WORKERS - 1 :
              worker[w] = "burst" => alive = {"table", "rules", "rings"}
        /\ mpc = "burst" => {"table", "rings"} \subseteq alive

\* A quit request, by a signal once app_init has begun, by Ctrl-D or by a command
\* typed in full, ends the process, wherever the launch and the loops of the
\* threads stand.
QuitEnds == force_quit /\ mpc \notin {"start", "reset"} ~> ended # "no"

\* The process leaves a raw terminal behind only when it is killed, or when not
\* all workers can be launched after the stats thread has set it raw
\* (app_init.c:279-281).  A return from main finds it restored, for the stats
\* thread restores it on leaving its loop (stats.c:470) and is waited for; any
\* other rte_exit comes before that thread is launched.
TerminalRestored ==
    ended # "no" /\ raw_mode
        => ended = "killed" \/ (ended = "exited" /\ mpc = "launch_workers")

\* app_init.c:201: the handler prints "Exiting on signal %d".
PromiseKept == promised ~> ended # "no"
=============================================================================
