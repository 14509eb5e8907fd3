--------------------------- MODULE Lifecycle_proofs ---------------------------
(***************************************************************************)
(* Start and stop for any number of workers, lcores, signals and keys: the *)
(* types, no use of what is not allocated or already freed, the terminal   *)
(* restored.                                                               *)
(***************************************************************************)
EXTENDS Lifecycle, SequenceTheorems, TLAPS

Ids == 0 .. NUM_WORKERS - 1
Everything == {"table", "rules", "rings"}
Running == {"launch_workers", "run", "burst", "join"}

\* Nothing runs before the launch, and nothing any more after the join.
NotLaunched == stats_thread = "idle" /\ \A w \in Ids : worker[w] = "idle"
Joined ==
    /\ stats_thread \in {"idle", "finished"}
    /\ \A w \in Ids : worker[w] \in {"idle", "finished"}

\* What is allocated at each stage of the main lcore.
StageInv ==
    /\ mpc \in {"start", "reset", "init", "launch_stats"} => NotLaunched
    /\ mpc \in {"start", "reset"} => step = 1
    /\ mpc = "init" =>
         /\ step \in 1 .. 6
         /\ step > 4 => "table" \in alive
         /\ step > 5 => "rules" \in alive
    /\ mpc \in Running \cup {"launch_stats"} => alive = Everything
    /\ mpc \in {"free_rings", "destroy_table", "destroy_rules", "end"} => Joined

\* Raw mode is the stats thread's, between its start and its end; nothing exits once
\* the threads run.
RawInv ==
    /\ stats_thread \in {"idle", "start", "finished"} => ~raw_mode
    /\ mpc = "end" => Joined
    /\ ended = "returned" => mpc = "end"
    /\ ended = "exited" => mpc \in {"start", "init", "launch_stats", "launch_workers"}

-----------------------------------------------------------------------------
(* Types.                                                                  *)

\* The steps of app_init that the argument names.
LEMMA InitStepsAre ==
    /\ Len(InitSteps) = 6
    /\ InitSteps[4] = "table" /\ InitSteps[5] = "rules" /\ InitSteps[6] = "rings"
  BY DEF InitSteps

\* What each step of app_init allocates.
LEMMA AllocatesSome ==
    /\ \A s : Allocates(s) \subseteq Everything
    /\ Allocates("table") = {"table"} /\ Allocates("rules") = {"rules"}
    /\ Allocates("rings") = {"rings"}
  BY DEF Allocates, Everything

\* The input line stays within its buffer.
Fits(line) == line \in Seq(Chars) /\ Len(line) < InputSize

\* The empty line fits.
LEMMA EmptyFits == Fits(<<>>)
  BY EmptySeq, TerminalAssumption DEF Fits, TerminalAssumption

\* So does a line after the erasure of its last character, or with one more
\* character while there is room.
LEMMA EditsFit ==
    ASSUME NEW line, Fits(line)
    PROVE  /\ line # <<>> => Fits(SubSeq(line, 1, Len(line) - 1))
           /\ \A ch \in Chars : Len(line) + 1 < InputSize => Fits(Append(line, ch))
<1>1. line \in Seq(Chars) /\ Len(line) \in Nat /\ Len(line) < InputSize
  BY LenProperties DEF Fits
<1>2. ASSUME line # <<>>
      PROVE  Fits(SubSeq(line, 1, Len(line) - 1))
  <2>1. Len(line) >= 1
    BY <1>1, <1>2, EmptySeq
  <2>2. \A i \in 1 .. Len(line) - 1 : line[i] \in Chars
    BY <1>1, LenProperties
  <2>3. /\ SubSeq(line, 1, Len(line) - 1) \in Seq(Chars)
        /\ Len(SubSeq(line, 1, Len(line) - 1)) =
             IF 1 <= Len(line) - 1 THEN Len(line) - 1 - 1 + 1 ELSE 0
    BY <1>1, <2>1, <2>2, SubSeqProperties
  <2> QED
    BY <1>1, <2>1, <2>3, TerminalAssumption DEF Fits, TerminalAssumption
<1>3. ASSUME NEW ch \in Chars, Len(line) + 1 < InputSize
      PROVE  Fits(Append(line, ch))
  BY <1>1, <1>3, AppendProperties DEF Fits
<1> QED
  BY <1>2, <1>3

\* The poll keeps the types.
LEMMA KeyType ==
    ASSUME TerminalTypeOK, ReadKey
    PROVE  TerminalTypeOK'
<1>1. typed' \in 0 .. MaxKeys
  BY TerminalAssumption DEF TerminalAssumption, TerminalTypeOK, ReadKey
<1>2. stdin_closed' \in BOOLEAN /\ raw_mode' \in BOOLEAN
  BY DEF TerminalTypeOK, ReadKey
<1>3. PICK key \in Keys :
          \/ key \in Chars /\ TypeChar(key)
          \/ key = "enter" /\ ExecuteCommand
          \/ key \in {"ctrl_u", "backspace", "escape"} /\ EditLine(key)
  BY DEF ReadKey
<1>4. Fits(input)
  BY DEF Fits, TerminalTypeOK
<1>5. SUFFICES Fits(input') /\ force_quit' \in BOOLEAN
               /\ view' \in {"STATISTICS", "WORKERS"}
  BY <1>1, <1>2 DEF Fits, TerminalTypeOK
<1>6. CASE key \in Chars /\ TypeChar(key)
  <2>1. force_quit' \in BOOLEAN /\ view' \in {"STATISTICS", "WORKERS"}
    BY <1>6 DEF TypeChar, TerminalTypeOK
  <2>2. CASE Len(input) + 1 >= InputSize
    BY <1>4, <1>6, <2>1, <2>2 DEF TypeChar
  <2>3. CASE ~(Len(input) + 1 >= InputSize)
    <3>1. input' = Append(input, key)
      BY <1>6, <2>3 DEF TypeChar
    <3>2. Len(input) + 1 < InputSize
      BY <1>4, <2>3, LenProperties, TerminalAssumption DEF Fits, TerminalAssumption
    <3> QED
      BY <1>4, <1>6, <2>1, <3>1, <3>2, EditsFit
  <2> QED
    BY <2>2, <2>3
<1>7. CASE key = "enter" /\ ExecuteCommand
  <2>1. force_quit' \in BOOLEAN
    BY <1>7 DEF ExecuteCommand, TerminalTypeOK, Names
  <2>2. view' \in {"STATISTICS", "WORKERS"}
    BY <1>7 DEF ExecuteCommand, TerminalTypeOK
  <2>3. input' = <<>>
    BY <1>7 DEF ExecuteCommand
  <2> QED
    BY <2>1, <2>2, <2>3, EmptyFits
<1>8. CASE key \in {"ctrl_u", "backspace", "escape"} /\ EditLine(key)
  <2>1. force_quit' \in BOOLEAN /\ view' \in {"STATISTICS", "WORKERS"}
    BY <1>8 DEF EditLine, TerminalTypeOK
  <2>2. \/ input' = <<>>
        \/ input # <<>> /\ input' = SubSeq(input, 1, Len(input) - 1)
        \/ input' = input
    BY <1>8 DEF EditLine
  <2> QED
    BY <1>4, <2>1, <2>2, EmptyFits, EditsFit
<1> QED
  BY <1>3, <1>6, <1>7, <1>8

\* The initial state is well typed.
LEMMA InitTypes == Init => TypeOK
<1> SUFFICES ASSUME Init
             PROVE  TypeOK
  OBVIOUS
<1>1. TerminalTypeOK
  <2>1. Fits(input)
    BY EmptyFits DEF Init, TerminalInit
  <2>2. typed \in 0 .. MaxKeys
    BY TerminalAssumption DEF Init, TerminalInit, TerminalAssumption
  <2> QED
    BY <2>1, <2>2 DEF Init, TerminalInit, TerminalTypeOK, Fits
<1>2. w_id \in 0 .. NUM_WORKERS /\ signals \in 0 .. MaxSignals
  BY LifecycleAssumption DEF Init, LifecycleAssumption
<1>3. step \in 1 .. Len(InitSteps) + 1 /\ lcore \in Nat
  BY InitStepsAre DEF Init
<1>4. worker \in [0 .. NUM_WORKERS - 1 -> {"idle", "top", "burst", "finished"}]
  BY DEF Init
<1> QED
  BY <1>1, <1>2, <1>3, <1>4 DEF Init, TypeOK

\* A step that leaves the terminal alone keeps its types.
LEMMA TerminalAlone ==
    ASSUME TypeOK, UNCHANGED terminalVars, force_quit' \in BOOLEAN
    PROVE  TerminalTypeOK'
  BY DEF TypeOK, TerminalTypeOK, terminalVars, lineVars

\* A signal keeps the types.
LEMMA SignalTypes ==
    ASSUME TypeOK, Signal
    PROVE  TypeOK'
<1>1. TerminalTypeOK'
  <2>1. force_quit' \in BOOLEAN
    BY DEF Signal, TypeOK, TerminalTypeOK
  <2> QED
    BY <2>1, TerminalAlone DEF Signal
<1>2. signals' \in 0 .. MaxSignals
  BY LifecycleAssumption DEF Signal, TypeOK, LifecycleAssumption
<1> QED
  BY <1>1, <1>2 DEF Signal, TypeOK, mainVars

\* The steps of the main lcore keep the types.
LEMMA MainTypes ==
    ASSUME TypeOK, StageInv, MainNext
    PROVE  TypeOK'
<1> USE DEF TypeOK, mainVars, signalVars
<1>1. TerminalTypeOK'
  <2>1. force_quit' \in BOOLEAN /\ UNCHANGED terminalVars
    BY DEF MainNext, InstallHandlers, ResetForceQuit, InitStep, LaunchStats,
           LaunchWorker, LaunchEnds, DispatcherLoop, Join, Cleanup, MainFrame,
           TerminalTypeOK
  <2> QED
    BY <2>1, TerminalAlone
<1>2. CASE InstallHandlers \/ ResetForceQuit
  BY <1>1, <1>2 DEF InstallHandlers, ResetForceQuit, Exit, MainFrame
<1>3. CASE InitStep
  <2>1. step' \in 1 .. Len(InitSteps) + 1
    BY <1>3, InitStepsAre DEF InitStep, Exit, StageInv
  <2>2. alive' \subseteq Everything
    BY <1>3, AllocatesSome DEF InitStep, Exit, Everything
  <2> QED
    BY <1>1, <1>3, <2>1, <2>2 DEF InitStep, Exit, MainFrame, Everything
<1>4. CASE LaunchStats
  <2>1. lcore' \in Nat
    BY <1>4 DEF LaunchStats, Exit
  <2>2. stats_thread' \in {"start", stats_thread}
    BY <1>4 DEF LaunchStats
  <2> QED
    BY <1>1, <1>4, <2>1, <2>2 DEF LaunchStats, Exit
<1>5. CASE LaunchWorker
  <2>1. lcore' \in Nat /\ w_id' \in 0 .. NUM_WORKERS
    BY <1>5, LifecycleAssumption DEF LaunchWorker, Exit, LifecycleAssumption
  <2>2. worker' \in [0 .. NUM_WORKERS - 1 -> {"idle", "top", "burst", "finished"}]
    BY <1>5 DEF LaunchWorker
  <2> QED
    BY <1>1, <1>5, <2>1, <2>2 DEF LaunchWorker, Exit
<1>6. CASE LaunchEnds
  BY <1>1, <1>6 DEF LaunchEnds, Exit, MainFrame
<1>7. CASE DispatcherLoop \/ Join
  BY <1>1, <1>7 DEF DispatcherLoop, Join, MainFrame
<1>8. CASE Cleanup
  BY <1>1, <1>8 DEF Cleanup, MainFrame
<1> QED
  BY <1>2, <1>3, <1>4, <1>5, <1>6, <1>7, <1>8 DEF MainNext

\* The steps of the stats thread keep the types.
LEMMA StatsTypes ==
    ASSUME TypeOK, StatsStep
    PROVE  TypeOK'
<1> USE DEF TypeOK, StatsFrame, mainVars, signalVars
<1>1. CASE StatsStart \/ StatsLeave
  <2>1. TerminalTypeOK'
    BY <1>1 DEF StatsStart, StatsLeave, OpenTerminal, RestoreTerminal, lineVars,
                TerminalTypeOK
  <2> QED
    BY <1>1, <2>1 DEF StatsStart, StatsLeave
<1>2. CASE StatsLoop
  <2>1. TerminalTypeOK'
    BY <1>2, TerminalAlone DEF StatsLoop, TerminalTypeOK
  <2> QED
    BY <1>2, <2>1 DEF StatsLoop
<1>3. CASE StatsPoll
  <2>1. TerminalTypeOK'
    <3>1. CASE ReadKey
      BY <3>1, KeyType
    <3>2. CASE EndPoll
      <4>1. typed' \in 0 .. MaxKeys
        BY <3>2, TerminalAssumption
        DEF EndPoll, TerminalTypeOK, terminalVars, lineVars, TerminalAssumption
      <4>2. input' = input
        BY <3>2 DEF EndPoll, terminalVars, lineVars
      <4> QED
        BY <3>2, <4>1, <4>2 DEF EndPoll, TerminalTypeOK, terminalVars, lineVars
    <3> QED
      BY <1>3, <3>1, <3>2 DEF StatsPoll
  <2> QED
    BY <1>3, <2>1 DEF StatsPoll
<1> QED
  BY <1>1, <1>2, <1>3 DEF StatsStep

\* The steps of the workers keep the types.
LEMMA WorkerTypes ==
    ASSUME TypeOK, NEW w \in 0 .. NUM_WORKERS - 1, WorkerLoop(w)
    PROVE  TypeOK'
<1>1. TerminalTypeOK'
  BY TerminalAlone DEF WorkerLoop, TypeOK, TerminalTypeOK
<1> QED
  BY <1>1 DEF WorkerLoop, TypeOK, mainVars, signalVars

-----------------------------------------------------------------------------
(* The stages.                                                             *)

\* Before main nothing runs and nothing is allocated.
LEMMA InitStage == Init => StageInv /\ RawInv
  BY DEF Init, TerminalInit, StageInv, RawInv, NotLaunched, Joined, Running, Ids

\* The threads that are not the main lcore change no stage, and do not start again
\* once they have finished.
LEMMA OthersStage ==
    ASSUME TypeOK, StageInv, RawInv, \/ Signal
                                     \/ StatsStep
                                     \/ \E w \in Ids : WorkerLoop(w)
    PROVE  StageInv' /\ RawInv'
<1> USE DEF StageInv, RawInv, NotLaunched, Joined, Running, mainVars
<1>1. CASE Signal
  BY <1>1 DEF Signal, terminalVars
<1>2. CASE StatsStep
  <2>1. /\ stats_thread \notin {"idle", "finished"}
        /\ UNCHANGED <<mainVars, worker, ended>>
    BY <1>2 DEF StatsStep, StatsStart, StatsLoop, StatsPoll, StatsLeave, StatsFrame
  <2>2. stats_thread' # "idle" /\ (stats_thread' \in {"start", "finished"} => ~raw_mode')
    BY <1>2, <2>1 DEF StatsStep, StatsStart, StatsLoop, StatsPoll, StatsLeave,
           RestoreTerminal, terminalVars
  <2> QED
    BY <2>1, <2>2
<1>3. CASE \E w \in Ids : WorkerLoop(w)
  <2>1. PICK w \in Ids : WorkerLoop(w)
    BY <1>3
  <2>2. worker[w] \notin {"idle", "finished"}
    BY <2>1 DEF WorkerLoop
  <2>3. UNCHANGED <<mainVars, stats_thread, ended, raw_mode>>
    BY <2>1 DEF WorkerLoop, terminalVars
  <2> QED
    BY <2>1, <2>2, <2>3
<1> QED
  BY <1>1, <1>2, <1>3

\* The main lcore.
LEMMA MainStage ==
    ASSUME TypeOK, StageInv, RawInv, MainNext
    PROVE  StageInv' /\ RawInv'
<1> USE DEF StageInv, RawInv, Running
<1>1. Live
  BY DEF MainNext, InstallHandlers, ResetForceQuit, InitStep, LaunchStats,
         LaunchWorker, LaunchEnds, DispatcherLoop, Join, Cleanup
<1>2. raw_mode' = raw_mode
  BY DEF MainNext, InstallHandlers, ResetForceQuit, InitStep, LaunchStats,
         LaunchWorker, LaunchEnds, DispatcherLoop, Join, Cleanup, MainFrame,
         terminalVars
<1>3. CASE InstallHandlers \/ ResetForceQuit \/ LaunchEnds
  BY <1>1, <1>2, <1>3 DEF InstallHandlers, ResetForceQuit, LaunchEnds, Exit, MainFrame,
     mainVars, NotLaunched, Joined, Live
<1>4. CASE InitStep
  <2>1. stats_thread' = stats_thread /\ worker' = worker
    BY <1>4 DEF InitStep, MainFrame
  <2>2. CASE Exit
    <3>1. mpc = "init"
      BY <1>4 DEF InitStep
    <3> QED
      BY <1>2, <2>1, <2>2, <3>1 DEF Exit, mainVars, NotLaunched, Joined
  <2>3. CASE ~Exit
    <3>1. /\ alive' = alive \cup Allocates(InitSteps[step])
          /\ step' = step + 1
          /\ mpc' = IF step = 6 THEN "launch_stats" ELSE "init"
          /\ ended' = ended
      BY <1>4, <2>3, InitStepsAre DEF InitStep
    <3>2. step \in 1 .. 6 /\ alive \subseteq Everything
      BY <1>4 DEF InitStep, TypeOK, Everything
    <3>3. step' > 4 => "table" \in alive'
      BY <1>4, <3>1, <3>2, InitStepsAre, AllocatesSome DEF InitStep
    <3>4. step' > 5 => "rules" \in alive'
      BY <1>4, <3>1, <3>2, InitStepsAre, AllocatesSome DEF InitStep
    <3>5. step = 6 => alive' = Everything
      <4>1. alive' \subseteq Everything
        BY <3>1, <3>2, AllocatesSome
      <4>2. step = 6 => "rings" \in alive'
        BY <3>1, InitStepsAre, AllocatesSome
      <4> QED
        BY <3>1, <3>2, <3>3, <3>4, <4>1, <4>2 DEF Everything
    <3> QED
      BY <1>1, <1>2, <1>4, <2>1, <3>1, <3>2, <3>3, <3>4, <3>5
      DEF InitStep, NotLaunched, Live
  <2> QED
    BY <2>2, <2>3
<1>5. CASE LaunchStats \/ LaunchWorker
  <2>1. CASE Exit
    <3>1. UNCHANGED <<mainVars, stats_thread, worker>>
      BY <1>1, <1>5, <2>1 DEF Exit, LaunchStats, LaunchWorker, mainVars, Live
    <3>2. ended' = "exited" /\ mpc \in {"launch_stats", "launch_workers"}
      BY <1>5, <2>1 DEF Exit, LaunchStats, LaunchWorker
    <3> QED
      BY <1>2, <3>1, <3>2 DEF mainVars, NotLaunched, Joined
  <2>2. CASE ~Exit
    <3>1. /\ mpc' = "launch_workers" /\ alive' = Everything /\ ended' # "returned"
          /\ stats_thread' \in {stats_thread, "start"}
      BY <1>1, <1>5, <2>2 DEF LaunchStats, LaunchWorker, Live
    <3>2. stats_thread' = "start" => ~raw_mode'
      BY <1>2, <1>5, <2>2 DEF LaunchStats, LaunchWorker, NotLaunched
    <3> QED
      BY <1>2, <3>1, <3>2
  <2> QED
    BY <2>1, <2>2
<1>6. CASE DispatcherLoop
  BY <1>1, <1>2, <1>6 DEF DispatcherLoop, MainFrame, Live
<1>7. CASE Join
  BY <1>1, <1>2, <1>7 DEF Join, Joined, MainFrame, Live, Ids
<1>8. CASE Cleanup
  BY <1>1, <1>2, <1>8 DEF Cleanup, Joined, MainFrame, Live
<1> QED
  BY <1>3, <1>4, <1>5, <1>6, <1>7, <1>8 DEF MainNext

-----------------------------------------------------------------------------
(* The theorems.                                                           *)

LifecycleInv == TypeOK /\ StageInv /\ RawInv

\* The invariant is inductive ...
LEMMA StepKeeps ==
    ASSUME LifecycleInv, [Next]_vars
    PROVE  LifecycleInv'
<1>1. TypeOK /\ StageInv /\ RawInv
  BY DEF LifecycleInv
<1>2. CASE Signal
  BY <1>1, <1>2, SignalTypes, OthersStage DEF LifecycleInv
<1>3. CASE MainNext
  BY <1>1, <1>3, MainTypes, MainStage DEF LifecycleInv
<1>4. CASE StatsStep
  BY <1>1, <1>4, StatsTypes, OthersStage DEF LifecycleInv
<1>5. CASE \E w \in Ids : WorkerLoop(w)
  <2>1. TypeOK'
    BY <1>1, <1>5, WorkerTypes DEF Ids
  <2> QED
    BY <1>1, <1>5, <2>1, OthersStage DEF LifecycleInv
<1>6. CASE UNCHANGED vars
  BY <1>1, <1>6 DEF vars, terminalVars, lineVars, TypeOK, TerminalTypeOK, StageInv,
     RawInv, NotLaunched, Joined, LifecycleInv
<1> QED
  BY <1>2, <1>3, <1>4, <1>5, <1>6 DEF Next, Ids

\* ... and holds in every reachable state.
LEMMA Lasts == Spec => []LifecycleInv
<1>1. Init => LifecycleInv
  BY InitTypes, InitStage DEF LifecycleInv
<1>2. LifecycleInv /\ [Next]_vars => LifecycleInv'
  BY StepKeeps
<1> QED
  BY <1>1, <1>2, PTL DEF Spec

\* Every reachable state is well typed, the input line within its buffer
\* (stats.c:215) and the workers within the array of launch_threads.
THEOREM LifecycleTypes == Spec => []TypeOK
<1>1. LifecycleInv => TypeOK
  BY DEF LifecycleInv
<1> QED
  BY <1>1, Lasts, PTL

\* No thread uses the table, the rules or the rings before app_init has allocated or
\* after app_cleanup has freed them (app_init.c:279-305).
THEOREM SafeCleanup == Spec => []NoUseAfterFree
<1>1. LifecycleInv => NoUseAfterFree
  <2> SUFFICES ASSUME LifecycleInv
               PROVE  NoUseAfterFree
    OBVIOUS
  <2>1. \/ NotLaunched /\ mpc # "burst"
        \/ Joined /\ mpc # "burst"
        \/ alive = Everything
    BY DEF LifecycleInv, TypeOK, StageInv, Running
  <2>2. CASE NotLaunched /\ mpc # "burst"
    BY <2>2 DEF NotLaunched, NoUseAfterFree, Ids
  <2>3. CASE Joined /\ mpc # "burst"
    BY <2>3 DEF Joined, NoUseAfterFree, Ids
  <2>4. CASE alive = Everything
    BY <2>4 DEF Everything, NoUseAfterFree
  <2> QED
    BY <2>1, <2>2, <2>3, <2>4
<1> QED
  BY <1>1, Lasts, PTL

\* A process that was not killed leaves the terminal as it was, unless a worker could
\* not be launched after the stats thread had set it raw (app_init.c:279-281,
\* stats.c:470): until the launch nobody has touched the terminal, and at the return
\* the stats thread has restored it and been joined.
THEOREM TerminalComesBack == Spec => []TerminalRestored
<1>1. LifecycleInv => TerminalRestored
  <2> SUFFICES ASSUME LifecycleInv, ended # "no", raw_mode, ended # "killed"
               PROVE  ended = "exited" /\ mpc = "launch_workers"
    BY DEF TerminalRestored
  <2>1. stats_thread \notin {"idle", "finished"}
    BY DEF LifecycleInv, RawInv
  <2>2. ended \in {"returned", "exited"}
    BY DEF LifecycleInv, TypeOK
  <2>3. ended # "returned"
    BY <2>1 DEF LifecycleInv, RawInv, Joined
  <2>4. mpc \notin {"start", "init", "launch_stats"}
    BY <2>1 DEF LifecycleInv, StageInv, NotLaunched
  <2> QED
    BY <2>2, <2>3, <2>4 DEF LifecycleInv, RawInv
<1> QED
  BY <1>1, Lasts, PTL
=============================================================================
