---------------------------- MODULE ContextLock ----------------------------
(***************************************************************************)
(* The two mutexes of a design (lock, unlock and yield of BaseCtx in       *)
(* common/kernel/basectx.h): the worker thread of the GUI runs the stages  *)
(* of place and route under the main one and lets the threads that draw    *)
(* the design in when it yields.  The user can pause and stop a stage      *)
(* (gui/worker.cc), which the worker notices when it logs a line.          *)
(***************************************************************************)
EXTENDS Naturals, FiniteSets

CONSTANTS Worker,      \* the thread of the TaskManager
          Guis,        \* the threads that read the design to draw it
          Main,        \* the one of them in which the user's clicks are handled
          None,
          MaxStages,   \* bound on the stages that the worker runs
          Unguarded    \* may a stage take the lock without a guard?

ASSUME LockAssumption ==
    /\ Main \in Guis /\ Worker \notin Guis /\ None \notin Guis \cup {Worker}
    /\ MaxStages \in Nat /\ Unguarded \in BOOLEAN

VARIABLES mutex,       \* BaseCtx::mutex: the thread that holds it
          ui_mutex,    \* BaseCtx::ui_mutex
          worker,      \* what the worker is about to do
          guarded,     \* is the lock released when the stage throws?
          gui,         \* what each drawing thread is about to do
          toPause,     \* TaskManager::toPause
          toTerminate, \* TaskManager::toTerminate
          stages,      \* the stages run so far
          owed         \* the thread that was waiting for the main mutex when
                       \* the worker gave it up to yield, until it gets it
lockVars == <<mutex, ui_mutex, worker, guarded, gui, toPause, toTerminate, stages, owed>>
mutexVars == <<mutex, ui_mutex, owed>>
taskVars == <<toPause, toTerminate>>

LockTypeOK ==
    /\ mutex \in Guis \cup {Worker, None}
    /\ ui_mutex \in Guis \cup {Worker, None}
    /\ worker \in {"idle", "lock", "running", "paused", "flash", "flashed", "relock"}
    /\ guarded \in BOOLEAN
    /\ gui \in [Guis -> {"idle", "lock_ui", "lock", "drawing", "unlock_ui"}]
    /\ toPause \in BOOLEAN /\ toTerminate \in BOOLEAN
    /\ stages \in 0..MaxStages
    /\ owed \in Guis \cup {None}

LockInit ==
    /\ mutex = None /\ ui_mutex = None /\ owed = None
    /\ worker = "idle" /\ guarded = TRUE /\ stages = 0
    /\ gui = [g \in Guis |-> "idle"]
    /\ toPause = FALSE /\ toTerminate = FALSE

-----------------------------------------------------------------------------
(* The worker *)

\* The placers and the routers lock with a guard; TimingOptimiser calls lock.
StartStage ==
    /\ worker = "idle" /\ stages < MaxStages
    /\ worker' = "lock" /\ stages' = stages + 1
    /\ guarded' \in IF Unguarded THEN BOOLEAN ELSE {TRUE}
    /\ UNCHANGED <<mutexVars, gui, taskVars>>

\* lock, at the start of a stage and at the end of yield.
Lock ==
    /\ worker \in {"lock", "relock"} /\ mutex = None
    /\ mutex' = Worker /\ worker' = "running"
    /\ UNCHANGED <<ui_mutex, guarded, gui, taskVars, stages, owed>>

Unlock ==
    /\ worker = "running"
    /\ mutex' = None /\ worker' = "idle"
    /\ UNCHANGED <<ui_mutex, guarded, gui, taskVars, stages, owed>>

Waiting == {g \in Guis : gui[g] = "lock"}

\* Seeded fault: the lock is released and taken again, and no more.
YieldNoFlash ==
    /\ worker = "running" /\ guarded
    /\ mutex' = None /\ worker' = "relock"
    /\ owed' \in IF Waiting = {} THEN {None} ELSE Waiting
    /\ UNCHANGED <<ui_mutex, guarded, gui, taskVars, stages>>

\* yield gives up the main mutex and takes the other one before it locks again.
\* TimingOptimiser, which has no guard, does not yield.
Yield ==
    /\ worker = "running" /\ guarded
    /\ mutex' = None /\ worker' = "flash"
    /\ owed' \in IF Waiting = {} THEN {None} ELSE Waiting
    /\ UNCHANGED <<ui_mutex, guarded, gui, taskVars, stages>>

FlashLock ==
    /\ worker = "flash" /\ ui_mutex = None
    /\ ui_mutex' = Worker /\ worker' = "flashed"
    /\ UNCHANGED <<mutex, guarded, gui, taskVars, stages, owed>>

\* Seeded fault: the stage goes on without the lock.
FlashUnlockOnly ==
    /\ worker = "flashed"
    /\ ui_mutex' = None /\ worker' = "running"
    /\ UNCHANGED <<mutex, guarded, gui, taskVars, stages, owed>>

FlashUnlock ==
    /\ worker = "flashed"
    /\ ui_mutex' = None /\ worker' = "relock"
    /\ UNCHANGED <<mutex, guarded, gui, taskVars, stages, owed>>

\* WorkerInterruptionRequested ends the stage.
Throw ==
    /\ toTerminate' = FALSE /\ worker' = "idle"
    /\ mutex' = IF guarded THEN None ELSE mutex
    /\ UNCHANGED <<ui_mutex, owed, guarded, gui, toPause, stages>>

\* A line is logged while the lock is held.
Log ==
    /\ worker = "running"
    /\ \/ toTerminate /\ Throw
       \/ /\ ~toTerminate /\ toPause
          /\ worker' = "paused"
          /\ UNCHANGED <<mutexVars, guarded, gui, taskVars, stages>>

\* The worker looks every second whether it may go on.
Poll ==
    /\ worker = "paused"
    /\ \/ toPause /\ toTerminate /\ Throw
       \/ /\ ~toPause
          /\ worker' = "running"
          /\ UNCHANGED <<mutexVars, guarded, gui, taskVars, stages>>

-----------------------------------------------------------------------------
(* The threads that draw *)

WantToDraw(g) ==
    /\ gui[g] = "idle"
    /\ gui' = [gui EXCEPT ![g] = "lock_ui"]
    /\ UNCHANGED <<mutexVars, worker, guarded, taskVars, stages>>

LockUi(g) ==
    /\ gui[g] = "lock_ui" /\ ui_mutex = None
    /\ ui_mutex' = g
    /\ gui' = [gui EXCEPT ![g] = "lock"]
    /\ UNCHANGED <<mutex, owed, worker, guarded, taskVars, stages>>

LockToDraw(g) ==
    /\ gui[g] = "lock" /\ mutex = None
    /\ mutex' = g
    /\ owed' = IF owed = g THEN None ELSE owed
    /\ gui' = [gui EXCEPT ![g] = "drawing"]
    /\ UNCHANGED <<ui_mutex, worker, guarded, taskVars, stages>>

Drawn(g) ==
    /\ gui[g] = "drawing"
    /\ mutex' = None
    /\ gui' = [gui EXCEPT ![g] = "unlock_ui"]
    /\ UNCHANGED <<ui_mutex, owed, worker, guarded, taskVars, stages>>

UnlockUi(g) ==
    /\ gui[g] = "unlock_ui"
    /\ ui_mutex' = None
    /\ gui' = [gui EXCEPT ![g] = "idle"]
    /\ UNCHANGED <<mutex, owed, worker, guarded, taskVars, stages>>

\* The user's clicks: pause_thread, continue_thread and terminate_thread.
Pause ==
    /\ gui[Main] = "idle" /\ worker # "idle"
    /\ toPause' = TRUE
    /\ UNCHANGED <<mutexVars, worker, guarded, gui, toTerminate, stages>>

Continue ==
    /\ gui[Main] = "idle"
    /\ toPause /\ toPause' = FALSE
    /\ UNCHANGED <<mutexVars, worker, guarded, gui, toTerminate, stages>>

Terminate ==
    /\ gui[Main] = "idle" /\ worker # "idle"
    /\ toPause' = FALSE /\ toTerminate' = TRUE
    /\ UNCHANGED <<mutexVars, worker, guarded, gui, stages>>

WorkerStep == \/ StartStage \/ Lock \/ Unlock \/ Yield \/ FlashLock \/ FlashUnlock
              \/ Log \/ Poll

LockNext ==
    \/ WorkerStep
    \/ \E g \in Guis : WantToDraw(g) \/ LockUi(g) \/ LockToDraw(g) \/ Drawn(g) \/ UnlockUi(g)
    \/ Pause \/ Continue \/ Terminate

\* A thread that can take its next step does, and so takes a mutex that stays
\* free, but may lose the race for one each time.  A stage yields or ends.  A
\* user who pauses the worker has it go on when the main thread lets him.
Fairness ==
    /\ WF_lockVars(WorkerStep)
    /\ \A g \in Guis : WF_lockVars(LockUi(g) \/ LockToDraw(g) \/ Drawn(g) \/ UnlockUi(g))
    /\ WF_lockVars(Continue)

LockSpec == LockInit /\ [][LockNext]_lockVars /\ Fairness

-----------------------------------------------------------------------------
(* Properties *)

\* The design is not changed while it is drawn.
NoChangeWhileDrawing ==
    \A g \in Guis : gui[g] = "drawing" =>
      /\ worker \notin {"running", "paused"}
      /\ \A h \in Guis : gui[h] = "drawing" => h = g

\* A thread that waits with the other mutex when the worker yields has the
\* main one before the worker has it again.
YieldServesTheGui == worker # "flash" => owed = None

\* A stage leaves the lock free, however it ends.
IdleHoldsNothing == worker = "idle" => mutex # Worker

\* A thread that has the other mutex gets to draw, unless the worker is paused.
OnlyAPauseKeepsTheGuiWaiting ==
    \A g \in Guis : gui[g] = "lock" ~> (gui[g] = "drawing" \/ worker = "paused")

\* common/kernel/basectx.h on the two mutexes: a thread that has the other mutex
\* is not starved, and gets to draw.
GuiGetsTheLock == \A g \in Guis : gui[g] = "lock" ~> gui[g] = "drawing"
=============================================================================
