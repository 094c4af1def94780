------------------------------- MODULE Shell -------------------------------
(***************************************************************************)
(* What the desktop shell shows while its database comes up                *)
(* (desktop/main.ts): the engine state behind the tray, the one window with*)
(* the startup screen or the app, and the hand-over from one to the other. *)
(* What starting the database does is in LocalDatabase.                    *)
(***************************************************************************)
EXTENDS Naturals

CONSTANT Clicks \* things the person does

VARIABLES engine,   \* engineState
          starting, \* how far startDatabaseSupervised is
          database, \* main.ts holds a started database
          problem,  \* databaseProblem is set
          window,   \* what mainWindow shows
          visible,
          timer,    \* a hand-over is scheduled
          clicks

vars == <<engine, starting, database, problem, window, visible, timer, clicks>>

\* the two states that belong to the startup screen
IsStartupSurface(state) == state \in {"starting", "unstable"}
RendererEntry(state) == IF IsStartupSurface(state) THEN "startup" ELSE "app"

\* running schedules the hand-over once
SetEngineState(state) == /\ engine' = state
                         /\ timer' = (timer \/ state = "running")

Init == /\ engine = "starting" /\ starting = "database" /\ database = FALSE
        /\ problem = FALSE /\ window = "startup" /\ visible = TRUE
        /\ timer = FALSE /\ clicks = 0

Click == clicks < Clicks /\ clicks' = clicks + 1
Open == window # "gone"  \* the application has not quit

\* the database is held, and reported as ready, before its identity,
\* credential authority and queue are
DatabaseStarts ==
  /\ Open /\ starting = "database" /\ starting' = "wiring" /\ database' = TRUE
  /\ UNCHANGED <<engine, problem, window, visible, timer, clicks>>

Wired ==
  /\ Open /\ starting = "wiring" /\ starting' = "done" /\ problem' = FALSE
  /\ SetEngineState("running")
  /\ UNCHANGED <<database, window, visible, clicks>>

StartFails ==
  /\ Open /\ starting \in {"database", "wiring"} /\ starting' = "done"
  /\ database' = FALSE /\ problem' = TRUE
  /\ SetEngineState("unstable")
  /\ UNCHANGED <<window, visible, clicks>>

\* the tray's two entries, whatever the engine does
Pause == /\ Open /\ engine # "paused" /\ SetEngineState("paused") /\ Click
         /\ UNCHANGED <<starting, database, problem, window, visible>>
Resume == /\ Open /\ engine = "paused" /\ SetEngineState("running") /\ Click
          /\ UNCHANGED <<starting, database, problem, window, visible>>

\* handOverToApp looks again at the window and the engine
HandOver ==
  /\ Open /\ timer /\ timer' = FALSE
  /\ window' = IF window = "startup" /\ ~IsStartupSurface(engine) THEN "app" ELSE window
  /\ UNCHANGED <<engine, starting, database, problem, visible, clicks>>

\* closing hides; a window that was destroyed is made anew when asked for
Hide == /\ Open /\ window # "none" /\ visible /\ visible' = FALSE /\ Click
        /\ UNCHANGED <<engine, starting, database, problem, window, timer>>
Destroyed == /\ Open /\ window # "none" /\ window' = "none" /\ Click
             /\ UNCHANGED <<engine, starting, database, problem, visible, timer>>
ShowWindow ==
  /\ Open /\ Click /\ visible' = TRUE
  /\ window' = IF window = "none" THEN RendererEntry(engine) ELSE window
  /\ UNCHANGED <<engine, starting, database, problem, timer>>
Quit == /\ Open /\ Click /\ window' = "gone" /\ timer' = FALSE /\ database' = FALSE
        /\ UNCHANGED <<engine, starting, problem, visible>>

Next == \/ DatabaseStarts \/ Wired \/ StartFails \/ Pause \/ Resume \/ HandOver
        \/ Hide \/ Destroyed \/ ShowWindow \/ Quit

Spec == Init /\ [][Next]_vars
\* starting the database returns or fails; a timer fires
Comes == DatabaseStarts \/ Wired \/ StartFails
FairSpec == Spec /\ WF_vars(Comes) /\ WF_vars(HandOver)
----------------------------------------------------------------------------
TypeOK ==
  /\ engine \in {"starting", "running", "paused", "unstable"}
  /\ starting \in {"database", "wiring", "done"}
  /\ database \in BOOLEAN /\ problem \in BOOLEAN /\ visible \in BOOLEAN
  /\ timer \in BOOLEAN /\ window \in {"startup", "app", "none", "gone"}

\* A window left on the startup screen is one with a sentence about what is
\* wrong, or is about to change (main.ts:100-131, 275-289).
NeverStuckOnStartup ==
  [](window = "startup" =>
       <>(window # "startup" \/ engine \in {"unstable", "paused"}))

\* The app is not shown without its database (main.ts:108-114).
AppNeedsDatabase == window = "app" => database
=============================================================================
