------------------------------ MODULE SoliteApp ------------------------------
(***************************************************************************)
(* A Solite program on the console: the frame loop of solite_runtime.c and *)
(* the click handlers of solite_gui_bridge.cpp around SoliteControlFlow.   *)
(* solite_mount is called by the main program and runs one frame after the *)
(* other: it flushes, lets the GUI find out which buttons were clicked,    *)
(* calls their handlers, and draws.  Handlers are client code again.       *)
(***************************************************************************)
EXTENDS SoliteControlFlow

CONSTANTS
  Buttons,      \* GUI buttons
  ButtonsMax    \* MAX_REGISTERED_BUTTONS

ASSUME AppAssumption == ButtonsMax \in Nat

VARIABLES
  loop,              \* where solite_mount is; "out" when it is not running
  poll,              \* the loop variable of solite_bridge_poll_button_clicks
  unmountRequested,  \* unmount_requested
  registered,        \* registered_buttons[0 .. registered_button_count)
  clicked            \* the buttons whose state is CLICKED

loopVars == <<loop, poll, unmountRequested, registered, clicked>>
appVars == <<flowVars, loopVars>>

AppInit ==
  /\ FlowInit
  /\ loop = "out"
  /\ poll = 1
  /\ unmountRequested = FALSE
  /\ registered = <<>>
  /\ clicked = {}

\* The frame loop has control: no body and no library call is running.
LoopRuns == Depth = 0 /\ ClientRuns

\* Client code has control: outside the loop, in a handler or in a body.
AppMayCall == Depth = 0 => loop \in {"out", "handler"}

-----------------------------------------------------------------------------
(* What client code can do besides *)

\* solite_mount: a request made before it is forgotten.
Mount ==
  /\ LoopRuns /\ loop = "out"
  /\ BalancedBatches => batch = 0
  /\ loop' = "flush"
  /\ unmountRequested' = FALSE
  /\ UNCHANGED <<flowVars, poll, registered, clicked>>

RequestUnmount ==
  /\ ClientRuns /\ ClientMayCall /\ AppMayCall
  /\ ~unmountRequested
  /\ unmountRequested' = TRUE
  /\ UNCHANGED <<flowVars, loop, poll, registered, clicked>>

\* solite_bridge_button_set_click_handler: a full table drops the handler.
SetClickHandler(b) ==
  /\ ClientRuns /\ ClientMayCall /\ AppMayCall
  /\ Len(registered) < ButtonsMax
  /\ registered' = Append(registered, b)
  /\ UNCHANGED <<flowVars, loop, poll, unmountRequested, clicked>>

-----------------------------------------------------------------------------
(* One frame *)

\* solite_effect_flush_pending; the input has been scanned.
FrameFlush ==
  /\ LoopRuns /\ loop = "flush"
  /\ FlushCall
  /\ loop' = "update"
  /\ UNCHANGED <<guiVars, locals, poll, unmountRequested, registered, clicked>>

\* The window passes the input on to its buttons.
FrameUpdate ==
  /\ LoopRuns /\ loop = "update"
  /\ \E new \in SUBSET Buttons : clicked' = clicked \cup new
  /\ loop' = "poll" /\ poll' = 1
  /\ UNCHANGED <<flowVars, unmountRequested, registered>>

\* One iteration of solite_bridge_poll_button_clicks: a clicked button is
\* reset before its handler is called.
PollButton ==
  /\ LoopRuns /\ loop = "poll" /\ poll <= Len(registered)
  /\ IF registered[poll] \in clicked
     THEN /\ clicked' = clicked \ {registered[poll]}
          /\ loop' = "handler"
          /\ UNCHANGED poll
     ELSE /\ poll' = poll + 1
          /\ UNCHANGED <<clicked, loop>>
  /\ UNCHANGED <<flowVars, unmountRequested, registered>>

HandlerReturn ==
  /\ LoopRuns /\ loop = "handler"
  /\ BalancedBatches => batch = 0
  /\ loop' = "poll" /\ poll' = poll + 1
  /\ UNCHANGED <<flowVars, unmountRequested, registered, clicked>>

\* bug: the last button is not polled
PollDoneEarly ==
  /\ LoopRuns /\ loop = "poll" /\ poll >= Len(registered)
  /\ loop' = "draw"
  /\ UNCHANGED <<flowVars, poll, unmountRequested, registered, clicked>>

PollDone ==
  /\ LoopRuns /\ loop = "poll" /\ poll > Len(registered)
  /\ loop' = "draw"
  /\ UNCHANGED <<flowVars, poll, unmountRequested, registered, clicked>>

\* bug: a frame that was asked to be the last one forgets it
FrameDrawnForgets ==
  /\ LoopRuns /\ loop = "draw"
  /\ loop' = "flush"
  /\ unmountRequested' = FALSE
  /\ UNCHANGED <<flowVars, poll, registered, clicked>>

\* The frame is drawn, and is the last one if so requested.
FrameDrawn ==
  /\ LoopRuns /\ loop = "draw"
  /\ loop' = IF unmountRequested THEN "out" ELSE "flush"
  /\ unmountRequested' = FALSE
  /\ UNCHANGED <<flowVars, poll, registered, clicked>>

FrameStep == FrameFlush \/ FrameUpdate \/ PollButton \/ PollDone \/ FrameDrawn

\* The library and the client code below the frame loop.
Below ==
  /\ \/ ClientStep /\ AppMayCall
     \/ NodeStep
     \/ FlowLibrary
     \/ BodyEnds
  /\ UNCHANGED loopVars

AppNext ==
  \/ Below
  \/ Mount
  \/ RequestUnmount
  \/ \E b \in Buttons : SetClickHandler(b)
  \/ FrameStep
  \/ HandlerReturn

AppSpec == AppInit /\ [][AppNext]_appVars

\* Client code ends a batch.
CloseBatch ==
  /\ ClientMayCall /\ AppMayCall
  /\ BatchEnd /\ LocalsFollow
  /\ UNCHANGED <<guiVars, loopVars>>

\* The library and the frame loop make progress, and no client function runs
\* for ever: a render function, an effect body or a handler ends the batches
\* it opens and returns.
AppFairness ==
  /\ WF_appVars(FlowLibrary /\ UNCHANGED loopVars)
  /\ WF_appVars(FrameStep)
  /\ \A d \in 1..MaxDepth :
       SF_appVars(Depth = d /\ (NodeStep \/ BodyEnds) /\ UNCHANGED loopVars)
  /\ \A d \in 0..MaxDepth : SF_appVars(Depth = d /\ CloseBatch)
  /\ SF_appVars(HandlerReturn)

FairAppSpec == AppSpec /\ AppFairness

-----------------------------------------------------------------------------

\* No frame is drawn before every click on a button with a handler has been
\* handled, even if the handler of one button registers another button
\* (solite_gui_bridge.h: "Poll all registered buttons for clicks").
ClicksHandled == loop = "draw" => clicked \cap Elements(registered) = {}

\* A mounted program that is asked to stop does, whichever handler, effect or
\* render function asks (solite_runtime.h: "Request the main loop to exit after
\* the current frame").
UnmountStops == unmountRequested /\ loop # "out" ~> loop = "out"
=============================================================================
