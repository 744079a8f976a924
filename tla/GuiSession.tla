----------------------------- MODULE GuiSession -----------------------------
(***************************************************************************)
(* The desktop console: the window of pc_sim/gui.py, which runs in the GUI *)
(* thread, and the session worker of pc_sim/gui_worker.py, a thread of its *)
(* own that owns the serial ports.  They share a queue of commands, the    *)
(* interruption flag of the thread, and the queue in which the worker's    *)
(* signals wait for the event loop of the GUI thread.                      *)
(*                                                                         *)
(* When a sample is due, and what is in it, is the subject of Senders;     *)
(* here any turn of the worker may or may not produce one.                 *)
(***************************************************************************)
EXTENDS Integers, Sequences

CONSTANTS Ports,          \* serial ports of the PC
          NoPort,         \* "none selected"
          MAX_RUNS,       \* bound on the uses of the Start button
          MAX_COMMANDS,   \* bound on the commands outstanding
          MAX_SIGNALS     \* bound on the signals outstanding

ASSUME GuiAssumption == /\ NoPort \notin Ports
                        /\ MAX_RUNS \in Nat \ {0}
                        /\ MAX_COMMANDS \in Nat \ {0}
                        /\ MAX_SIGNALS \in Nat /\ MAX_SIGNALS >= 2

VARIABLES
  connected,     \* MainWindow.connected
  closing,       \* MainWindow.closing
  closed,        \* the window has accepted its close event
  enabled,       \* which of the controls can be used
  status,        \* what the status bar shows
  shown,         \* the runs with a sample in MainWindow.samples
  starts,        \* auxiliary: how often Start was used
  commands,      \* SessionWorker.commands
  interrupted,   \* the interruption flag of the thread
  signals,       \* signals the GUI thread has not handled yet
  thread,        \* where the worker is; "none" if the window has no worker
  session,       \* the ports chosen for the worker
  held,          \* the ports that are open
  settings,      \* the run whose settings the worker has, 0 for None
  failed,        \* auxiliary: an exception has ended the last session
  overlapped     \* auxiliary: the last start met an unfinished one

windowState  == <<connected, closing, closed, enabled, status, shown, starts,
                  overlapped>>
workerState  == <<thread, session, held, settings, failed>>
betweenState == <<commands, interrupted, signals>>
guiVars == <<windowState, workerState, betweenState>>

Run == 1 .. MAX_RUNS

(* connect_button, start_button, stop_button and settings_form.  Mode,     *)
(* port lists and refresh are enabled exactly while there is no worker.    *)
Controls == {"connect", "start", "stop", "form"}

Commands == [do : {"start"}, run : Run] \union [do : {"stop"}, run : {0}]

(* running_changed(True) is "running", running_changed(False) "stopped".   *)
(* The signals with text for the logs are left out, but for errors, which  *)
(* reach the status bar.                                                   *)
Signals == [kind : {"running", "sample"}, run : Run] \union
           [kind : {"connected", "stopped", "error", "finished"}, run : {0}]

Signal(k) == [kind |-> k, run |-> 0]

(* What toggle_connection lets pass: the preview, or a board with two      *)
(* different ports of which the console may be missing.                    *)
Sessions == {s \in [data : Ports \union {NoPort}, console : Ports \union {NoPort}] :
               IF s.data = NoPort THEN s.console = NoPort ELSE s.console /= s.data}

PortsOf(s) == {s.data, s.console} \ {NoPort}

Preview == [data |-> NoPort, console |-> NoPort]

HasWorker == thread /= "none"

(* update_controls, for a window that is connected or not and has a worker *)
(* or not; the form stays as it is.                                        *)
Updated(isConnected, busy) ==
  (enabled \intersect {"form"})
    \union (IF ~busy \/ isConnected THEN {"connect"} ELSE {})
    \union (IF isConnected THEN {"start"} ELSE {})

Init == /\ connected = FALSE /\ closing = FALSE /\ closed = FALSE
        /\ enabled = {"connect", "form"}
        /\ status = "empty" /\ shown = {} /\ starts = 0
        /\ commands = <<>> /\ interrupted = FALSE /\ signals = <<>>
        /\ thread = "none" /\ session = Preview /\ held = {} /\ settings = 0
        /\ failed = FALSE /\ overlapped = FALSE

----------------------------------------------------------------------------
(* The window: what its user does.                                         *)

(* disconnect *)
Disconnect == /\ connected' = FALSE
              /\ enabled' = enabled \ {"connect", "start", "stop"}
              /\ interrupted' = TRUE

(* toggle_connection without a worker, and with a choice it accepts.  The  *)
(* new worker has a queue and a flag of its own.                           *)
Connect == /\ "connect" \in enabled /\ ~closed
           /\ ~HasWorker
           /\ session' \in Sessions
           /\ thread' = "open" /\ settings' = 0 /\ failed' = FALSE
           /\ commands' = <<>> /\ interrupted' = FALSE
           /\ enabled' = Updated(connected, TRUE)
           /\ UNCHANGED <<connected, closing, closed, status, shown, starts,
                          overlapped, held, signals>>

(* toggle_connection without a data port, or with the same port twice.     *)
ConnectRefused == /\ "connect" \in enabled /\ ~closed
                  /\ ~HasWorker
                  /\ status' = "error"
                  /\ UNCHANGED <<connected, closing, closed, enabled, shown,
                                 starts, overlapped, workerState, betweenState>>

(* toggle_connection with a worker.                                        *)
PressDisconnect == /\ "connect" \in enabled /\ ~closed
                   /\ HasWorker
                   /\ Disconnect
                   /\ UNCHANGED <<closing, closed, status, shown, starts,
                                  overlapped, workerState, commands, signals>>

(* A start the window has had no answer to.                                *)
StartOutstanding ==
  \/ \E i \in 1 .. Len(commands) : commands[i].do = "start"
  \/ \E i \in 1 .. Len(signals) : signals[i].kind = "running"

\* Mutant: the samples of the last run are kept.
ClearedKeeps == shown

Cleared == {}

(* start_simulation *)
PressStart == /\ "start" \in enabled /\ ~closed
              /\ connected
              /\ starts < MAX_RUNS /\ Len(commands) < MAX_COMMANDS
              /\ starts' = starts + 1
              /\ commands' = Append(commands, [do |-> "start", run |-> starts'])
              /\ shown' = Cleared
              /\ enabled' = enabled \ {"start", "form"}
              /\ overlapped' = StartOutstanding
              /\ UNCHANGED <<connected, closing, closed, status, workerState,
                             interrupted, signals>>

(* stop_simulation; the button is disabled whenever there is no worker.    *)
PressStop == /\ "stop" \in enabled /\ ~closed
             /\ HasWorker
             /\ Len(commands) < MAX_COMMANDS
             /\ commands' = Append(commands, [do |-> "stop", run |-> 0])
             /\ enabled' = enabled \ {"stop"}
             /\ UNCHANGED <<connected, closing, closed, status, shown, starts,
                            overlapped, workerState, interrupted, signals>>

(* closeEvent: with a worker the event is ignored until the worker is gone.*)
CloseWindow == /\ ~closed
               /\ IF HasWorker
                    THEN closing' = TRUE /\ Disconnect /\ UNCHANGED closed
                    ELSE closed' = TRUE
                         /\ UNCHANGED <<closing, connected, enabled, interrupted>>
               /\ UNCHANGED <<status, shown, starts, overlapped, workerState,
                              commands, signals>>

User == \/ Connect \/ ConnectRefused \/ PressDisconnect
        \/ PressStart \/ PressStop \/ CloseWindow

----------------------------------------------------------------------------
(* The window: the slots its worker's signals are connected to.            *)

OnConnected == /\ connected' = TRUE
               /\ enabled' = Updated(TRUE, TRUE)
               /\ UNCHANGED <<closing, closed, status, shown, starts, overlapped,
                              workerState>>

RunningControls == (IF connected THEN {"stop"} ELSE {})
                     \union (enabled \intersect {"connect"})

StoppedControls == (IF connected THEN {"start"} ELSE {})
                     \union {"form"} \union (enabled \intersect {"connect"})

OnRunning(running) ==
  /\ enabled' = IF running THEN RunningControls ELSE StoppedControls
  /\ status' = IF running THEN "running" ELSE "waiting"
  /\ UNCHANGED <<connected, closing, closed, shown, starts, overlapped,
                 workerState>>

OnSample(run) == /\ shown' = shown \union {run}
                 /\ UNCHANGED <<connected, closing, closed, enabled, status,
                                starts, overlapped, workerState>>

(* show_error *)
OnError == /\ status' = "error"
           /\ UNCHANGED <<connected, closing, closed, enabled, shown, starts,
                          overlapped, workerState>>

(* on_disconnected: close() finds no worker, so the event is accepted.     *)
OnDisconnected ==
  /\ connected' = FALSE
  /\ enabled' = {"connect", "form"}
  /\ closed' = closing
  /\ thread' = "none"
  /\ UNCHANGED <<closing, status, shown, starts, overlapped, session, held,
                 settings, failed>>

Deliver ==
  /\ signals /= <<>>
  /\ signals' = Tail(signals)
  /\ \/ Head(signals).kind = "connected" /\ OnConnected
     \/ Head(signals).kind = "running"   /\ OnRunning(TRUE)
     \/ Head(signals).kind = "stopped"   /\ OnRunning(FALSE)
     \/ Head(signals).kind = "sample"    /\ OnSample(Head(signals).run)
     \/ Head(signals).kind = "error"     /\ OnError
     \/ Head(signals).kind = "finished"  /\ OnDisconnected
  /\ UNCHANGED <<commands, interrupted>>

----------------------------------------------------------------------------
(* The worker: SessionWorker.run and _loop.                                *)

Emit(s) == /\ Len(signals) + Len(s) <= MAX_SIGNALS
           /\ signals' = signals \o s

\* Mutant: a port is opened although none is selected.
SelectedAll == {session.data, session.console}

Selected == PortsOf(session)

(* The data port, then the console port, as far as they are chosen.  An    *)
(* exception leaves open what was opened before it, until the ExitStack    *)
(* closes that.  The GUI chooses no ports that run refuses.                *)
OpenPorts ==
  /\ thread = "open"
  /\ \/ /\ held' = Selected
        /\ thread' = "loop"
        /\ Emit(<<Signal("connected")>>)
     \/ /\ session.data /= NoPort
        /\ thread' = "raise"
        /\ UNCHANGED <<held, signals>>
     \/ /\ session.console /= NoPort
        /\ held' = {session.data}
        /\ thread' = "raise"
        /\ UNCHANGED signals
  /\ UNCHANGED <<windowState, session, settings, failed, commands, interrupted>>

\* Mutant: a running simulation is not interrupted.
LeaveWhenIdle == /\ thread = "loop" /\ interrupted /\ settings = 0
                 /\ held' = {}
                 /\ thread' = "final"
                 /\ UNCHANGED <<windowState, session, settings, failed,
                                betweenState>>

(* The condition of the loop.                                              *)
Leave == /\ thread = "loop" /\ interrupted
         /\ held' = {}
         /\ thread' = "final"
         /\ UNCHANGED <<windowState, session, settings, failed, betweenState>>

NoCommand == /\ thread = "loop" /\ ~interrupted
             /\ commands = <<>>
             /\ thread' = "turn"
             /\ UNCHANGED <<windowState, session, held, settings, failed,
                            betweenState>>

Take(c) == /\ thread = "loop" /\ ~interrupted
           /\ commands /= <<>> /\ Head(commands).do = c
           /\ commands' = Tail(commands)
           /\ UNCHANGED <<windowState, session, held, failed, interrupted>>

\* Mutants: the stop is not reported; the run goes on.
TakeStopSilent == /\ Take("stop")
                  /\ settings' = 0
                  /\ thread' = "turn"
                  /\ UNCHANGED signals
TakeStopGoesOn == /\ Take("stop")
                  /\ UNCHANGED settings
                  /\ Emit(<<Signal("stopped")>>)
                  /\ thread' = "turn"

TakeStop == /\ Take("stop")
            /\ settings' = 0
            /\ Emit(<<Signal("stopped")>>)
            /\ thread' = "turn"

(* INIT is written, or generated in the preview; the write may fail.       *)
TakeStart ==
  /\ Take("start")
  /\ \/ /\ settings' = Head(commands).run
        /\ Emit(<<[kind |-> "running", run |-> Head(commands).run]>>)
        /\ thread' = "turn"
     \/ /\ session.data /= NoPort
        /\ thread' = "raise"
        /\ UNCHANGED <<settings, signals>>

(* One turn of the loop after the command: the console is read, and a      *)
(* sample may be due.                                                      *)
InTurn == /\ thread = "turn"
          /\ UNCHANGED <<windowState, session, held, failed, commands, interrupted>>

NothingDue == InTurn /\ thread' = "loop" /\ UNCHANGED <<settings, signals>>

PortFails == /\ InTurn
             /\ \/ session.console /= NoPort
                \/ session.data /= NoPort /\ settings /= 0
             /\ thread' = "raise"
             /\ UNCHANGED <<settings, signals>>

(* make_sample, written to the port if there is one.                       *)
SendSample == /\ InTurn /\ settings /= 0
              /\ Emit(<<[kind |-> "sample", run |-> settings]>>)
              /\ thread' = "loop"
              /\ UNCHANGED settings

\* Mutant: the end of a run is not reported.
RunEndsSilently == /\ InTurn /\ settings /= 0
                   /\ settings' = 0
                   /\ thread' = "loop"
                   /\ UNCHANGED signals

(* The duration is over, or make_sample refuses a value.                   *)
RunEnds == /\ InTurn /\ settings /= 0
           /\ settings' = 0
           /\ \/ Emit(<<Signal("stopped")>>)
              \/ Emit(<<Signal("stopped"), Signal("error")>>)
           /\ thread' = "loop"

\* Mutant: the ports are not closed on the way out.
RaiseKeepsPorts ==
  /\ thread = "raise"
  /\ failed' = TRUE
  /\ Emit(<<Signal("error")>>)
  /\ thread' = "final"
  /\ UNCHANGED <<windowState, session, held, settings, commands, interrupted>>

(* `except Exception`, after the ExitStack has closed the ports.           *)
Raise == /\ thread = "raise"
         /\ held' = {}
         /\ failed' = TRUE
         /\ Emit(<<Signal("error")>>)
         /\ thread' = "final"
         /\ UNCHANGED <<windowState, session, settings, commands, interrupted>>

(* `finally` *)
Final == /\ thread = "final"
         /\ Emit(<<Signal("stopped")>>)
         /\ thread' = "return"
         /\ UNCHANGED <<windowState, session, held, settings, failed, commands,
                        interrupted>>

(* QThread emits `finished` when run has returned.                         *)
Finish == /\ thread = "return"
          /\ Emit(<<Signal("finished")>>)
          /\ thread' = "dead"
          /\ UNCHANGED <<windowState, session, held, settings, failed, commands,
                         interrupted>>

Worker == \/ OpenPorts \/ Leave \/ NoCommand \/ TakeStop \/ TakeStart
          \/ NothingDue \/ PortFails \/ SendSample \/ RunEnds
          \/ Raise \/ Final \/ Finish

----------------------------------------------------------------------------
(* After the window is closed the program ends.                            *)
Ended == closed /\ UNCHANGED guiVars

Next == User \/ Deliver \/ Worker \/ Ended

GuiSpec == Init /\ [][Next]_guiVars

(* Both threads are scheduled, and the event loop of the window returns to *)
(* its queue.  The user owes nothing.                                      *)
GuiLiveSpec == GuiSpec /\ WF_guiVars(Deliver) /\ WF_guiVars(Worker)

----------------------------------------------------------------------------
GuiTypeOK ==
  /\ connected \in BOOLEAN /\ closing \in BOOLEAN /\ closed \in BOOLEAN
  /\ enabled \subseteq Controls
  /\ status \in {"empty", "error", "running", "waiting"}
  /\ shown \subseteq Run /\ starts \in 0 .. MAX_RUNS
  /\ commands \in Seq(Commands) /\ Len(commands) <= MAX_COMMANDS
  /\ interrupted \in BOOLEAN
  /\ signals \in Seq(Signals) /\ Len(signals) <= MAX_SIGNALS
  /\ thread \in {"none", "open", "loop", "turn", "raise", "final", "return",
                 "dead"}
  /\ session \in Sessions /\ held \subseteq PortsOf(session)
  /\ settings \in 0 .. MAX_RUNS
  /\ failed \in BOOLEAN /\ overlapped \in BOOLEAN

(* After a stop the picture stands still: no sample arrives while the      *)
(* window offers Start, whichever answers and samples were still under way *)
(* when the user pressed the button (gui.py:292-293, test_gui.py:60-64).   *)
StoppedMeansQuiet ==
  signals /= <<>> /\ Head(signals).kind = "sample" => "start" \notin enabled

(* Whatever the user pressed and the worker did in between, once all       *)
(* commands and signals have been handled the buttons of a connected       *)
(* window agree with what its worker does.                                 *)
AtRest == /\ commands = <<>> /\ signals = <<>>
          /\ connected /\ ~interrupted
          /\ thread \in {"loop", "turn"}

ViewAgreesAtRest ==
  AtRest => IF settings = 0 THEN enabled = {"connect", "start", "form"}
                            ELSE enabled = {"connect", "stop"}

(* The plot shows the samples of the last run only, unless that run was    *)
(* started while an earlier start was still unanswered: the answer to a    *)
(* stop can offer Start too early (gui.py:277, :293).                      *)
PlotShowsOneRun == ~overlapped => shown \subseteq {starts}

(* Whether a session was disconnected, closed or ended by an error, and    *)
(* also when only the first of its two ports could be opened, nothing is   *)
(* held open when its end is reported: the ports can be selected again     *)
(* (gui_worker.py:42, GUI.md:64).                                          *)
PortsReleased ==
  /\ thread \in {"none", "final", "return", "dead"} => held = {}
  /\ closed => held = {} /\ thread = "none"

(* Closing succeeds at any moment of a session, also while ports are being *)
(* opened and `connected` is still to be delivered (gui.py:262, :349-353). *)
CloseCompletes == closing ~> closed

(* A connected window never waits for ever with neither Start nor Stop to  *)
(* press, even when the command it waits for went to a worker that is      *)
(* ending and is never taken (gui_worker.py:65-67).                        *)
Waiting == connected /\ {"start", "stop"} \intersect enabled = {}

WaitEnds == Waiting ~> ~Waiting

(* GUI.md:69 says that errors in opening, reading or writing a port are    *)
(* shown in the log and in the status bar, and that one can connect again: *)
(* when the window is ready for that, the status bar shows the error.      *)
FailedSessionShowsError == ~HasWorker /\ failed => status = "error"

----------------------------------------------------------------------------
(* Why these hold: an inductive invariant, in named parts.                 *)

(* The sessions of the window are told apart by `finished`, the last       *)
(* signal of a worker; after it nothing of the session is left.            *)
SessionInv ==
  /\ thread = "none" => /\ signals = <<>> /\ held = {}
                        /\ ~connected /\ enabled = {"connect", "form"}
  /\ thread = "open" => /\ signals = <<>> /\ commands = <<>> /\ held = {}
                        /\ settings = 0
                        /\ ~connected /\ enabled = {"form"}
  /\ thread \in {"final", "return", "dead"} => held = {}
  /\ \A i \in 1 .. Len(signals) :
       signals[i].kind = "finished" => thread = "dead" /\ i = Len(signals)
  /\ closed => thread = "none"

(* Start cannot be pressed once the signals before the i-th are handled.   *)
OffersStart(i) == signals[i].kind \in {"connected", "stopped"}

NoStart(i) ==
  \/ "start" \notin enabled /\ \A j \in 1 .. i - 1 : ~OffersStart(j)
  \/ \E k \in 1 .. i - 1 : /\ signals[k].kind = "running"
                           /\ \A j \in k + 1 .. i - 1 : ~OffersStart(j)

(* So it is when a sample arrives, and while the worker may send another.  *)
InRun == thread \in {"loop", "turn"} /\ settings /= 0

QuietInv ==
  /\ \A i \in 1 .. Len(signals) : signals[i].kind = "sample" => NoStart(i)
  /\ InRun => NoStart(Len(signals) + 1)

(* Unless starts have overlapped, everything under way is of the last one. *)
OneRunInv ==
  ~overlapped =>
    /\ \A i \in 1 .. Len(commands) :
         commands[i].do = "start" => commands[i].run = starts
    /\ InRun => settings = starts
    /\ \A i \in 1 .. Len(signals) :
         signals[i].kind = "sample" => signals[i].run = starts
    /\ shown \subseteq {starts}

(* While a session is on, the window has heard of it or `connected` is the *)
(* next thing it hears.                                                    *)
InSession == thread \in {"loop", "turn"} /\ ~interrupted

ConnectedInv ==
  InSession =>
    \/ /\ connected /\ "connect" \in enabled
       /\ \A i \in 1 .. Len(signals) : signals[i].kind /= "connected"
    \/ /\ ~connected /\ enabled = {"form"}
       /\ signals /= <<>> /\ signals[1].kind = "connected"
       /\ \A i \in 2 .. Len(signals) : signals[i].kind /= "connected"

(* When all commands are taken, the last signal about the state of the     *)
(* worker, or else the window, tells its state.                            *)
TellsState(i) == signals[i].kind \in {"connected", "running", "stopped"}

ViewInv ==
  InSession /\ commands = <<>> =>
    /\ \A i \in 1 .. Len(signals) :
         TellsState(i) /\ (\A j \in i + 1 .. Len(signals) : ~TellsState(j)) =>
           (signals[i].kind = "running") = (settings /= 0)
    /\ (\A i \in 1 .. Len(signals) : ~TellsState(i)) =>
         enabled = IF settings = 0 THEN {"connect", "start", "form"}
                                   ELSE {"connect", "stop"}

IInv == /\ GuiTypeOK /\ SessionInv /\ QuietInv /\ OneRunInv /\ ConnectedInv
        /\ ViewInv
=============================================================================
