-------------------------- MODULE GuiSessionProofs --------------------------
(***************************************************************************)
(* For every number of ports, runs, commands and signals outstanding: no   *)
(* sample arrives while the window offers Start, a window at rest agrees   *)
(* with its worker, the plot shows one run, and the ports are released.    *)
(***************************************************************************)
EXTENDS GuiSession, SequenceTheorems, TLAPS

(* What Next comes down to.                                                *)
LEMMA NextCases ==
  ASSUME [Next]_guiVars
  PROVE  \/ Connect \/ ConnectRefused \/ PressDisconnect \/ PressStart
         \/ PressStop \/ CloseWindow \/ Deliver
         \/ OpenPorts \/ Leave \/ NoCommand \/ TakeStop \/ TakeStart
         \/ NothingDue \/ PortFails \/ SendSample \/ RunEnds
         \/ Raise \/ Final \/ Finish \/ UNCHANGED guiVars
BY DEF Next, User, Worker, Ended

----------------------------------------------------------------------------
(* The queue of signals.                                                   *)

LEMMA SignalTyped ==
  ASSUME NEW k \in {"connected", "stopped", "error", "finished"}
  PROVE  Signal(k) \in Signals /\ Signal(k).kind = k
BY DEF Signal, Signals

LEMMA RunSignalTyped ==
  ASSUME NEW k \in {"running", "sample"}, NEW r \in Run
  PROVE  /\ [kind |-> k, run |-> r] \in Signals
         /\ [kind |-> k, run |-> r].kind = k /\ [kind |-> k, run |-> r].run = r
BY DEF Signals

LEMMA EmitFacts ==
  ASSUME signals \in Seq(Signals), NEW x \in Signals, Emit(<<x>>)
  PROVE  /\ signals' \in Seq(Signals) /\ Len(signals') <= MAX_SIGNALS
         /\ Len(signals) \in Nat /\ Len(signals') = Len(signals) + 1
         /\ \A i \in 1 .. Len(signals) : signals'[i] = signals[i]
         /\ signals'[Len(signals) + 1] = x
<1>1. <<x>> \in Seq(Signals) /\ Len(<<x>>) = 1 /\ <<x>>[1] = x
  OBVIOUS
<1>2. signals' = signals \o <<x>> /\ Len(signals) + 1 <= MAX_SIGNALS
  BY <1>1 DEF Emit
<1>3. /\ signals \o <<x>> \in Seq(Signals)
      /\ Len(signals \o <<x>>) = Len(signals) + 1
      /\ \A i \in 1 .. Len(signals) + 1 :
           (signals \o <<x>>)[i] = IF i <= Len(signals) THEN signals[i]
                                   ELSE <<x>>[i - Len(signals)]
  BY <1>1, ConcatProperties
<1>4. Len(signals) \in Nat
  OBVIOUS
<1>5. \A i \in 1 .. Len(signals) : signals'[i] = signals[i]
  BY <1>2, <1>3, <1>4
<1>6. signals'[Len(signals) + 1] = x
  <2>1. signals'[Len(signals) + 1] = <<x>>[(Len(signals) + 1) - Len(signals)]
    BY <1>2, <1>3, <1>4
  <2>2. (Len(signals) + 1) - Len(signals) = 1
    BY <1>4
  <2>3. QED
    BY <1>1, <2>1, <2>2
<1>7. QED
  BY <1>2, <1>3, <1>4, <1>5, <1>6

LEMMA EmitTwoFacts ==
  ASSUME signals \in Seq(Signals), NEW x \in Signals, NEW y \in Signals,
         Emit(<<x, y>>)
  PROVE  /\ signals' \in Seq(Signals) /\ Len(signals') <= MAX_SIGNALS
         /\ Len(signals) \in Nat /\ Len(signals') = Len(signals) + 2
         /\ \A i \in 1 .. Len(signals) : signals'[i] = signals[i]
         /\ signals'[Len(signals) + 1] = x /\ signals'[Len(signals) + 2] = y
<1>1. /\ <<x, y>> \in Seq(Signals) /\ Len(<<x, y>>) = 2
      /\ <<x, y>>[1] = x /\ <<x, y>>[2] = y
  OBVIOUS
<1>2. signals' = signals \o <<x, y>> /\ Len(signals) + 2 <= MAX_SIGNALS
  BY <1>1 DEF Emit
<1>3. /\ signals \o <<x, y>> \in Seq(Signals)
      /\ Len(signals \o <<x, y>>) = Len(signals) + 2
      /\ \A i \in 1 .. Len(signals) + 2 :
           (signals \o <<x, y>>)[i] = IF i <= Len(signals) THEN signals[i]
                                      ELSE <<x, y>>[i - Len(signals)]
  BY <1>1, ConcatProperties
<1>4. Len(signals) \in Nat
  OBVIOUS
<1>5. \A i \in 1 .. Len(signals) : signals'[i] = signals[i]
  BY <1>2, <1>3, <1>4
<1>6. signals'[Len(signals) + 1] = x /\ signals'[Len(signals) + 2] = y
  <2>1. /\ signals'[Len(signals) + 1] = <<x, y>>[(Len(signals) + 1) - Len(signals)]
        /\ signals'[Len(signals) + 2] = <<x, y>>[(Len(signals) + 2) - Len(signals)]
    BY <1>2, <1>3, <1>4
  <2>2. /\ (Len(signals) + 1) - Len(signals) = 1
        /\ (Len(signals) + 2) - Len(signals) = 2
    BY <1>4
  <2>3. QED
    BY <1>1, <2>1, <2>2
<1>7. QED
  BY <1>2, <1>3, <1>4, <1>5, <1>6

(* Delivery takes the first signal and calls the slot of its kind.         *)
LEMMA DeliverFacts ==
  ASSUME signals \in Seq(Signals), Deliver
  PROVE  /\ signals /= <<>> /\ Head(signals) = signals[1] /\ signals[1] \in Signals
         /\ signals' \in Seq(Signals)
         /\ Len(signals) \in Nat /\ Len(signals) >= 1
         /\ Len(signals') = Len(signals) - 1
         /\ \A i \in 1 .. Len(signals') : signals'[i] = signals[i + 1]
<1>1. signals /= <<>> /\ signals' = Tail(signals)
  BY DEF Deliver
<1>2. Len(signals) \in Nat /\ Len(signals) >= 1 /\ Head(signals) = signals[1]
  BY <1>1, EmptySeq
<1>3. QED
  BY <1>1, <1>2, HeadTailProperties

LEMMA DeliverCases ==
  ASSUME signals \in Seq(Signals), Deliver
  PROVE  /\ UNCHANGED <<commands, interrupted>>
         /\ \/ signals[1].kind = "connected" /\ OnConnected
            \/ signals[1].kind = "running"   /\ OnRunning(TRUE)
            \/ signals[1].kind = "stopped"   /\ OnRunning(FALSE)
            \/ signals[1].kind = "sample"    /\ OnSample(signals[1].run)
            \/ signals[1].kind = "error"     /\ OnError
            \/ signals[1].kind = "finished"  /\ OnDisconnected
<1>1. Head(signals) = signals[1] /\ signals[1] \in Signals
  BY DeliverFacts
<1>2. signals[1].kind \in {"connected", "running", "stopped", "sample", "error",
                           "finished"}
  BY <1>1 DEF Signals
<1>3. QED
  BY <1>1, <1>2 DEF Deliver

----------------------------------------------------------------------------
(* Types.                                                                  *)

LEMMA UpdatedTyped ==
  ASSUME NEW c \in BOOLEAN, NEW b \in BOOLEAN
  PROVE  Updated(c, b) \subseteq Controls
BY DEF Updated, Controls

LEMMA TakeFacts ==
  ASSUME GuiTypeOK, NEW c, Take(c)
  PROVE  /\ commands' \in Seq(Commands) /\ Len(commands') <= MAX_COMMANDS
         /\ Len(commands) \in Nat /\ Len(commands) >= 1
         /\ Len(commands') = Len(commands) - 1
         /\ Head(commands) = commands[1] /\ commands[1] \in Commands
         /\ commands[1].do = c
         /\ \A i \in 1 .. Len(commands') : commands'[i] = commands[i + 1]
<1>1. /\ commands \in Seq(Commands) /\ commands /= <<>>
      /\ commands' = Tail(commands) /\ Head(commands).do = c
      /\ Len(commands) <= MAX_COMMANDS
  BY DEF GuiTypeOK, Take
<1>2. Len(commands) \in Nat /\ Len(commands) >= 1 /\ Head(commands) = commands[1]
  BY <1>1, EmptySeq
<1>3. QED
  BY <1>1, <1>2, HeadTailProperties, GuiAssumption

LEMMA PressFacts ==
  ASSUME GuiTypeOK, NEW c \in Commands, Len(commands) < MAX_COMMANDS,
         commands' = Append(commands, c)
  PROVE  /\ commands' \in Seq(Commands) /\ Len(commands') <= MAX_COMMANDS
         /\ Len(commands) \in Nat /\ Len(commands') = Len(commands) + 1
         /\ \A i \in 1 .. Len(commands) : commands'[i] = commands[i]
         /\ commands'[Len(commands) + 1] = c
         /\ commands' /= <<>>
BY AppendProperties, GuiAssumption DEF GuiTypeOK

LEMMA StartTyped ==
  ASSUME GuiTypeOK, PressStart
  PROVE  /\ starts' \in 1 .. MAX_RUNS
         /\ [do |-> "start", run |-> starts'] \in Commands
         /\ [do |-> "start", run |-> starts'].run = starts'
BY GuiAssumption DEF GuiTypeOK, PressStart, Commands, Run

LEMMA StopTyped == [do |-> "stop", run |-> 0] \in Commands
BY DEF Commands

LEMMA TakenRun ==
  ASSUME GuiTypeOK, Take("start")
  PROVE  Head(commands).run \in Run /\ Head(commands) = commands[1]
<1>1. commands[1] \in Commands /\ commands[1].do = "start" /\ Head(commands) = commands[1]
  BY TakeFacts
<1>2. QED
  BY <1>1 DEF Commands

(* Every step that emits one signal, and which.                            *)
LEMMA Emits ==
  ASSUME GuiTypeOK
  PROVE  /\ OpenPorts /\ thread' = "loop" => Emit(<<Signal("connected")>>)
         /\ TakeStop => Emit(<<Signal("stopped")>>)
         /\ Raise => Emit(<<Signal("error")>>)
         /\ Final => Emit(<<Signal("stopped")>>)
         /\ Finish => Emit(<<Signal("finished")>>)
BY DEF OpenPorts, TakeStop, Raise, Final, Finish

LEMMA TypeStep ==
  ASSUME GuiTypeOK, SessionInv, [Next]_guiVars
  PROVE  GuiTypeOK'
<1> USE DEF GuiTypeOK
<1>s. signals \in Seq(Signals)
  OBVIOUS
<1>e. \A k \in {"connected", "stopped", "error", "finished"} :
        Emit(<<Signal(k)>>) =>
          signals' \in Seq(Signals) /\ Len(signals') <= MAX_SIGNALS
  BY <1>s, SignalTyped, EmitFacts
<1>r. \A k \in {"running", "sample"}, r \in Run :
        Emit(<<[kind |-> k, run |-> r]>>) =>
          signals' \in Seq(Signals) /\ Len(signals') <= MAX_SIGNALS
  BY <1>s, RunSignalTyped, EmitFacts
<1>1. CASE Connect
  <2>1. enabled' \subseteq Controls
    BY <1>1, UpdatedTyped DEF Connect
  <2>2. held' = {}
    BY <1>1 DEF Connect, HasWorker, SessionInv
  <2>3. commands' \in Seq(Commands) /\ Len(commands') <= MAX_COMMANDS
    BY <1>1, GuiAssumption DEF Connect
  <2>4. /\ session' \in Sessions /\ thread' = "open" /\ settings' = 0
        /\ failed' = FALSE /\ interrupted' = FALSE
        /\ UNCHANGED <<connected, closing, closed, status, shown, starts,
                       overlapped, signals>>
    BY <1>1 DEF Connect
  <2>5. settings' \in 0 .. MAX_RUNS
    BY <2>4, GuiAssumption
  <2>6. QED
    BY <2>1, <2>2, <2>3, <2>4, <2>5
<1>2. CASE ConnectRefused
  BY <1>2 DEF ConnectRefused, workerState, betweenState
<1>3. CASE PressDisconnect
  BY <1>3 DEF PressDisconnect, Disconnect, workerState
<1>4. CASE PressStart
  <2>1. commands' \in Seq(Commands) /\ Len(commands') <= MAX_COMMANDS
    BY <1>4, StartTyped, PressFacts DEF PressStart
  <2>2. starts' \in 0 .. MAX_RUNS
    BY <1>4, StartTyped
  <2>3. overlapped' \in BOOLEAN
    BY <1>4 DEF PressStart, StartOutstanding
  <2>4. QED
    BY <1>4, <2>1, <2>2, <2>3 DEF PressStart, Cleared, workerState
<1>5. CASE PressStop
  <2>1. commands' \in Seq(Commands) /\ Len(commands') <= MAX_COMMANDS
    BY <1>5, StopTyped, PressFacts DEF PressStop
  <2>2. QED
    BY <1>5, <2>1 DEF PressStop, workerState
<1>6. CASE CloseWindow
  BY <1>6 DEF CloseWindow, Disconnect, workerState
<1>7. CASE Deliver
  <2>1. signals' \in Seq(Signals) /\ Len(signals') <= MAX_SIGNALS
    BY <1>7, <1>s, DeliverFacts, GuiAssumption
  <2>2. UNCHANGED <<commands, interrupted>>
    BY <1>7, <1>s, DeliverCases
  <2>3. signals[1] \in Signals
    BY <1>7, <1>s, DeliverFacts
  <2>4. CASE OnConnected
    BY <2>1, <2>2, <2>4, UpdatedTyped DEF OnConnected, workerState
  <2>5. CASE OnRunning(TRUE)
    BY <2>1, <2>2, <2>5 DEF OnRunning, RunningControls, Controls, workerState
  <2>6. CASE OnRunning(FALSE)
    BY <2>1, <2>2, <2>6 DEF OnRunning, StoppedControls, Controls, workerState
  <2>7. CASE signals[1].kind = "sample" /\ OnSample(signals[1].run)
    <3>1. signals[1].run \in Run
      BY <2>3, <2>7 DEF Signals
    <3>2. QED
      BY <2>1, <2>2, <2>7, <3>1 DEF OnSample, workerState
  <2>8. CASE OnError
    BY <2>1, <2>2, <2>8 DEF OnError, workerState
  <2>9. CASE OnDisconnected
    BY <2>1, <2>2, <2>9 DEF OnDisconnected, Controls
  <2>10. QED
    BY <1>7, <1>s, <2>4, <2>5, <2>6, <2>7, <2>8, <2>9, DeliverCases
<1>8. CASE OpenPorts
  <2>1. signals' \in Seq(Signals) /\ Len(signals') <= MAX_SIGNALS
    BY <1>8, <1>e DEF OpenPorts
  <2>2. held' \subseteq PortsOf(session)
    BY <1>8 DEF OpenPorts, Selected, PortsOf, Sessions
  <2>3. QED
    BY <1>8, <2>1, <2>2 DEF OpenPorts, windowState
<1>9. CASE Leave
  BY <1>9 DEF Leave, windowState, betweenState
<1>10. CASE NoCommand
  BY <1>10 DEF NoCommand, windowState, betweenState
<1>11. CASE TakeStop
  <2>1. signals' \in Seq(Signals) /\ Len(signals') <= MAX_SIGNALS
    BY <1>11, <1>e DEF TakeStop
  <2>2. commands' \in Seq(Commands) /\ Len(commands') <= MAX_COMMANDS
    BY <1>11, TakeFacts DEF TakeStop
  <2>3. QED
    BY <1>11, <2>1, <2>2, GuiAssumption DEF TakeStop, Take, windowState
<1>12. CASE TakeStart
  <2>1. Head(commands).run \in Run /\ Take("start")
    BY <1>12, TakenRun DEF TakeStart
  <2>2. signals' \in Seq(Signals) /\ Len(signals') <= MAX_SIGNALS
    BY <1>12, <1>r, <2>1 DEF TakeStart
  <2>3. commands' \in Seq(Commands) /\ Len(commands') <= MAX_COMMANDS
    BY <2>1, TakeFacts
  <2>4. settings' \in 0 .. MAX_RUNS
    BY <1>12, <2>1, GuiAssumption DEF TakeStart, Run
  <2>5. QED
    BY <1>12, <2>1, <2>2, <2>3, <2>4 DEF TakeStart, Take, windowState
<1>13. CASE NothingDue
  BY <1>13 DEF NothingDue, InTurn, windowState
<1>14. CASE PortFails
  BY <1>14 DEF PortFails, InTurn, windowState
<1>15. CASE SendSample
  <2>1. settings \in Run
    BY <1>15, GuiAssumption DEF SendSample, Run
  <2>2. signals' \in Seq(Signals) /\ Len(signals') <= MAX_SIGNALS
    BY <1>15, <1>r, <2>1 DEF SendSample
  <2>3. QED
    BY <1>15, <2>2 DEF SendSample, InTurn, windowState
<1>16. CASE RunEnds
  <2>1. signals' \in Seq(Signals) /\ Len(signals') <= MAX_SIGNALS
    BY <1>16, <1>e, <1>s, SignalTyped, EmitTwoFacts DEF RunEnds
  <2>2. QED
    BY <1>16, <2>1, GuiAssumption DEF RunEnds, InTurn, windowState
<1>17. CASE Raise
  <2>1. signals' \in Seq(Signals) /\ Len(signals') <= MAX_SIGNALS
    BY <1>17, <1>e DEF Raise
  <2>2. QED
    BY <1>17, <2>1 DEF Raise, windowState
<1>18. CASE Final
  <2>1. signals' \in Seq(Signals) /\ Len(signals') <= MAX_SIGNALS
    BY <1>18, <1>e DEF Final
  <2>2. QED
    BY <1>18, <2>1 DEF Final, windowState
<1>19. CASE Finish
  <2>1. signals' \in Seq(Signals) /\ Len(signals') <= MAX_SIGNALS
    BY <1>19, <1>e DEF Finish
  <2>2. QED
    BY <1>19, <2>1 DEF Finish, windowState
<1>20. CASE UNCHANGED guiVars
  BY <1>20 DEF guiVars, windowState, workerState, betweenState
<1>21. QED
  BY <1>1, <1>2, <1>3, <1>4, <1>5, <1>6, <1>7, <1>8, <1>9, <1>10, <1>11, <1>12,
     <1>13, <1>14, <1>15, <1>16, <1>17, <1>18, <1>19, <1>20, NextCases

----------------------------------------------------------------------------
(* The sessions of the window.                                             *)

LEMMA NoneFinished ==
  ASSUME SessionInv, thread /= "dead"
  PROVE  \A i \in 1 .. Len(signals) : signals[i].kind /= "finished"
BY DEF SessionInv

LEMMA EmitNoneFinished ==
  ASSUME GuiTypeOK, SessionInv, thread /= "dead",
         NEW x \in Signals, x.kind /= "finished", Emit(<<x>>)
  PROVE  \A i \in 1 .. Len(signals') : signals'[i].kind /= "finished"
<1>1. signals \in Seq(Signals)
  BY DEF GuiTypeOK
<1>2. QED
  BY <1>1, NoneFinished, EmitFacts

LEMMA SessionStep ==
  ASSUME GuiTypeOK, SessionInv, [Next]_guiVars
  PROVE  SessionInv'
<1> DEFINE Fin == \A i \in 1 .. Len(signals) : signals[i].kind /= "finished"
<1>s. signals \in Seq(Signals) /\ Len(signals) \in Nat
  BY DEF GuiTypeOK
<1>f. thread /= "dead" => Fin
  BY NoneFinished
<1>e. \A k \in {"connected", "stopped", "error"} :
        thread /= "dead" /\ Emit(<<Signal(k)>>) => Fin'
  <2> SUFFICES ASSUME NEW k \in {"connected", "stopped", "error"},
                      thread /= "dead", Emit(<<Signal(k)>>)
               PROVE  Fin'
    OBVIOUS
  <2>1. Signal(k) \in Signals /\ Signal(k).kind /= "finished"
    BY SignalTyped
  <2>2. QED
    BY <2>1, EmitNoneFinished
<1>r. \A k \in {"running", "sample"}, r \in Run :
        thread /= "dead" /\ Emit(<<[kind |-> k, run |-> r]>>) => Fin'
  <2> SUFFICES ASSUME NEW k \in {"running", "sample"}, NEW r \in Run,
                      thread /= "dead", Emit(<<[kind |-> k, run |-> r]>>)
               PROVE  Fin'
    OBVIOUS
  <2>1. [kind |-> k, run |-> r] \in Signals /\ [kind |-> k, run |-> r].kind /= "finished"
    BY RunSignalTyped
  <2>2. QED
    BY <2>1, EmitNoneFinished
<1> HIDE DEF Fin
<1>q. Fin' => \A i \in 1 .. Len(signals') :
                signals'[i].kind = "finished" => thread' = "dead" /\ i = Len(signals')
  BY DEF Fin
<1>1. CASE Connect
  <2>1. signals' = <<>> /\ held' = {} /\ ~connected' /\ enabled' = {"form"}
    BY <1>1 DEF Connect, HasWorker, SessionInv, Updated
  <2>2. thread' = "open" /\ commands' = <<>> /\ settings' = 0 /\ ~closed'
    BY <1>1 DEF Connect
  <2>3. 1 .. Len(signals') = {}
    BY <2>1
  <2>4. QED
    BY <2>1, <2>2, <2>3 DEF SessionInv
<1>2. CASE ConnectRefused
  BY <1>2 DEF ConnectRefused, workerState, betweenState, SessionInv
<1>3. CASE PressDisconnect
  BY <1>3 DEF PressDisconnect, Disconnect, workerState, SessionInv, HasWorker
<1>4. CASE PressStart
  BY <1>4 DEF PressStart, workerState, SessionInv
<1>5. CASE PressStop
  BY <1>5 DEF PressStop, workerState, SessionInv
<1>6. CASE CloseWindow
  BY <1>6 DEF CloseWindow, Disconnect, workerState, SessionInv, HasWorker
<1>7. CASE Deliver
  <2>1. /\ Len(signals) >= 1 /\ signals /= <<>>
        /\ signals' \in Seq(Signals) /\ Len(signals') = Len(signals) - 1
        /\ \A i \in 1 .. Len(signals') : signals'[i] = signals[i + 1]
    BY <1>7, <1>s, DeliverFacts
  <2>2. \A i \in 1 .. Len(signals') :
          signals'[i].kind = "finished" => thread = "dead" /\ i = Len(signals')
    BY <1>s, <2>1 DEF SessionInv
  <2>3. thread \notin {"none", "open"}
    BY <2>1 DEF SessionInv
  <2>4. CASE thread' = thread /\ held' = held /\ closed' = closed
    BY <2>2, <2>3, <2>4 DEF SessionInv
  <2>5. CASE signals[1].kind = "finished" /\ OnDisconnected
    <3>1. thread = "dead" /\ Len(signals) = 1
      BY <1>s, <2>1, <2>5 DEF SessionInv
    <3>2. signals' = <<>>
      BY <2>1, <3>1, EmptySeq
    <3>3. QED
      BY <2>5, <3>1, <3>2 DEF OnDisconnected, SessionInv
  <2>6. QED
    BY <1>7, <1>s, <2>4, <2>5, DeliverCases
       DEF OnConnected, OnRunning, OnSample, OnError, workerState
<1>8. CASE OpenPorts
  <2>1. Fin'
    BY <1>8, <1>e, <1>f DEF OpenPorts, Fin
  <2>2. thread = "open" /\ thread' \in {"loop", "raise"} /\ closed' = closed
    BY <1>8 DEF OpenPorts, windowState
  <2>3. QED
    BY <1>q, <2>1, <2>2 DEF SessionInv
<1>9. CASE Leave
  BY <1>9 DEF Leave, windowState, betweenState, SessionInv
<1>10. CASE NoCommand
  BY <1>10 DEF NoCommand, windowState, betweenState, SessionInv
<1>11. CASE TakeStop
  <2>1. Fin'
    BY <1>11, <1>e DEF TakeStop, Take
  <2>2. QED
    BY <1>11, <1>q, <2>1 DEF TakeStop, Take, windowState, SessionInv
<1>12. CASE TakeStart
  <2>1. Head(commands).run \in Run /\ Take("start")
    BY <1>12, TakenRun DEF TakeStart
  <2>2. Fin'
    BY <1>12, <1>r, <1>f, <2>1 DEF TakeStart, Take, Fin
  <2>3. QED
    BY <1>12, <1>q, <2>2 DEF TakeStart, Take, windowState, SessionInv
<1>13. CASE NothingDue
  BY <1>13 DEF NothingDue, InTurn, windowState, SessionInv
<1>14. CASE PortFails
  BY <1>14 DEF PortFails, InTurn, windowState, SessionInv
<1>15. CASE SendSample
  <2>1. settings \in Run
    BY <1>15, GuiAssumption DEF SendSample, Run, GuiTypeOK
  <2>2. Fin'
    BY <1>15, <1>r, <2>1 DEF SendSample, InTurn
  <2>3. QED
    BY <1>15, <1>q, <2>2 DEF SendSample, InTurn, windowState, SessionInv
<1>16. CASE RunEnds
  <2>1. CASE Emit(<<Signal("stopped")>>)
    <3>1. Fin'
      BY <1>16, <1>e, <2>1 DEF RunEnds, InTurn
    <3>2. QED
      BY <1>16, <1>q, <3>1 DEF RunEnds, InTurn, windowState, SessionInv
  <2>2. CASE Emit(<<Signal("stopped"), Signal("error")>>)
    <3>1. Fin
      BY <1>16, <1>f DEF RunEnds, InTurn
    <3>2. /\ Len(signals') = Len(signals) + 2
          /\ \A i \in 1 .. Len(signals) : signals'[i] = signals[i]
          /\ signals'[Len(signals) + 1].kind = "stopped"
          /\ signals'[Len(signals) + 2].kind = "error"
      BY <1>s, <2>2, SignalTyped, EmitTwoFacts
    <3>3. Fin'
      BY <1>s, <3>1, <3>2 DEF Fin
    <3>4. QED
      BY <1>16, <1>q, <3>3 DEF RunEnds, InTurn, windowState, SessionInv
  <2>3. QED
    BY <1>16, <2>1, <2>2 DEF RunEnds
<1>17. CASE Raise
  <2>1. Fin'
    BY <1>17, <1>e DEF Raise
  <2>2. QED
    BY <1>17, <1>q, <2>1 DEF Raise, windowState, SessionInv
<1>18. CASE Final
  <2>1. Fin'
    BY <1>18, <1>e DEF Final
  <2>2. QED
    BY <1>18, <1>q, <2>1 DEF Final, windowState, SessionInv
<1>19. CASE Finish
  <2>1. Fin
    BY <1>19, <1>f DEF Finish
  <2>2. /\ Len(signals') = Len(signals) + 1
        /\ \A i \in 1 .. Len(signals) : signals'[i] = signals[i]
    BY <1>19, <1>s, SignalTyped, EmitFacts DEF Finish
  <2>3. \A i \in 1 .. Len(signals') :
          signals'[i].kind = "finished" => i = Len(signals')
    BY <1>s, <2>1, <2>2 DEF Fin
  <2>4. QED
    BY <1>19, <2>3 DEF Finish, windowState, SessionInv
<1>20. CASE UNCHANGED guiVars
  BY <1>20 DEF guiVars, windowState, workerState, betweenState, SessionInv
<1>21. QED
  BY <1>1, <1>2, <1>3, <1>4, <1>5, <1>6, <1>7, <1>8, <1>9, <1>10, <1>11, <1>12,
     <1>13, <1>14, <1>15, <1>16, <1>17, <1>18, <1>19, <1>20, NextCases

----------------------------------------------------------------------------
(* No sample arrives while Start is offered: what becomes of NoStart when  *)
(* a step leaves the queue alone, adds a signal to it, or delivers one.    *)

LEMMA NoStartKept ==
  ASSUME signals' = signals, "start" \in enabled' => "start" \in enabled
  PROVE  \A i \in Nat : NoStart(i) => NoStart(i)'
BY DEF NoStart, OffersStart

LEMMA NoStartPrefix ==
  ASSUME NEW n \in Nat, \A j \in 1 .. n : signals'[j] = signals[j],
         enabled' = enabled, NEW i \in 1 .. n + 1, NoStart(i)
  PROVE  NoStart(i)'
<1>1. \A j \in 1 .. n : OffersStart(j)' = OffersStart(j)
  BY DEF OffersStart
<1> HIDE DEF OffersStart
<1>2. CASE "start" \notin enabled /\ \A j \in 1 .. i - 1 : ~OffersStart(j)
  <2>1. \A j \in 1 .. i - 1 : ~OffersStart(j)'
    BY <1>1, <1>2
  <2>2. QED
    BY <1>2, <2>1 DEF NoStart
<1>3. CASE \E k \in 1 .. i - 1 : /\ signals[k].kind = "running"
                                /\ \A j \in k + 1 .. i - 1 : ~OffersStart(j)
  <2>1. PICK k \in 1 .. i - 1 : /\ signals[k].kind = "running"
                               /\ \A j \in k + 1 .. i - 1 : ~OffersStart(j)
    BY <1>3
  <2>2. signals'[k].kind = "running"
    BY <2>1
  <2>3. \A j \in k + 1 .. i - 1 : ~OffersStart(j)'
    BY <1>1, <2>1
  <2>4. QED
    BY <2>2, <2>3 DEF NoStart
<1>4. QED
  BY <1>2, <1>3 DEF NoStart

LEMMA NoStartEmit ==
  ASSUME signals \in Seq(Signals), NEW x \in Signals, Emit(<<x>>),
         enabled' = enabled, NEW n \in Nat, n = Len(signals)
  PROVE  /\ \A i \in 1 .. n + 1 : NoStart(i) => NoStart(i)'
         /\ x.kind \notin {"connected", "stopped"} /\ NoStart(n + 1) =>
              NoStart(n + 2)'
         /\ x.kind = "running" => NoStart(n + 2)'
<1>1. /\ n \in Nat
      /\ \A i \in 1 .. n : signals'[i] = signals[i]
      /\ signals'[n + 1] = x
  BY EmitFacts
<1>3. OffersStart(n + 1)' = (x.kind \in {"connected", "stopped"})
  BY <1>1 DEF OffersStart
<1> HIDE DEF OffersStart
<1>4. \A i \in 1 .. n + 1 : NoStart(i) => NoStart(i)'
  BY <1>1, NoStartPrefix
<1>5. ASSUME x.kind \notin {"connected", "stopped"}, NoStart(n + 1)
      PROVE  NoStart(n + 2)'
  <2>1. NoStart(n + 1)'
    BY <1>1, <1>4, <1>5
  <2>2. ~OffersStart(n + 1)'
    BY <1>3, <1>5
  <2>3. CASE "start" \notin enabled' /\ \A j \in 1 .. n : ~OffersStart(j)'
    <3>1. \A j \in 1 .. n + 1 : ~OffersStart(j)'
      BY <1>1, <2>2, <2>3
    <3>2. (n + 2) - 1 = n + 1
      BY <1>1
    <3>3. QED
      BY <2>3, <3>1, <3>2 DEF NoStart
  <2>4. CASE \E k \in 1 .. n :
               /\ signals'[k].kind = "running"
               /\ \A j \in k + 1 .. n : ~OffersStart(j)'
    <3>1. PICK k \in 1 .. n :
               /\ signals'[k].kind = "running"
               /\ \A j \in k + 1 .. n : ~OffersStart(j)'
      BY <2>4
    <3>2. \A j \in k + 1 .. n + 1 : ~OffersStart(j)'
      BY <1>1, <2>2, <3>1
    <3>3. (n + 2) - 1 = n + 1 /\ k \in 1 .. n + 1
      BY <1>1
    <3>4. QED
      BY <3>1, <3>2, <3>3 DEF NoStart
  <2>5. (n + 1) - 1 = n
    BY <1>1
  <2>6. QED
    BY <2>1, <2>3, <2>4, <2>5 DEF NoStart
<1>6. ASSUME x.kind = "running"
      PROVE  NoStart(n + 2)'
  <2>1. signals'[n + 1].kind = "running"
    BY <1>1, <1>6
  <2>2. (n + 2) - 1 = n + 1
    BY <1>1
  <2>3. n + 1 \in 1 .. n + 1
    BY <1>1
  <2>4. \A j \in n + 2 .. n + 1 : ~OffersStart(j)'
    BY <1>1
  <2>5. (n + 1) + 1 = n + 2
    BY <1>1
  <2>6. QED
    BY <2>1, <2>2, <2>3, <2>4, <2>5 DEF NoStart
<1>7. QED
  BY <1>4, <1>5, <1>6

LEMMA NoStartDeliver ==
  ASSUME signals \in Seq(Signals), Deliver, signals[1].kind /= "finished",
         NEW i \in 1 .. Len(signals), NoStart(i + 1)
  PROVE  NoStart(i)'
<1>1. /\ Len(signals) \in Nat /\ Len(signals') = Len(signals) - 1
      /\ \A j \in 1 .. Len(signals') : signals'[j] = signals[j + 1]
  BY DeliverFacts
<1>2. \A j \in 1 .. Len(signals) - 1 : OffersStart(j)' = OffersStart(j + 1)
  BY <1>1 DEF OffersStart
<1>3. OffersStart(1) = (signals[1].kind \in {"connected", "stopped"})
  BY DEF OffersStart
<1> HIDE DEF OffersStart
<1>i. (i + 1) - 1 = i /\ i - 1 <= Len(signals) - 1
  BY <1>1
<1>4. CASE "start" \notin enabled /\ \A j \in 1 .. i : ~OffersStart(j)
  <2>1. "start" \notin enabled'
    <3>1. ~OffersStart(1)
      BY <1>4
    <3>2. signals[1].kind \notin {"connected", "stopped", "finished"}
      BY <1>3, <3>1
    <3>3. OnRunning(TRUE) \/ OnSample(signals[1].run) \/ OnError
      BY <3>2, DeliverCases
    <3>4. QED
      BY <1>4, <3>3 DEF OnRunning, RunningControls, OnSample, OnError
  <2>2. \A j \in 1 .. i - 1 : ~OffersStart(j)'
    BY <1>1, <1>2, <1>4
  <2>3. QED
    BY <2>1, <2>2 DEF NoStart
<1>5. CASE \E k \in 1 .. i : /\ signals[k].kind = "running"
                             /\ \A j \in k + 1 .. i : ~OffersStart(j)
  <2>1. PICK k \in 1 .. i : /\ signals[k].kind = "running"
                           /\ \A j \in k + 1 .. i : ~OffersStart(j)
    BY <1>5
  <2>2. \A j \in k .. i - 1 : ~OffersStart(j)'
    BY <1>1, <1>2, <2>1
  <2>3. CASE k = 1
    <3>1. OnRunning(TRUE)
      BY <2>1, <2>3, DeliverCases
    <3>2. "start" \notin enabled'
      BY <3>1 DEF OnRunning, RunningControls
    <3>3. QED
      BY <2>2, <2>3, <3>2 DEF NoStart
  <2>4. CASE k > 1
    <3>1. k - 1 \in 1 .. i - 1 /\ (k - 1) + 1 = k
      BY <1>1, <2>4
    <3>2. signals'[k - 1].kind = "running"
      BY <1>1, <2>1, <2>4
    <3>3. QED
      BY <2>2, <3>1, <3>2 DEF NoStart
  <2>5. QED
    BY <2>3, <2>4
<1>6. QED
  BY <1>i, <1>4, <1>5 DEF NoStart

LEMMA QuietKept ==
  ASSUME GuiTypeOK, QuietInv, signals' = signals,
         "start" \in enabled' => "start" \in enabled, InRun' => InRun
  PROVE  QuietInv'
<1>1. Len(signals) \in Nat
  BY DEF GuiTypeOK
<1>2. \A i \in Nat : NoStart(i) => NoStart(i)'
  BY NoStartKept
<1>3. PICK n \in Nat : n = Len(signals)
  BY <1>1
<1>4. InRun' => NoStart(n + 1)'
  BY <1>2, <1>3 DEF QuietInv
<1>5. \A i \in 1 .. n : signals'[i].kind = "sample" => NoStart(i)'
  BY <1>2, <1>3 DEF QuietInv
<1>6. n = Len(signals')
  BY <1>3
<1> HIDE DEF NoStart, InRun
<1>7. QED
  BY <1>4, <1>5, <1>6 DEF QuietInv

LEMMA QuietEmit ==
  ASSUME GuiTypeOK, QuietInv, enabled' = enabled,
         NEW x \in Signals, Emit(<<x>>),
         x.kind = "sample" => InRun,
         InRun' => \/ x.kind = "running"
                   \/ InRun /\ x.kind \notin {"connected", "stopped"}
  PROVE  QuietInv'
<1>1. signals \in Seq(Signals)
  BY DEF GuiTypeOK
<1>2. PICK n \in Nat : n = Len(signals)
  BY <1>1
<1>3. /\ Len(signals') = n + 1 /\ signals'[n + 1] = x
      /\ \A i \in 1 .. n : signals'[i] = signals[i]
  BY <1>1, <1>2, EmitFacts
<1>4. /\ \A i \in 1 .. n + 1 : NoStart(i) => NoStart(i)'
      /\ x.kind \notin {"connected", "stopped"} /\ NoStart(n + 1) => NoStart(n + 2)'
      /\ x.kind = "running" => NoStart(n + 2)'
  BY <1>1, <1>2, NoStartEmit
<1>5. InRun => NoStart(n + 1)
  BY <1>2 DEF QuietInv
<1>6. InRun' => NoStart(n + 2)'
  BY <1>4, <1>5
<1>7. ASSUME NEW i \in 1 .. n + 1, signals'[i].kind = "sample"
      PROVE  NoStart(i)'
  <2>1. CASE i = n + 1
    BY <1>3, <1>4, <1>5, <1>7, <2>1
  <2>2. CASE i \in 1 .. n
    <3>1. signals[i].kind = "sample"
      BY <1>3, <1>7, <2>2
    <3>2. NoStart(i)
      BY <1>2, <2>2, <3>1 DEF QuietInv
    <3>3. QED
      BY <1>4, <3>2
  <2>3. QED
    BY <2>1, <2>2
<1>8. Len(signals') + 1 = n + 2 /\ 1 .. Len(signals') = 1 .. n + 1
  BY <1>3
<1> HIDE DEF NoStart, InRun
<1>9. QED
  BY <1>6, <1>7, <1>8 DEF QuietInv

LEMMA QuietDeliver ==
  ASSUME GuiTypeOK, SessionInv, QuietInv, Deliver
  PROVE  QuietInv'
<1>1. signals \in Seq(Signals)
  BY DEF GuiTypeOK
<1>2. PICK n \in Nat : n = Len(signals)
  BY <1>1
<1>3. /\ n >= 1 /\ Len(signals') = n - 1
      /\ \A i \in 1 .. n - 1 : signals'[i] = signals[i + 1]
  BY <1>1, <1>2, DeliverFacts
<1>4. CASE signals[1].kind = "finished"
  <2>1. thread = "dead" /\ n = 1
    BY <1>2, <1>3, <1>4 DEF SessionInv
  <2>2. ~InRun'
    BY <1>1, <1>4, <2>1, DeliverCases DEF OnDisconnected, InRun
  <2>3. QED
    BY <1>3, <2>1, <2>2 DEF QuietInv
<1>5. CASE signals[1].kind /= "finished"
  <2>1. \A i \in 1 .. n : NoStart(i + 1) => NoStart(i)'
    BY <1>1, <1>2, <1>5, NoStartDeliver
  <2>2. InRun' => InRun
    BY <1>1, <1>5, DeliverCases
       DEF OnConnected, OnRunning, OnSample, OnError, workerState, InRun
  <2>3. InRun' => NoStart(n)'
    BY <1>2, <1>3, <2>1, <2>2 DEF QuietInv
  <2>4. \A i \in 1 .. n - 1 : signals'[i].kind = "sample" => NoStart(i)'
    <3> SUFFICES ASSUME NEW i \in 1 .. n - 1, signals'[i].kind = "sample"
                 PROVE  NoStart(i)'
      OBVIOUS
    <3>1. i + 1 \in 1 .. n /\ signals[i + 1].kind = "sample"
      BY <1>3
    <3>2. NoStart(i + 1)
      BY <1>2, <3>1 DEF QuietInv
    <3>3. QED
      BY <1>3, <2>1, <3>2
  <2>5. Len(signals') + 1 = n
    BY <1>3
  <2> HIDE DEF NoStart, InRun
  <2>6. QED
    BY <1>3, <2>3, <2>4, <2>5 DEF QuietInv
<1>6. QED
  BY <1>4, <1>5

LEMMA QuietStep ==
  ASSUME GuiTypeOK, SessionInv, QuietInv, [Next]_guiVars
  PROVE  QuietInv'
<1>1. CASE Connect
  <2>1. signals' = <<>> /\ ~InRun'
    BY <1>1 DEF Connect, HasWorker, SessionInv, InRun
  <2>2. 1 .. Len(signals') = {}
    BY <2>1
  <2>3. QED
    BY <2>1, <2>2 DEF QuietInv
<1>2. CASE ConnectRefused
  BY <1>2, QuietKept DEF ConnectRefused, workerState, betweenState, InRun
<1>3. CASE PressDisconnect
  BY <1>3, QuietKept DEF PressDisconnect, Disconnect, workerState, InRun
<1>4. CASE PressStart
  BY <1>4, QuietKept DEF PressStart, workerState, InRun
<1>5. CASE PressStop
  BY <1>5, QuietKept DEF PressStop, workerState, InRun
<1>6. CASE CloseWindow
  BY <1>6, QuietKept DEF CloseWindow, Disconnect, workerState, InRun
<1>7. CASE Deliver
  BY <1>7, QuietDeliver
<1>8. CASE OpenPorts
  <2>1. ~InRun' /\ enabled' = enabled
    BY <1>8 DEF OpenPorts, SessionInv, InRun, windowState
  <2>2. CASE signals' = signals
    BY <2>1, <2>2, QuietKept
  <2>3. CASE Emit(<<Signal("connected")>>)
    <3>1. Signal("connected") \in Signals /\ Signal("connected").kind = "connected"
      BY SignalTyped
    <3>2. QED
      BY <2>1, <2>3, <3>1, QuietEmit
  <2>4. QED
    BY <1>8, <2>2, <2>3 DEF OpenPorts
<1>9. CASE Leave
  BY <1>9, QuietKept DEF Leave, windowState, betweenState, InRun
<1>10. CASE NoCommand
  BY <1>10, QuietKept DEF NoCommand, windowState, betweenState, InRun
<1>11. CASE TakeStop
  <2>1. ~InRun' /\ enabled' = enabled /\ Emit(<<Signal("stopped")>>)
    BY <1>11 DEF TakeStop, Take, InRun, windowState
  <2>2. Signal("stopped") \in Signals /\ Signal("stopped").kind = "stopped"
    BY SignalTyped
  <2>3. QED
    BY <2>1, <2>2, QuietEmit
<1>12. CASE TakeStart
  <2>1. enabled' = enabled /\ Head(commands).run \in Run
    BY <1>12, TakenRun DEF TakeStart, Take, windowState
  <2> DEFINE x == [kind |-> "running", run |-> Head(commands).run]
  <2>2. x \in Signals /\ x.kind = "running"
    BY <2>1, RunSignalTyped
  <2> HIDE DEF x
  <2>3. CASE Emit(<<x>>)
    BY <2>1, <2>2, <2>3, QuietEmit
  <2>4. CASE signals' = signals /\ thread' = "raise"
    BY <2>1, <2>4, QuietKept DEF InRun
  <2>5. QED
    BY <1>12, <2>3, <2>4 DEF TakeStart, x
<1>13. CASE NothingDue
  BY <1>13, QuietKept DEF NothingDue, InTurn, windowState, InRun
<1>14. CASE PortFails
  BY <1>14, QuietKept DEF PortFails, InTurn, windowState, InRun
<1>15. CASE SendSample
  <2>1. settings \in Run /\ InRun /\ enabled' = enabled
    BY <1>15, GuiAssumption DEF SendSample, InTurn, Run, GuiTypeOK, InRun, windowState
  <2> DEFINE x == [kind |-> "sample", run |-> settings]
  <2>2. x \in Signals /\ x.kind = "sample"
    BY <2>1, RunSignalTyped
  <2>3. Emit(<<x>>)
    BY <1>15 DEF SendSample
  <2> HIDE DEF x
  <2>4. QED
    BY <2>1, <2>2, <2>3, QuietEmit
<1>16. CASE RunEnds
  <2>1. ~InRun' /\ enabled' = enabled
    BY <1>16 DEF RunEnds, InTurn, InRun, windowState
  <2>2. CASE Emit(<<Signal("stopped")>>)
    <3>1. Signal("stopped") \in Signals /\ Signal("stopped").kind = "stopped"
      BY SignalTyped
    <3>2. QED
      BY <2>1, <2>2, <3>1, QuietEmit
  <2>3. CASE Emit(<<Signal("stopped"), Signal("error")>>)
    <3>1. signals \in Seq(Signals)
      BY DEF GuiTypeOK
    <3>2. PICK n \in Nat : n = Len(signals)
      BY <3>1
    <3>3. /\ Len(signals') = n + 2
          /\ \A i \in 1 .. n : signals'[i] = signals[i]
          /\ signals'[n + 1].kind = "stopped" /\ signals'[n + 2].kind = "error"
      BY <2>3, <3>1, <3>2, SignalTyped, EmitTwoFacts
    <3>4. \A i \in 1 .. n + 1 : NoStart(i) => NoStart(i)'
      BY <2>1, <3>3, NoStartPrefix
    <3>5. \A i \in 1 .. n + 2 : signals'[i].kind = "sample" => NoStart(i)'
      BY <3>2, <3>3, <3>4 DEF QuietInv
    <3> HIDE DEF NoStart, InRun
    <3>6. QED
      BY <2>1, <3>3, <3>5 DEF QuietInv
  <2>4. QED
    BY <1>16, <2>2, <2>3 DEF RunEnds
<1>17. CASE Raise
  <2>1. ~InRun' /\ enabled' = enabled /\ Emit(<<Signal("error")>>)
    BY <1>17 DEF Raise, InRun, windowState
  <2>2. Signal("error") \in Signals /\ Signal("error").kind = "error"
    BY SignalTyped
  <2>3. QED
    BY <2>1, <2>2, QuietEmit
<1>18. CASE Final
  <2>1. ~InRun' /\ enabled' = enabled /\ Emit(<<Signal("stopped")>>)
    BY <1>18 DEF Final, InRun, windowState
  <2>2. Signal("stopped") \in Signals /\ Signal("stopped").kind = "stopped"
    BY SignalTyped
  <2>3. QED
    BY <2>1, <2>2, QuietEmit
<1>19. CASE Finish
  <2>1. ~InRun' /\ enabled' = enabled /\ Emit(<<Signal("finished")>>)
    BY <1>19 DEF Finish, InRun, windowState
  <2>2. Signal("finished") \in Signals /\ Signal("finished").kind = "finished"
    BY SignalTyped
  <2>3. QED
    BY <2>1, <2>2, QuietEmit
<1>20. CASE UNCHANGED guiVars
  BY <1>20, QuietKept DEF guiVars, windowState, workerState, betweenState, InRun
<1>21. QED
  BY <1>1, <1>2, <1>3, <1>4, <1>5, <1>6, <1>7, <1>8, <1>9, <1>10, <1>11, <1>12,
     <1>13, <1>14, <1>15, <1>16, <1>17, <1>18, <1>19, <1>20, NextCases

----------------------------------------------------------------------------
(* The plot shows one run: whatever a step leaves under way was under way  *)
(* before, or comes from the run the worker is in.                         *)

OldCommands == \A i \in 1 .. Len(commands') :
                 \E j \in 1 .. Len(commands) : commands'[i] = commands[j]

OldSamples == \A i \in 1 .. Len(signals') :
                signals'[i].kind = "sample" =>
                  \/ InRun /\ signals'[i].run = settings
                  \/ \E j \in 1 .. Len(signals) :
                       signals[j].kind = "sample" /\ signals'[i].run = signals[j].run

OldRun == InRun' => \/ InRun /\ settings' = settings
                    \/ \E j \in 1 .. Len(commands) :
                         commands[j].do = "start" /\ settings' = commands[j].run

OldShown == \A r \in shown' :
              r \in shown \/ \E j \in 1 .. Len(signals) :
                               signals[j].kind = "sample" /\ r = signals[j].run

LEMMA OneRunKept ==
  ASSUME OneRunInv, UNCHANGED <<overlapped, starts>>,
         OldCommands, OldSamples, OldRun, OldShown
  PROVE  OneRunInv'
<1> SUFFICES ASSUME ~overlapped'
             PROVE  /\ \A i \in 1 .. Len(commands') :
                         commands'[i].do = "start" => commands'[i].run = starts'
                    /\ InRun' => settings' = starts'
                    /\ \A i \in 1 .. Len(signals') :
                         signals'[i].kind = "sample" => signals'[i].run = starts'
                    /\ shown' \subseteq {starts'}
  BY DEF OneRunInv
<1> HIDE DEF InRun
<1>1. /\ \A i \in 1 .. Len(commands) :
           commands[i].do = "start" => commands[i].run = starts
      /\ InRun => settings = starts
      /\ \A i \in 1 .. Len(signals) :
           signals[i].kind = "sample" => signals[i].run = starts
      /\ shown \subseteq {starts}
      /\ starts' = starts
  BY DEF OneRunInv
<1>2. \A i \in 1 .. Len(commands') :
        commands'[i].do = "start" => commands'[i].run = starts'
  BY <1>1 DEF OldCommands
<1>3. InRun' => settings' = starts'
  BY <1>1 DEF OldRun
<1>4. \A i \in 1 .. Len(signals') :
        signals'[i].kind = "sample" => signals'[i].run = starts'
  BY <1>1 DEF OldSamples
<1>5. shown' \subseteq {starts'}
  BY <1>1 DEF OldShown
<1>6. QED
  BY <1>2, <1>3, <1>4, <1>5

LEMMA SameIsOld ==
  /\ commands' = commands => OldCommands
  /\ signals' = signals => OldSamples
  /\ shown' = shown => OldShown
BY DEF OldCommands, OldSamples, OldShown

LEMMA EmitIsOld ==
  ASSUME signals \in Seq(Signals), NEW x \in Signals, Emit(<<x>>),
         x.kind = "sample" => InRun /\ x.run = settings
  PROVE  OldSamples
<1>1. PICK n \in Nat : n = Len(signals)
  OBVIOUS
<1>2. /\ Len(signals') = n + 1 /\ signals'[n + 1] = x
      /\ \A i \in 1 .. n : signals'[i] = signals[i]
  BY <1>1, EmitFacts
<1> SUFFICES ASSUME NEW i \in 1 .. n + 1, signals'[i].kind = "sample"
             PROVE  \/ InRun /\ signals'[i].run = settings
                    \/ \E j \in 1 .. n :
                         signals[j].kind = "sample" /\ signals'[i].run = signals[j].run
  BY <1>1, <1>2 DEF OldSamples
<1>3. CASE i = n + 1
  BY <1>2, <1>3
<1>4. CASE i \in 1 .. n
  BY <1>2, <1>4
<1>5. QED
  BY <1>3, <1>4

LEMMA TakeIsOld ==
  ASSUME GuiTypeOK, NEW c, Take(c)
  PROVE  OldCommands
<1>1. /\ Len(commands) \in Nat /\ Len(commands') = Len(commands) - 1
      /\ \A i \in 1 .. Len(commands') : commands'[i] = commands[i + 1]
  BY TakeFacts
<1>2. \A i \in 1 .. Len(commands') : i + 1 \in 1 .. Len(commands)
  BY <1>1
<1>3. QED
  BY <1>1, <1>2 DEF OldCommands

LEMMA DeliverIsOld ==
  ASSUME signals \in Seq(Signals), Deliver
  PROVE  OldSamples /\ OldShown
<1>1. /\ Len(signals) \in Nat /\ Len(signals) >= 1
      /\ Len(signals') = Len(signals) - 1
      /\ \A i \in 1 .. Len(signals') : signals'[i] = signals[i + 1]
  BY DeliverFacts
<1>2. \A i \in 1 .. Len(signals') : i + 1 \in 1 .. Len(signals)
  BY <1>1
<1>3. OldSamples
  BY <1>1, <1>2 DEF OldSamples
<1>4. CASE shown' = shown
  BY <1>3, <1>4, SameIsOld
<1>5. CASE signals[1].kind = "sample" /\ OnSample(signals[1].run)
  <2>1. 1 \in 1 .. Len(signals) /\ shown' = shown \union {signals[1].run}
    BY <1>1, <1>5 DEF OnSample
  <2>2. QED
    BY <1>3, <1>5, <2>1 DEF OldShown
<1>6. QED
  BY <1>3, <1>4, <1>5, DeliverCases
     DEF OnConnected, OnRunning, OnError, OnDisconnected

(* When Start can be pressed and no start is outstanding, no sample is.    *)
LEMMA NothingUnderWay ==
  ASSUME GuiTypeOK, QuietInv, "start" \in enabled, ~StartOutstanding
  PROVE  /\ \A i \in 1 .. Len(signals) : signals[i].kind /= "sample"
         /\ ~InRun
         /\ \A i \in 1 .. Len(commands) : commands[i].do /= "start"
<1>1. PICK n \in Nat : n = Len(signals)
  BY DEF GuiTypeOK
<1>2. \A k \in 1 .. n : signals[k].kind /= "running"
  BY <1>1 DEF StartOutstanding
<1>3. \A i \in 1 .. n + 1 : ~NoStart(i)
  BY <1>2 DEF NoStart
<1>4. QED
  BY <1>1, <1>3 DEF QuietInv, StartOutstanding

LEMMA OneRunStart ==
  ASSUME GuiTypeOK, QuietInv, PressStart
  PROVE  OneRunInv'
<1> SUFFICES ASSUME ~overlapped'
             PROVE  /\ \A i \in 1 .. Len(commands') :
                         commands'[i].do = "start" => commands'[i].run = starts'
                    /\ ~InRun'
                    /\ \A i \in 1 .. Len(signals') : signals'[i].kind /= "sample"
                    /\ shown' = {}
  BY DEF OneRunInv
<1> DEFINE c == [do |-> "start", run |-> starts']
<1>1. /\ \A i \in 1 .. Len(signals) : signals[i].kind /= "sample"
      /\ ~InRun
      /\ \A i \in 1 .. Len(commands) : commands[i].do /= "start"
  BY NothingUnderWay DEF PressStart
<1>2. c \in Commands /\ c.run = starts'
  BY StartTyped
<1>3. Len(commands) < MAX_COMMANDS /\ commands' = Append(commands, c)
  BY DEF PressStart
<1> HIDE DEF c
<1>4. /\ Len(commands) \in Nat /\ Len(commands') = Len(commands) + 1
      /\ \A i \in 1 .. Len(commands) : commands'[i] = commands[i]
      /\ commands'[Len(commands) + 1] = c
  BY <1>2, <1>3, PressFacts
<1>5. \A i \in 1 .. Len(commands') :
        commands'[i].do = "start" => commands'[i].run = starts'
  BY <1>1, <1>2, <1>4
<1>6. QED
  BY <1>1, <1>5 DEF PressStart, Cleared, workerState, InRun

LEMMA OneRunStep ==
  ASSUME GuiTypeOK, SessionInv, QuietInv, OneRunInv, [Next]_guiVars
  PROVE  OneRunInv'
<1>s. signals \in Seq(Signals)
  BY DEF GuiTypeOK
<1>1. CASE Connect
  <2>1. /\ commands' = <<>> /\ signals' = signals /\ shown' = shown
        /\ UNCHANGED <<overlapped, starts>> /\ ~InRun'
    BY <1>1 DEF Connect, InRun
  <2>2. OldCommands
    BY <2>1 DEF OldCommands
  <2>3. QED
    BY <2>1, <2>2, OneRunKept, SameIsOld DEF OldRun
<1>2. CASE ConnectRefused
  BY <1>2, OneRunKept, SameIsOld
     DEF ConnectRefused, workerState, betweenState, OldRun, InRun
<1>3. CASE PressDisconnect
  BY <1>3, OneRunKept, SameIsOld
     DEF PressDisconnect, workerState, OldRun, InRun
<1>4. CASE PressStart
  BY <1>4, OneRunStart
<1>5. CASE PressStop
  <2> DEFINE c == [do |-> "stop", run |-> 0]
  <2>1. /\ UNCHANGED <<overlapped, starts, shown, signals, thread, settings>>
        /\ Len(commands) < MAX_COMMANDS /\ commands' = Append(commands, c)
    BY <1>5 DEF PressStop, workerState
  <2>2. c \in Commands /\ c.do = "stop"
    BY StopTyped
  <2> HIDE DEF c
  <2>3. /\ Len(commands) \in Nat /\ Len(commands') = Len(commands) + 1
        /\ \A i \in 1 .. Len(commands) : commands'[i] = commands[i]
        /\ commands'[Len(commands) + 1] = c
    BY <2>1, <2>2, PressFacts
  <2>4. InRun' = InRun
    BY <2>1 DEF InRun
  <2> HIDE DEF InRun
  <2>5. ~overlapped => \A i \in 1 .. Len(commands') :
                         commands'[i].do = "start" => commands'[i].run = starts
    BY <2>2, <2>3 DEF OneRunInv
  <2>6. QED
    BY <2>1, <2>4, <2>5 DEF OneRunInv
<1>6. CASE CloseWindow
  BY <1>6, OneRunKept, SameIsOld
     DEF CloseWindow, workerState, OldRun, InRun
<1>7. CASE Deliver
  <2>1. commands' = commands /\ UNCHANGED <<overlapped, starts>>
    BY <1>7, <1>s, DeliverCases
       DEF OnConnected, OnRunning, OnSample, OnError, OnDisconnected
  <2>2. OldRun
    BY <1>7, <1>s, DeliverCases
       DEF OnConnected, OnRunning, OnSample, OnError, OnDisconnected, workerState,
           OldRun, InRun
  <2>3. QED
    BY <1>7, <1>s, <2>1, <2>2, OneRunKept, SameIsOld, DeliverIsOld
<1>8. CASE OpenPorts
  <2>1. /\ ~InRun' /\ UNCHANGED <<overlapped, starts, shown, commands>>
    BY <1>8 DEF OpenPorts, SessionInv, InRun, windowState
  <2>2. Signal("connected") \in Signals /\ Signal("connected").kind = "connected"
    BY SignalTyped
  <2>3. OldSamples
    BY <1>8, <1>s, <2>2, EmitIsOld, SameIsOld DEF OpenPorts
  <2>4. QED
    BY <2>1, <2>3, OneRunKept, SameIsOld DEF OldRun
<1>9. CASE Leave
  BY <1>9, OneRunKept, SameIsOld
     DEF Leave, windowState, betweenState, OldRun, InRun
<1>10. CASE NoCommand
  BY <1>10, OneRunKept, SameIsOld
     DEF NoCommand, windowState, betweenState, OldRun, InRun
<1>11. CASE TakeStop
  <2>1. /\ ~InRun' /\ UNCHANGED <<overlapped, starts, shown>>
        /\ Take("stop") /\ Emit(<<Signal("stopped")>>)
    BY <1>11 DEF TakeStop, Take, InRun, windowState
  <2>2. Signal("stopped") \in Signals /\ Signal("stopped").kind = "stopped"
    BY SignalTyped
  <2>3. OldSamples /\ OldCommands
    BY <1>s, <2>1, <2>2, EmitIsOld, TakeIsOld
  <2>4. QED
    BY <2>1, <2>3, OneRunKept, SameIsOld DEF OldRun
<1>12. CASE TakeStart
  <2>1. /\ UNCHANGED <<overlapped, starts, shown>> /\ Take("start")
    BY <1>12 DEF TakeStart, Take, windowState
  <2>2. /\ Head(commands) = commands[1] /\ Head(commands).run \in Run
        /\ commands[1].do = "start" /\ 1 \in 1 .. Len(commands)
    BY <2>1, TakenRun, TakeFacts
  <2>3. OldRun
    BY <1>12, <2>2 DEF TakeStart, OldRun, InRun
  <2> DEFINE x == [kind |-> "running", run |-> Head(commands).run]
  <2>4. x \in Signals /\ x.kind = "running"
    BY <2>2, RunSignalTyped
  <2> HIDE DEF x
  <2>5. Emit(<<x>>) \/ signals' = signals
    BY <1>12 DEF TakeStart, x
  <2>6. OldSamples
    BY <1>s, <2>4, <2>5, EmitIsOld, SameIsOld
  <2>7. QED
    BY <2>1, <2>3, <2>6, TakeIsOld, OneRunKept, SameIsOld
<1>13. CASE NothingDue
  BY <1>13, OneRunKept, SameIsOld DEF NothingDue, InTurn, windowState, OldRun, InRun
<1>14. CASE PortFails
  BY <1>14, OneRunKept, SameIsOld DEF PortFails, InTurn, windowState, OldRun, InRun
<1>15. CASE SendSample
  <2>1. /\ settings \in Run /\ InRun /\ settings' = settings
        /\ UNCHANGED <<overlapped, starts, shown, commands>>
    BY <1>15, GuiAssumption DEF SendSample, InTurn, Run, GuiTypeOK, InRun, windowState
  <2> DEFINE x == [kind |-> "sample", run |-> settings]
  <2>2. x \in Signals /\ x.run = settings
    BY <2>1, RunSignalTyped
  <2>3. Emit(<<x>>)
    BY <1>15 DEF SendSample
  <2> HIDE DEF x
  <2>4. OldSamples
    BY <1>s, <2>1, <2>2, <2>3, EmitIsOld
  <2>5. QED
    BY <2>1, <2>4, OneRunKept, SameIsOld DEF OldRun
<1>16. CASE RunEnds
  <2>1. ~InRun' /\ UNCHANGED <<overlapped, starts, shown, commands>>
    BY <1>16 DEF RunEnds, InTurn, InRun, windowState
  <2>2. OldSamples
    <3>1. CASE Emit(<<Signal("stopped")>>)
      <4>1. Signal("stopped") \in Signals /\ Signal("stopped").kind = "stopped"
        BY SignalTyped
      <4>2. QED
        BY <1>s, <3>1, <4>1, EmitIsOld
    <3>2. CASE Emit(<<Signal("stopped"), Signal("error")>>)
      <4>1. /\ Len(signals) \in Nat /\ Len(signals') = Len(signals) + 2
            /\ \A i \in 1 .. Len(signals) : signals'[i] = signals[i]
            /\ signals'[Len(signals) + 1].kind = "stopped"
            /\ signals'[Len(signals) + 2].kind = "error"
        BY <1>s, <3>2, SignalTyped, EmitTwoFacts
      <4>2. QED
        BY <4>1 DEF OldSamples
    <3>3. QED
      BY <1>16, <3>1, <3>2 DEF RunEnds
  <2>3. QED
    BY <2>1, <2>2, OneRunKept, SameIsOld DEF OldRun
<1>17. CASE Raise
  <2>1. /\ ~InRun' /\ UNCHANGED <<overlapped, starts, shown, commands>>
        /\ Emit(<<Signal("error")>>)
    BY <1>17 DEF Raise, InRun, windowState
  <2>2. Signal("error") \in Signals /\ Signal("error").kind = "error"
    BY SignalTyped
  <2>3. QED
    BY <1>s, <2>1, <2>2, EmitIsOld, OneRunKept, SameIsOld DEF OldRun
<1>18. CASE Final
  <2>1. /\ ~InRun' /\ UNCHANGED <<overlapped, starts, shown, commands>>
        /\ Emit(<<Signal("stopped")>>)
    BY <1>18 DEF Final, InRun, windowState
  <2>2. Signal("stopped") \in Signals /\ Signal("stopped").kind = "stopped"
    BY SignalTyped
  <2>3. QED
    BY <1>s, <2>1, <2>2, EmitIsOld, OneRunKept, SameIsOld DEF OldRun
<1>19. CASE Finish
  <2>1. /\ ~InRun' /\ UNCHANGED <<overlapped, starts, shown, commands>>
        /\ Emit(<<Signal("finished")>>)
    BY <1>19 DEF Finish, InRun, windowState
  <2>2. Signal("finished") \in Signals /\ Signal("finished").kind = "finished"
    BY SignalTyped
  <2>3. QED
    BY <1>s, <2>1, <2>2, EmitIsOld, OneRunKept, SameIsOld DEF OldRun
<1>20. CASE UNCHANGED guiVars
  BY <1>20, OneRunKept, SameIsOld
     DEF guiVars, windowState, workerState, betweenState, OldRun, InRun
<1>21. QED
  BY <1>1, <1>2, <1>3, <1>4, <1>5, <1>6, <1>7, <1>8, <1>9, <1>10, <1>11, <1>12,
     <1>13, <1>14, <1>15, <1>16, <1>17, <1>18, <1>19, <1>20, NextCases

----------------------------------------------------------------------------
(* The window and its session.                                             *)

SameWindow == connected' = connected /\ enabled' = enabled

LEMMA ConnectedKept ==
  ASSUME ConnectedInv, InSession' => InSession, signals' = signals, SameWindow
  PROVE  ConnectedInv'
<1> HIDE DEF InSession
<1>1. QED
  BY DEF ConnectedInv, SameWindow

LEMMA ConnectedEmit ==
  ASSUME signals \in Seq(Signals), ConnectedInv, InSession' => InSession, SameWindow,
         NEW x \in Signals, Emit(<<x>>), x.kind /= "connected"
  PROVE  ConnectedInv'
<1>1. PICK n \in Nat : n = Len(signals)
  OBVIOUS
<1>2. /\ Len(signals') = n + 1 /\ signals'[n + 1] = x
      /\ \A i \in 1 .. n : signals'[i] = signals[i]
      /\ signals' \in Seq(Signals)
  BY <1>1, EmitFacts
<1>3. signals' /= <<>>
  BY <1>2
<1> HIDE DEF InSession
<1> SUFFICES ASSUME InSession'
             PROVE  \/ /\ connected' /\ "connect" \in enabled'
                       /\ \A i \in 1 .. n + 1 : signals'[i].kind /= "connected"
                    \/ /\ ~connected' /\ enabled' = {"form"}
                       /\ signals' /= <<>> /\ signals'[1].kind = "connected"
                       /\ \A i \in 2 .. n + 1 : signals'[i].kind /= "connected"
  BY <1>2 DEF ConnectedInv
<1>4. CASE /\ connected /\ "connect" \in enabled
           /\ \A i \in 1 .. n : signals[i].kind /= "connected"
  <2>1. \A i \in 1 .. n + 1 : signals'[i].kind /= "connected"
    BY <1>2, <1>4
  <2>2. QED
    BY <1>4, <2>1 DEF SameWindow
<1>5. CASE /\ ~connected /\ enabled = {"form"}
           /\ signals /= <<>> /\ signals[1].kind = "connected"
           /\ \A i \in 2 .. n : signals[i].kind /= "connected"
  <2>1. n >= 1
    BY <1>1, <1>5, EmptySeq
  <2>2. \A i \in 2 .. n + 1 : signals'[i].kind /= "connected"
    BY <1>2, <1>5
  <2>3. signals'[1].kind = "connected"
    BY <1>2, <1>5, <2>1
  <2>4. QED
    BY <1>3, <1>5, <2>2, <2>3 DEF SameWindow
<1>6. QED
  BY <1>1, <1>4, <1>5 DEF ConnectedInv

(* A worker that is not in its loop, or interrupted, is in no session.     *)
LEMMA NoSession ==
  ASSUME ~InSession'
  PROVE  ConnectedInv' /\ ViewInv'
BY DEF ConnectedInv, ViewInv

LEMMA ConnectedDeliver ==
  ASSUME GuiTypeOK, ConnectedInv, Deliver
  PROVE  ConnectedInv'
<1>1. signals \in Seq(Signals)
  BY DEF GuiTypeOK
<1>2. PICK n \in Nat : n = Len(signals)
  BY <1>1
<1>3. /\ n >= 1 /\ Len(signals') = n - 1
      /\ \A i \in 1 .. n - 1 : signals'[i] = signals[i + 1]
  BY <1>1, <1>2, DeliverFacts
<1>4. CASE OnDisconnected
  BY <1>4, NoSession DEF OnDisconnected, InSession
<1>5. CASE ~OnDisconnected
  <2>1. InSession' = InSession
    <3>1. UNCHANGED <<commands, interrupted>>
      BY DEF Deliver
    <3>2. \/ OnConnected \/ OnRunning(TRUE) \/ OnRunning(FALSE)
          \/ OnSample(Head(signals).run) \/ OnError
      BY <1>5 DEF Deliver
    <3>3. thread' = thread
      BY <3>2 DEF OnConnected, OnRunning, OnSample, OnError, workerState
    <3>4. QED
      BY <3>1, <3>3 DEF InSession
  <2> HIDE DEF InSession
  <2> SUFFICES ASSUME InSession
               PROVE  /\ connected' /\ "connect" \in enabled'
                      /\ \A i \in 1 .. n - 1 : signals'[i].kind /= "connected"
    BY <1>3, <2>1 DEF ConnectedInv
  <2>2. \A i \in 2 .. n : signals[i].kind /= "connected"
    BY <1>2 DEF ConnectedInv
  <2>3. \A i \in 1 .. n - 1 : signals'[i].kind /= "connected"
    BY <1>3, <2>2
  <2>4. CASE signals[1].kind = "connected"
    <3>1. OnConnected
      BY <1>1, <2>4, DeliverCases
    <3>2. QED
      BY <2>3, <3>1 DEF OnConnected, Updated
  <2>5. CASE signals[1].kind /= "connected"
    <3>1. connected /\ "connect" \in enabled
      BY <2>5 DEF ConnectedInv
    <3>2. OnRunning(TRUE) \/ OnRunning(FALSE) \/ OnSample(signals[1].run) \/ OnError
      BY <1>1, <1>5, <2>5, DeliverCases
    <3>3. connected' /\ "connect" \in enabled'
      BY <3>1, <3>2
         DEF OnRunning, OnSample, OnError, RunningControls, StoppedControls
    <3>4. QED
      BY <2>3, <3>3
  <2>6. QED
    BY <2>4, <2>5
<1>6. QED
  BY <1>4, <1>5

(* The first signal of a session.                                          *)
LEMMA OpenFacts ==
  ASSUME GuiTypeOK, SessionInv, OpenPorts, thread' = "loop"
  PROVE  /\ ~connected' /\ enabled' = {"form"} /\ settings' = 0
         /\ signals' \in Seq(Signals) /\ Len(signals') = 1
         /\ signals'[1].kind = "connected"
<1>1. /\ signals = <<>> /\ settings = 0 /\ ~connected /\ enabled = {"form"}
      /\ Len(signals) = 0
  BY DEF OpenPorts, SessionInv
<1>2. /\ Signal("connected") \in Signals /\ Signal("connected").kind = "connected"
      /\ Emit(<<Signal("connected")>>)
  BY SignalTyped DEF OpenPorts
<1>3. signals \in Seq(Signals)
  BY DEF GuiTypeOK
<1>4. /\ signals' \in Seq(Signals) /\ Len(signals') = 0 + 1
      /\ signals'[0 + 1] = Signal("connected")
  BY <1>1, <1>2, <1>3, EmitFacts
<1>5. QED
  BY <1>1, <1>2, <1>4 DEF OpenPorts, windowState

LEMMA ConnectedStep ==
  ASSUME GuiTypeOK, SessionInv, ConnectedInv, [Next]_guiVars
  PROVE  ConnectedInv'
<1>s. signals \in Seq(Signals)
  BY DEF GuiTypeOK
<1>1. CASE Connect
  BY <1>1, NoSession DEF Connect, InSession
<1>2. CASE ConnectRefused
  BY <1>2, ConnectedKept
     DEF ConnectRefused, workerState, betweenState, InSession, SameWindow
<1>3. CASE PressDisconnect
  BY <1>3, NoSession DEF PressDisconnect, Disconnect, InSession
<1>4. CASE PressStart
  <2>1. /\ connected /\ connected' = connected /\ signals' = signals
        /\ enabled' = enabled \ {"start", "form"} /\ InSession' = InSession
    BY <1>4 DEF PressStart, workerState, InSession
  <2> HIDE DEF InSession
  <2>2. QED
    BY <2>1 DEF ConnectedInv
<1>5. CASE PressStop
  <2>1. /\ "stop" \in enabled /\ connected' = connected /\ signals' = signals
        /\ enabled' = enabled \ {"stop"} /\ InSession' = InSession
    BY <1>5 DEF PressStop, workerState, InSession
  <2> HIDE DEF InSession
  <2>2. QED
    BY <2>1 DEF ConnectedInv
<1>6. CASE CloseWindow
  <2>1. CASE HasWorker
    BY <1>6, <2>1, NoSession DEF CloseWindow, Disconnect, InSession
  <2>2. CASE ~HasWorker
    BY <1>6, <2>2, NoSession DEF CloseWindow, workerState, InSession, HasWorker
  <2>3. QED
    BY <2>1, <2>2
<1>7. CASE Deliver
  BY <1>7, ConnectedDeliver
<1>8. CASE OpenPorts
  <2>1. CASE thread' = "loop"
    <3>1. signals' /= <<>> /\ \A i \in 2 .. Len(signals') : FALSE
      BY <1>8, <2>1, OpenFacts
    <3>2. QED
      BY <1>8, <2>1, <3>1, OpenFacts DEF ConnectedInv
  <2>2. CASE thread' = "raise"
    BY <2>2, NoSession DEF InSession
  <2>3. QED
    BY <1>8, <2>1, <2>2 DEF OpenPorts
<1>9. CASE Leave
  BY <1>9, NoSession DEF Leave, InSession
<1>10. CASE NoCommand
  BY <1>10, ConnectedKept
     DEF NoCommand, windowState, betweenState, InSession, SameWindow
<1>11. CASE TakeStop
  <2>1. (InSession' => InSession) /\ SameWindow /\ Emit(<<Signal("stopped")>>)
    BY <1>11 DEF TakeStop, Take, InSession, windowState, SameWindow
  <2>2. Signal("stopped") \in Signals /\ Signal("stopped").kind /= "connected"
    BY SignalTyped
  <2>3. QED
    BY <1>s, <2>1, <2>2, ConnectedEmit
<1>12. CASE TakeStart
  <2>1. (InSession' => InSession) /\ SameWindow /\ Head(commands).run \in Run
    BY <1>12, TakenRun DEF TakeStart, Take, InSession, windowState, SameWindow
  <2> DEFINE x == [kind |-> "running", run |-> Head(commands).run]
  <2>2. x \in Signals /\ x.kind /= "connected"
    BY <2>1, RunSignalTyped
  <2> HIDE DEF x
  <2>3. Emit(<<x>>) \/ signals' = signals
    BY <1>12 DEF TakeStart, x
  <2>4. QED
    BY <1>s, <2>1, <2>2, <2>3, ConnectedEmit, ConnectedKept
<1>13. CASE NothingDue
  BY <1>13, ConnectedKept
     DEF NothingDue, InTurn, windowState, InSession, SameWindow
<1>14. CASE PortFails
  BY <1>14, NoSession DEF PortFails, InSession
<1>15. CASE SendSample
  <2>1. (InSession' => InSession) /\ SameWindow /\ settings \in Run
    BY <1>15, GuiAssumption
       DEF SendSample, InTurn, Run, GuiTypeOK, InSession, windowState, SameWindow
  <2> DEFINE x == [kind |-> "sample", run |-> settings]
  <2>2. x \in Signals /\ x.kind /= "connected"
    BY <2>1, RunSignalTyped
  <2>3. Emit(<<x>>)
    BY <1>15 DEF SendSample
  <2> HIDE DEF x
  <2>4. QED
    BY <1>s, <2>1, <2>2, <2>3, ConnectedEmit
<1>16. CASE RunEnds
  <2>1. (InSession' => InSession) /\ SameWindow
    BY <1>16 DEF RunEnds, InTurn, InSession, windowState, SameWindow
  <2>2. CASE Emit(<<Signal("stopped")>>)
    <3>1. Signal("stopped") \in Signals /\ Signal("stopped").kind /= "connected"
      BY SignalTyped
    <3>2. QED
      BY <1>s, <2>1, <2>2, <3>1, ConnectedEmit
  <2>3. CASE Emit(<<Signal("stopped"), Signal("error")>>)
    <3>1. PICK n \in Nat : n = Len(signals)
      BY <1>s
    <3>2. /\ Len(signals') = n + 2 /\ signals' \in Seq(Signals)
          /\ \A i \in 1 .. n : signals'[i] = signals[i]
          /\ signals'[n + 1].kind = "stopped" /\ signals'[n + 2].kind = "error"
      BY <1>s, <2>3, <3>1, SignalTyped, EmitTwoFacts
    <3>3. signals' /= <<>>
      BY <3>2
    <3> HIDE DEF InSession
    <3>4. CASE ~InSession
      BY <2>1, <3>4, NoSession
    <3>5. CASE /\ connected /\ "connect" \in enabled
               /\ \A i \in 1 .. n : signals[i].kind /= "connected"
      <4>1. \A i \in 1 .. n + 2 : signals'[i].kind /= "connected"
        BY <3>2, <3>5
      <4>2. QED
        BY <2>1, <3>2, <3>5, <4>1 DEF ConnectedInv, SameWindow
    <3>6. CASE /\ ~connected /\ enabled = {"form"}
               /\ signals /= <<>> /\ signals[1].kind = "connected"
               /\ \A i \in 2 .. n : signals[i].kind /= "connected"
      <4>1. n >= 1
        BY <1>s, <3>1, <3>6, EmptySeq
      <4>2. \A i \in 2 .. n + 2 : signals'[i].kind /= "connected"
        BY <3>2, <3>6
      <4>3. signals'[1].kind = "connected"
        BY <3>2, <3>6, <4>1
      <4>4. QED
        BY <2>1, <3>2, <3>3, <3>6, <4>2, <4>3 DEF ConnectedInv, SameWindow
    <3>7. QED
      BY <3>1, <3>4, <3>5, <3>6 DEF ConnectedInv
  <2>4. QED
    BY <1>16, <2>2, <2>3 DEF RunEnds
<1>17. CASE Raise
  BY <1>17, NoSession DEF Raise, InSession
<1>18. CASE Final
  BY <1>18, NoSession DEF Final, InSession
<1>19. CASE Finish
  BY <1>19, NoSession DEF Finish, InSession
<1>20. CASE UNCHANGED guiVars
  BY <1>20, ConnectedKept
     DEF guiVars, windowState, workerState, betweenState, InSession, SameWindow
<1>21. QED
  BY <1>1, <1>2, <1>3, <1>4, <1>5, <1>6, <1>7, <1>8, <1>9, <1>10, <1>11, <1>12,
     <1>13, <1>14, <1>15, <1>16, <1>17, <1>18, <1>19, <1>20, NextCases

----------------------------------------------------------------------------
(* What the window shows.                                                  *)

SameSession == /\ InSession' => InSession
               /\ commands' = commands /\ enabled' = enabled
               /\ settings' = settings

LEMMA ViewKept ==
  ASSUME ViewInv, SameSession, signals' = signals
  PROVE  ViewInv'
<1> HIDE DEF InSession
<1>1. QED
  BY DEF ViewInv, SameSession, TellsState

(* A command that is not taken yet is a reason not to agree.               *)
LEMMA ViewCommanded ==
  ASSUME commands' /= <<>>
  PROVE  ViewInv'
BY DEF ViewInv

(* Telling the state makes up for what was told before.                    *)
LEMMA ViewTold ==
  ASSUME signals \in Seq(Signals), NEW x \in Signals, Emit(<<x>>),
         x.kind \in {"connected", "running", "stopped"},
         (x.kind = "running") = (settings' /= 0)
  PROVE  ViewInv'
<1>1. PICK n \in Nat : n = Len(signals)
  OBVIOUS
<1>2. Len(signals') = n + 1 /\ signals'[n + 1] = x
  BY <1>1, EmitFacts
<1>3. TellsState(n + 1)'
  BY <1>2 DEF TellsState
<1>4. ASSUME NEW i \in 1 .. n + 1,
             \A j \in i + 1 .. n + 1 : ~(signals'[j].kind \in {"connected", "running", "stopped"})
      PROVE  (signals'[i].kind = "running") = (settings' /= 0)
  <2>1. i = n + 1
    <3>1. CASE i < n + 1
      <4>1. n + 1 \in i + 1 .. n + 1
        BY <3>1
      <4>2. QED
        BY <1>2, <1>4, <4>1
    <3>2. QED
      BY <3>1
  <2>2. QED
    BY <1>2, <2>1
<1>5. ~ \A i \in 1 .. n + 1 : ~(signals'[i].kind \in {"connected", "running", "stopped"})
  <2>1. n + 1 \in 1 .. n + 1
    OBVIOUS
  <2>2. QED
    BY <1>2, <2>1
<1> HIDE DEF InSession
<1>6. QED
  BY <1>2, <1>4, <1>5 DEF ViewInv, TellsState

(* A sample or an error tells nothing of the state.                        *)
LEMMA ViewNotTold ==
  ASSUME signals \in Seq(Signals), ViewInv, SameSession,
         NEW x \in Signals, Emit(<<x>>), x.kind \in {"sample", "error"}
  PROVE  ViewInv'
<1>1. PICK n \in Nat : n = Len(signals)
  OBVIOUS
<1>2. /\ Len(signals') = n + 1 /\ signals'[n + 1] = x
      /\ \A i \in 1 .. n : signals'[i] = signals[i]
  BY <1>1, EmitFacts
<1> DEFINE Tells(s) == s.kind \in {"connected", "running", "stopped"}
<1>3. ~Tells(x)
  OBVIOUS
<1> HIDE DEF InSession
<1> SUFFICES ASSUME InSession', commands' = <<>>
             PROVE  /\ \A i \in 1 .. n + 1 :
                         Tells(signals'[i]) /\ (\A j \in i + 1 .. n + 1 : ~Tells(signals'[j])) =>
                           (signals'[i].kind = "running") = (settings' /= 0)
                    /\ (\A i \in 1 .. n + 1 : ~Tells(signals'[i])) =>
                         enabled' = IF settings' = 0 THEN {"connect", "start", "form"}
                                    ELSE {"connect", "stop"}
  BY <1>2 DEF ViewInv, TellsState
<1>4. /\ \A i \in 1 .. n :
           Tells(signals[i]) /\ (\A j \in i + 1 .. n : ~Tells(signals[j])) =>
             (signals[i].kind = "running") = (settings /= 0)
      /\ (\A i \in 1 .. n : ~Tells(signals[i])) =>
           enabled = IF settings = 0 THEN {"connect", "start", "form"}
                     ELSE {"connect", "stop"}
  BY <1>1 DEF ViewInv, TellsState, SameSession
<1>5. ASSUME NEW i \in 1 .. n + 1, Tells(signals'[i]),
             \A j \in i + 1 .. n + 1 : ~Tells(signals'[j])
      PROVE  (signals'[i].kind = "running") = (settings' /= 0)
  <2>1. i \in 1 .. n /\ signals'[i] = signals[i]
    BY <1>2, <1>3, <1>5
  <2>2. \A j \in i + 1 .. n : ~Tells(signals[j])
    <3>1. TAKE j \in i + 1 .. n
    <3>2. j \in i + 1 .. n + 1 /\ signals'[j] = signals[j]
      BY <1>2, <2>1
    <3>3. QED
      BY <1>5, <3>2
  <2>3. (signals[i].kind = "running") = (settings /= 0)
    BY <1>4, <1>5, <2>1, <2>2
  <2>4. QED
    BY <2>1, <2>3 DEF SameSession
<1>6. ASSUME \A i \in 1 .. n + 1 : ~Tells(signals'[i])
      PROVE  enabled' = IF settings' = 0 THEN {"connect", "start", "form"}
                        ELSE {"connect", "stop"}
  <2>1. \A i \in 1 .. n : ~Tells(signals[i])
    BY <1>2, <1>6
  <2>2. QED
    BY <1>4, <2>1 DEF SameSession
<1>7. QED
  BY <1>5, <1>6

(* What the window shows once nothing more is told.                        *)
LEMMA ViewShown ==
  ASSUME GuiTypeOK, ConnectedInv, InSession, Deliver, ~OnDisconnected,
         signals[1].kind \in {"connected", "running", "stopped"},
         (signals[1].kind = "running") = (settings /= 0)
  PROVE  enabled' = IF settings = 0 THEN {"connect", "start", "form"}
                    ELSE {"connect", "stop"}
<1>1. signals \in Seq(Signals)
  BY DEF GuiTypeOK
<1>2. Len(signals) \in Nat /\ Len(signals) >= 1 /\ 1 \in 1 .. Len(signals)
  BY <1>1, DeliverFacts
<1> HIDE DEF InSession
<1>3. CASE signals[1].kind = "connected"
  <2>1. OnConnected
    BY <1>1, <1>3, DeliverCases
  <2>2. enabled = {"form"} /\ settings = 0
    BY <1>2, <1>3 DEF ConnectedInv
  <2>3. QED
    BY <2>1, <2>2 DEF OnConnected, Updated
<1>4. CASE signals[1].kind /= "connected"
  <2>1. connected /\ "connect" \in enabled
    BY <1>4 DEF ConnectedInv
  <2>2. CASE signals[1].kind = "running"
    <3>1. OnRunning(TRUE)
      BY <1>1, <2>2, DeliverCases
    <3>2. enabled' = {"connect", "stop"}
      BY <2>1, <3>1 DEF OnRunning, RunningControls
    <3>3. QED
      BY <2>2, <3>2
  <2>3. CASE signals[1].kind = "stopped"
    <3>1. OnRunning(FALSE)
      BY <1>1, <2>3, DeliverCases
    <3>2. enabled' = {"connect", "start", "form"}
      BY <2>1, <3>1 DEF OnRunning, StoppedControls
    <3>3. QED
      BY <2>3, <3>2
  <2>4. QED
    BY <1>4, <2>2, <2>3
<1>5. QED
  BY <1>3, <1>4

LEMMA ViewDeliver ==
  ASSUME GuiTypeOK, ConnectedInv, ViewInv, Deliver
  PROVE  ViewInv'
<1>1. signals \in Seq(Signals)
  BY DEF GuiTypeOK
<1>2. PICK n \in Nat : n = Len(signals)
  BY <1>1
<1>3. /\ n >= 1 /\ Len(signals') = n - 1
      /\ \A i \in 1 .. n - 1 : signals'[i] = signals[i + 1]
  BY <1>1, <1>2, DeliverFacts
<1>4. CASE OnDisconnected
  BY <1>4, NoSession DEF OnDisconnected, InSession
<1>5. CASE ~OnDisconnected
  <2>1. InSession' = InSession /\ commands' = commands /\ settings' = settings
    <3>1. UNCHANGED <<commands, interrupted>>
      BY DEF Deliver
    <3>2. \/ OnConnected \/ OnRunning(TRUE) \/ OnRunning(FALSE)
          \/ OnSample(Head(signals).run) \/ OnError
      BY <1>5 DEF Deliver
    <3>3. thread' = thread /\ settings' = settings
      BY <3>2 DEF OnConnected, OnRunning, OnSample, OnError, workerState
    <3>4. QED
      BY <3>1, <3>3 DEF InSession
  <2> DEFINE Tells(s) == s.kind \in {"connected", "running", "stopped"}
  <2> HIDE DEF InSession
  <2> SUFFICES ASSUME InSession, commands = <<>>
               PROVE  /\ \A i \in 1 .. n - 1 :
                           Tells(signals'[i]) /\ (\A j \in i + 1 .. n - 1 : ~Tells(signals'[j])) =>
                             (signals'[i].kind = "running") = (settings /= 0)
                      /\ (\A i \in 1 .. n - 1 : ~Tells(signals'[i])) =>
                           enabled' = IF settings = 0 THEN {"connect", "start", "form"}
                                      ELSE {"connect", "stop"}
    BY <1>3, <2>1 DEF ViewInv, TellsState
  <2>2. /\ \A i \in 1 .. n :
             Tells(signals[i]) /\ (\A j \in i + 1 .. n : ~Tells(signals[j])) =>
               (signals[i].kind = "running") = (settings /= 0)
        /\ (\A i \in 1 .. n : ~Tells(signals[i])) =>
             enabled = IF settings = 0 THEN {"connect", "start", "form"}
                       ELSE {"connect", "stop"}
    BY <1>2 DEF ViewInv, TellsState
  <2>3. ASSUME NEW i \in 1 .. n - 1, Tells(signals'[i]),
               \A j \in i + 1 .. n - 1 : ~Tells(signals'[j])
        PROVE  (signals'[i].kind = "running") = (settings /= 0)
    <3>1. i + 1 \in 1 .. n /\ signals'[i] = signals[i + 1]
      BY <1>3
    <3>2. \A j \in (i + 1) + 1 .. n : ~Tells(signals[j])
      <4>1. TAKE j \in (i + 1) + 1 .. n
      <4>2. j - 1 \in i + 1 .. n - 1 /\ j - 1 \in 1 .. n - 1 /\ (j - 1) + 1 = j
        OBVIOUS
      <4>3. signals'[j - 1] = signals[(j - 1) + 1]
        BY <1>3, <4>2
      <4>4. QED
        BY <2>3, <4>2, <4>3
    <3>3. QED
      BY <2>2, <2>3, <3>1, <3>2
  <2>4. ASSUME \A i \in 1 .. n - 1 : ~Tells(signals'[i])
        PROVE  enabled' = IF settings = 0 THEN {"connect", "start", "form"}
                          ELSE {"connect", "stop"}
    <3>1. \A j \in 1 + 1 .. n : ~Tells(signals[j])
      <4>1. TAKE j \in 1 + 1 .. n
      <4>2. j - 1 \in 1 .. n - 1 /\ (j - 1) + 1 = j
        OBVIOUS
      <4>3. signals'[j - 1] = signals[(j - 1) + 1]
        BY <1>3, <4>2
      <4>4. QED
        BY <2>4, <4>2, <4>3
    <3>2. 1 \in 1 .. n
      BY <1>3
    <3>3. CASE Tells(signals[1])
      <4>1. (signals[1].kind = "running") = (settings /= 0)
        BY <2>2, <3>1, <3>2, <3>3
      <4>2. QED
        BY <1>5, <3>3, <4>1, ViewShown
    <3>4. CASE ~Tells(signals[1])
      <4>1. \A i \in 1 .. n : ~Tells(signals[i])
        <5>1. TAKE i \in 1 .. n
        <5>2. i = 1 \/ i \in 1 + 1 .. n
          OBVIOUS
        <5>3. QED
          BY <3>1, <3>4, <5>2
      <4>2. OnSample(signals[1].run) \/ OnError
        BY <1>1, <1>5, <3>4, DeliverCases
      <4>3. enabled' = enabled
        BY <4>2 DEF OnSample, OnError
      <4>4. QED
        BY <2>2, <4>1, <4>3
    <3>5. QED
      BY <3>3, <3>4
  <2>5. QED
    BY <2>3, <2>4
<1>6. QED
  BY <1>4, <1>5
LEMMA ViewStep ==
  ASSUME GuiTypeOK, SessionInv, ConnectedInv, ViewInv, [Next]_guiVars
  PROVE  ViewInv'
<1>s. signals \in Seq(Signals)
  BY DEF GuiTypeOK
<1>1. CASE Connect
  BY <1>1, NoSession DEF Connect, InSession
<1>2. CASE ConnectRefused
  BY <1>2, ViewKept
     DEF ConnectRefused, workerState, betweenState, InSession, SameSession
<1>3. CASE PressDisconnect
  BY <1>3, NoSession DEF PressDisconnect, Disconnect, InSession
<1>4. CASE PressStart
  <2>1. commands' = Append(commands, [do |-> "start", run |-> starts'])
    BY <1>4 DEF PressStart
  <2>2. commands' /= <<>>
    BY <2>1 DEF GuiTypeOK
  <2>3. QED
    BY <2>2, ViewCommanded
<1>5. CASE PressStop
  <2>1. commands' = Append(commands, [do |-> "stop", run |-> 0])
    BY <1>5 DEF PressStop
  <2>2. commands' /= <<>>
    BY <2>1 DEF GuiTypeOK
  <2>3. QED
    BY <2>2, ViewCommanded
<1>6. CASE CloseWindow
  <2>1. CASE HasWorker
    BY <1>6, <2>1, NoSession DEF CloseWindow, Disconnect, InSession
  <2>2. CASE ~HasWorker
    BY <1>6, <2>2, NoSession DEF CloseWindow, workerState, InSession, HasWorker
  <2>3. QED
    BY <2>1, <2>2
<1>7. CASE Deliver
  BY <1>7, ViewDeliver
<1>8. CASE OpenPorts
  <2>1. CASE thread' = "loop"
    <3>1. /\ settings' = 0 /\ Len(signals') = 1
          /\ signals'[1].kind = "connected"
      BY <1>8, <2>1, OpenFacts
    <3>2. 1 \in 1 .. 1 /\ TellsState(1)'
      BY <3>1 DEF TellsState
    <3>3. QED
      BY <3>1, <3>2 DEF ViewInv
  <2>2. CASE thread' = "raise"
    BY <2>2, NoSession DEF InSession
  <2>3. QED
    BY <1>8, <2>1, <2>2 DEF OpenPorts
<1>9. CASE Leave
  BY <1>9, NoSession DEF Leave, InSession
<1>10. CASE NoCommand
  BY <1>10, ViewKept
     DEF NoCommand, windowState, betweenState, InSession, SameSession
<1>11. CASE TakeStop
  <2>1. settings' = 0 /\ Emit(<<Signal("stopped")>>)
    BY <1>11 DEF TakeStop
  <2>2. Signal("stopped") \in Signals /\ Signal("stopped").kind = "stopped"
    BY SignalTyped
  <2>3. QED
    BY <1>s, <2>1, <2>2, ViewTold
<1>12. CASE TakeStart
  <2>1. CASE thread' = "raise"
    BY <2>1, NoSession DEF InSession
  <2>2. CASE thread' = "turn"
    <3>1. Head(commands).run \in Run /\ settings' = Head(commands).run
      BY <1>12, <2>2, TakenRun DEF TakeStart
    <3> DEFINE x == [kind |-> "running", run |-> Head(commands).run]
    <3>2. x \in Signals /\ x.kind = "running" /\ settings' /= 0
      BY <3>1, RunSignalTyped DEF Run
    <3>3. Emit(<<x>>)
      BY <1>12, <2>2 DEF TakeStart
    <3> HIDE DEF x
    <3>4. QED
      BY <1>s, <3>2, <3>3, ViewTold
  <2>3. QED
    BY <1>12, <2>1, <2>2 DEF TakeStart
<1>13. CASE NothingDue
  BY <1>13, ViewKept
     DEF NothingDue, InTurn, windowState, InSession, SameSession
<1>14. CASE PortFails
  BY <1>14, NoSession DEF PortFails, InSession
<1>15. CASE SendSample
  <2>1. SameSession /\ settings \in Run
    BY <1>15, GuiAssumption
       DEF SendSample, InTurn, Run, GuiTypeOK, InSession, windowState, SameSession
  <2> DEFINE x == [kind |-> "sample", run |-> settings]
  <2>2. x \in Signals /\ x.kind = "sample"
    BY <2>1, RunSignalTyped
  <2>3. Emit(<<x>>)
    BY <1>15 DEF SendSample
  <2> HIDE DEF x
  <2>4. QED
    BY <1>s, <2>1, <2>2, <2>3, ViewNotTold
<1>16. CASE RunEnds
  <2>1. settings' = 0
    BY <1>16 DEF RunEnds
  <2>2. CASE Emit(<<Signal("stopped")>>)
    <3>1. Signal("stopped") \in Signals /\ Signal("stopped").kind = "stopped"
      BY SignalTyped
    <3>2. QED
      BY <1>s, <2>1, <2>2, <3>1, ViewTold
  <2>3. CASE Emit(<<Signal("stopped"), Signal("error")>>)
    <3>1. PICK n \in Nat : n = Len(signals)
      BY <1>s
    <3>2. /\ Len(signals') = n + 2
          /\ signals'[n + 1].kind = "stopped" /\ signals'[n + 2].kind = "error"
      BY <1>s, <2>3, <3>1, SignalTyped, EmitTwoFacts
    <3> DEFINE Tells(s) == s.kind \in {"connected", "running", "stopped"}
    <3>3. ASSUME NEW i \in 1 .. n + 2, Tells(signals'[i]),
                 \A j \in i + 1 .. n + 2 : ~Tells(signals'[j])
          PROVE  (signals'[i].kind = "running") = (settings' /= 0)
      <4>1. i /= n + 2
        BY <3>2, <3>3
      <4>2. CASE i < n + 1
        <5>1. n + 1 \in i + 1 .. n + 2
          BY <4>2
        <5>2. QED
          BY <3>2, <3>3, <5>1
      <4>3. CASE i = n + 1
        BY <2>1, <3>2, <4>3
      <4>4. QED
        BY <4>1, <4>2, <4>3
    <3>4. n + 1 \in 1 .. n + 2 /\ Tells(signals'[n + 1])
      BY <3>2
    <3> HIDE DEF InSession
    <3>5. QED
      BY <3>2, <3>3, <3>4 DEF ViewInv, TellsState
  <2>4. QED
    BY <1>16, <2>2, <2>3 DEF RunEnds
<1>17. CASE Raise
  BY <1>17, NoSession DEF Raise, InSession
<1>18. CASE Final
  BY <1>18, NoSession DEF Final, InSession
<1>19. CASE Finish
  BY <1>19, NoSession DEF Finish, InSession
<1>20. CASE UNCHANGED guiVars
  BY <1>20, ViewKept
     DEF guiVars, windowState, workerState, betweenState, InSession, SameSession
<1>21. QED
  BY <1>1, <1>2, <1>3, <1>4, <1>5, <1>6, <1>7, <1>8, <1>9, <1>10, <1>11, <1>12,
     <1>13, <1>14, <1>15, <1>16, <1>17, <1>18, <1>19, <1>20, NextCases

----------------------------------------------------------------------------
LEMMA InitEstablishes ==
  ASSUME Init
  PROVE  IInv
<1>1. /\ signals = <<>> /\ commands = <<>> /\ thread = "none" /\ settings = 0
      /\ held = {} /\ shown = {} /\ ~connected /\ ~closed
      /\ enabled = {"connect", "form"}
  BY DEF Init
<1>2. Len(signals) = 0 /\ Len(commands) = 0
  BY <1>1, EmptySeq
<1>3. GuiTypeOK
  <2>1. Preview \in Sessions
    BY DEF Preview, Sessions
  <2>2. <<>> \in Seq(Commands) /\ <<>> \in Seq(Signals)
    BY EmptySeq
  <2>3. held \subseteq PortsOf(session)
    BY <1>1
  <2>4. /\ commands \in Seq(Commands) /\ Len(commands) <= MAX_COMMANDS
        /\ signals \in Seq(Signals) /\ Len(signals) <= MAX_SIGNALS
    BY <1>1, <1>2, <2>2, GuiAssumption
  <2>5. starts \in 0 .. MAX_RUNS /\ settings \in 0 .. MAX_RUNS
    BY <1>1, GuiAssumption DEF Init
  <2>6. /\ connected \in BOOLEAN /\ closing \in BOOLEAN /\ closed \in BOOLEAN
        /\ interrupted \in BOOLEAN /\ failed \in BOOLEAN
        /\ overlapped \in BOOLEAN /\ session \in Sessions
        /\ status = "empty" /\ thread = "none"
    BY <2>1 DEF Init
  <2>7. enabled \subseteq Controls /\ shown \subseteq Run
    BY <1>1 DEF Controls
  <2>8. QED
    BY <2>3, <2>4, <2>5, <2>6, <2>7 DEF GuiTypeOK
<1>4. SessionInv
  BY <1>1, <1>2 DEF SessionInv
<1>5. QuietInv
  BY <1>1, <1>2 DEF QuietInv, InRun
<1>6. OneRunInv
  BY <1>1, <1>2 DEF OneRunInv, InRun
<1>7. ConnectedInv /\ ViewInv
  BY <1>1 DEF ConnectedInv, ViewInv, InSession
<1>8. QED
  BY <1>3, <1>4, <1>5, <1>6, <1>7 DEF IInv

(* Everything the window and its worker may do keeps the invariant: types, *)
(* the end of a session, where the answers of the worker are, and what the *)
(* window will show when it has heard them.                                *)
THEOREM GuiInvariant == GuiSpec => []IInv
<1>1. Init => IInv
  BY InitEstablishes
<1>2. IInv /\ [Next]_guiVars => IInv'
  <2> SUFFICES ASSUME IInv, [Next]_guiVars
               PROVE  IInv'
    OBVIOUS
  <2>1. GuiTypeOK /\ SessionInv /\ QuietInv /\ OneRunInv /\ ConnectedInv /\ ViewInv
    BY DEF IInv
  <2>2. GuiTypeOK' /\ SessionInv'
    BY <2>1, TypeStep, SessionStep
  <2>3. QuietInv' /\ OneRunInv'
    BY <2>1, QuietStep, OneRunStep
  <2>4. ConnectedInv' /\ ViewInv'
    BY <2>1, ConnectedStep, ViewStep
  <2>5. QED
    BY <2>2, <2>3, <2>4 DEF IInv
<1>3. QED
  BY <1>1, <1>2, PTL DEF GuiSpec

(* The controls, the commands, the signals and the ports have their types  *)
(* whatever the user presses and whatever the worker meets.                *)
THEOREM GuiIsTyped == GuiSpec => []GuiTypeOK
<1>1. IInv => GuiTypeOK
  BY DEF IInv
<1>2. QED
  BY <1>1, GuiInvariant, PTL

(* No sample of a run reaches a window that offers Start: after a stop the *)
(* picture stands still (gui.py:292-304).                                  *)
THEOREM GuiStoppedIsQuiet == GuiSpec => []StoppedMeansQuiet
<1>1. IInv => StoppedMeansQuiet
  <2> SUFFICES ASSUME IInv, signals /= <<>>, Head(signals).kind = "sample"
               PROVE  "start" \notin enabled
    BY DEF StoppedMeansQuiet
  <2>1. signals \in Seq(Signals)
    BY DEF IInv, GuiTypeOK
  <2>2. 1 \in 1 .. Len(signals) /\ signals[1].kind = "sample"
    BY <2>1, EmptySeq
  <2>3. NoStart(1)
    BY <2>2 DEF IInv, QuietInv
  <2>4. QED
    BY <2>3 DEF NoStart
<1>2. QED
  BY <1>1, GuiInvariant, PTL

(* The buttons of a window at rest agree with what its worker does,        *)
(* however its commands and the answers crossed (gui.py:272-296).          *)
THEOREM GuiViewAgrees == GuiSpec => []ViewAgreesAtRest
<1>1. IInv => ViewAgreesAtRest
  <2> SUFFICES ASSUME IInv, AtRest
               PROVE  enabled = IF settings = 0 THEN {"connect", "start", "form"}
                                ELSE {"connect", "stop"}
    BY DEF ViewAgreesAtRest
  <2>1. signals = <<>> /\ commands = <<>> /\ InSession /\ Len(signals) = 0
    BY EmptySeq DEF AtRest, InSession
  <2>2. QED
    BY <2>1 DEF IInv, ViewInv
<1>2. QED
  BY <1>1, GuiInvariant, PTL

(* The plot shows one run, unless a start met an unanswered one            *)
(* (gui.py:277).                                                           *)
THEOREM GuiPlotShowsOneRun == GuiSpec => []PlotShowsOneRun
<1>1. IInv => PlotShowsOneRun
  BY DEF IInv, OneRunInv, PlotShowsOneRun
<1>2. QED
  BY <1>1, GuiInvariant, PTL

(* No port stays open behind a session that has ended, in whichever way    *)
(* (gui_worker.py:42).                                                     *)
THEOREM GuiReleasesPorts == GuiSpec => []PortsReleased
<1>1. IInv => PortsReleased
  BY DEF IInv, SessionInv, PortsReleased
<1>2. QED
  BY <1>1, GuiInvariant, PTL
=============================================================================
