-------------------------------- MODULE Host --------------------------------
(* A conversation pipeline and the program that holds its handle: the daemon
   buzztalkd, the demo, an application behind the C interface, or the desktop
   example with its event pump. They share two channels, commands to the
   orchestrator's thread and events from it. Of the session only whether it is
   Idle matters here; of the events, a change to Idle and the end.            *)
EXTENDS Naturals, Sequences

CONSTANTS
  Clients,        (* the programs that may hold the handle, out of AllClients *)
  MaxQueued       (* bound: commands and events in the channels when another
                     event arises *)

AllClients == {"buzztalkd", "demo", "app", "desktop"}

ASSUME ClientsAssumption == Clients \subseteq AllClients /\ Clients # {}
ASSUME QueuedAssumption == MaxQueued \in Nat \ {0}

VARIABLES
  client,         (* which program it is *)
  host,           (* where its thread is *)
  pump,           (* the thread the desktop example hands the events to *)
  control,        (* commands on their way *)
  events,         (* events on their way *)
  orchestrator,   (* where the orchestrator's thread is *)
  running,        (* its flag of that name *)
  session         (* "Idle", or "open" for every other state *)

clientVars == <<host, pump>>
loopVars == <<orchestrator, running>>
hostVars == <<client, clientVars, control, events, loopVars, session>>

Command == {"StartSession", "EndSession", "Shutdown"}
Event == {"Idle", "SessionEnded", "Other"}

(* events_tx.send, whose failure is ignored: once the pump dropped the
   receiver, nobody gets the event. *)
Told(news) == events' = IF pump = "ended" THEN events ELSE events \o news
ToldNothing == UNCHANGED events

Send(command) == control' = Append(control, command)
Loop(next) == orchestrator' = next

(* dispatch(SessionStart): only an Idle session starts. *)
Start == session' = "open" /\ Told(IF session = "Idle" THEN <<"Other">> ELSE <<>>)

(* dispatch(SessionEnd), with the events sent before and after it. *)
EndWith(before, after) ==
  /\ session' = "Idle"
  /\ Told(before \o (IF session = "open" THEN <<"Idle">> ELSE <<>>) \o after)

Room == Len(control) + Len(events) < MaxQueued

----------------------------------------------------------------------------
(* The orchestrator. *)

EmitCapabilities ==
  /\ orchestrator = "spawned"
  /\ Loop("control") /\ Told(<<"Other">>)
  /\ UNCHANGED <<client, clientVars, control, running, session>>

(* drain_control takes one command; Shutdown does not keep it from taking the
   next. *)
HandleControl ==
  /\ orchestrator = "control" /\ control # <<>>
  /\ control' = Tail(control)
  /\ running' = (running /\ Head(control) # "Shutdown")
  /\ CASE Head(control) = "StartSession" -> Start
       [] Head(control) = "EndSession" -> EndWith(<<>>, <<>>)
       [] Head(control) = "Shutdown" -> ToldNothing /\ UNCHANGED session
  /\ UNCHANGED <<client, clientVars, orchestrator>>

ControlDrained ==
  /\ orchestrator = "control" /\ control = <<>>
  /\ Loop(IF running THEN "tick" ELSE "leaving")
  /\ UNCHANGED <<client, clientVars, control, events, running, session>>

(* dispatch(Tick): an open session may have been silent for too long. *)
TickSession ==
  /\ orchestrator = "tick" /\ Loop("pump")
  /\ \/ UNCHANGED <<events, session>>
     \/ session = "open" /\ Room /\ EndWith(<<>>, <<>>)
  /\ UNCHANGED <<client, clientVars, control, running>>

(* Mutated form: commands are drained once, before the loop. *)
PumpWithoutControl ==
  /\ orchestrator = "pump"
  /\ \/ Loop("tick") /\ UNCHANGED <<events, session>>
     \/ Loop("tick") /\ Room /\ Told(<<"Other">>) /\ UNCHANGED session
     \/ Loop("rebuilding") /\ Room /\ EndWith(<<"Other">>, <<>>)
  /\ UNCHANGED <<client, clientVars, control, running>>

(* The rest of a tick: it may have something to tell, or open the devices
   again, in whatever state the session is. *)
Pump ==
  /\ orchestrator = "pump"
  /\ \/ Loop("control") /\ UNCHANGED <<events, session>>
     \/ Loop("control") /\ Room /\ Told(<<"Other">>) /\ UNCHANGED session
     \/ Loop("rebuilding") /\ Room /\ EndWith(<<"Other">>, <<>>)
  /\ UNCHANGED <<client, clientVars, control, running>>

(* rebuild_engine, the second of its two dispatches. *)
RestartOnNewEngine ==
  /\ orchestrator = "rebuilding" /\ Loop("control")
  /\ Start
  /\ UNCHANGED <<client, clientVars, control, running>>

Leave ==
  /\ orchestrator = "leaving" /\ Loop("ended")
  /\ EndWith(<<>>, <<"SessionEnded">>)
  /\ UNCHANGED <<client, clientVars, control, running>>

Orchestrate ==
  \/ EmitCapabilities \/ HandleControl \/ ControlDrained
  \/ TickSession \/ Pump \/ RestartOnNewEngine \/ Leave

----------------------------------------------------------------------------
(* The client. *)

Step(from, next) == host = from /\ host' = next

(* The agent the pipeline is to talk to: a relay or a key that cannot be used
   ends the start. The demo's echo needs neither. *)
Connect ==
  /\ \/ Step("starting", "connected")
     \/ client # "demo" /\ Step("starting", "failed")
  /\ UNCHANGED <<client, pump, control, events, loopVars, session>>

(* ConversationPipeline::start spawns the loop, unless the devices do not open;
   missing models are only reported. *)
StartPipeline ==
  /\ \/ Step("connected", "failed") /\ UNCHANGED orchestrator
     \/ Step("connected", "started") /\ Loop("spawned")
  /\ UNCHANGED <<client, pump, control, events, running, session>>

(* start_session; the desktop example then hands the receiver to its pump. *)
StartSession ==
  /\ Step("started", "serving") /\ Send("StartSession")
  /\ pump' = IF client = "desktop" THEN "pumping" ELSE "none"
  /\ UNCHANGED <<client, events, loopVars, session>>

(* recv_event_timeout, of a client that still has the receiver. *)
Receive ==
  /\ pump = "none" /\ events # <<>>
  /\ events' = Tail(events)
  /\ UNCHANGED <<client, pump, loopVars, session>>

(* Mutated form: an Idle session is reported and nothing more. *)
DaemonReceivesDeaf ==
  /\ client = "buzztalkd" /\ host = "serving" /\ Receive
  /\ host' = IF Head(events) = "SessionEnded" THEN "stopping" ELSE "serving"
  /\ UNCHANGED control

(* The daemon restarts the session when it hears that it is Idle. *)
DaemonReceives ==
  /\ client = "buzztalkd" /\ host = "serving" /\ Receive
  /\ host' = IF Head(events) = "SessionEnded" THEN "stopping" ELSE "serving"
  /\ IF Head(events) = "Idle" THEN Send("StartSession") ELSE UNCHANGED control

DemoReceives ==
  /\ client = "demo" /\ host = "serving" /\ Receive
  /\ host' = IF Head(events) = "SessionEnded" THEN "stopping" ELSE "serving"
  /\ UNCHANGED control

(* buzztalk_poll_event does not wait, and does nothing of its own. *)
AppPolls == client = "app" /\ host = "serving" /\ Receive /\ UNCHANGED <<host, control>>

(* --seconds have passed; without them the daemon serves until it is killed. *)
Deadline ==
  /\ client \in {"buzztalkd", "demo"} /\ Step("serving", "stopping")
  /\ UNCHANGED <<client, pump, control, events, loopVars, session>>

EndSession ==
  /\ Step("stopping", "draining") /\ Send("EndSession")
  /\ UNCHANGED <<client, pump, events, loopVars, session>>

(* For half a second events are still shown, and nothing answers them. *)
DrainEvents ==
  /\ host = "draining" /\ Receive
  /\ host' = IF Head(events) = "SessionEnded" THEN "dropping" ELSE "draining"
  /\ UNCHANGED control

DrainOver ==
  /\ Step("draining", "dropping")
  /\ UNCHANGED <<client, pump, control, events, loopVars, session>>

(* buzztalk_stop, of the C interface and of the desktop example: end_session,
   and the handle is dropped. *)
StopAndDrop ==
  /\ client \in {"app", "desktop"} /\ Step("serving", "dropping") /\ Send("EndSession")
  /\ UNCHANGED <<client, pump, events, loopVars, session>>

(* Mutated form: the thread is joined and never told to stop. *)
DropWithoutShutdown ==
  /\ Step("dropping", "joining")
  /\ UNCHANGED <<client, pump, control, events, loopVars, session>>

(* Drop sends Shutdown, then waits for the thread. *)
Drop ==
  /\ Step("dropping", "joining") /\ Send("Shutdown")
  /\ UNCHANGED <<client, pump, events, loopVars, session>>

Join ==
  /\ orchestrator = "ended" /\ Step("joining", "gone")
  /\ UNCHANGED <<client, pump, control, events, loopVars, session>>

(* The pump forwards an event to the UI. *)
PumpForwards ==
  /\ pump = "pumping" /\ events # <<>> /\ events' = Tail(events)
  /\ UNCHANGED <<client, clientVars, control, loopVars, session>>

(* recv_timeout gives the pump no event: the sender is gone, or it waited 200
   milliseconds. *)
PumpEnds ==
  /\ pump = "pumping" /\ events = <<>> /\ pump' = "ended"
  /\ UNCHANGED <<client, host, control, events, loopVars, session>>

Receives == DaemonReceives \/ DemoReceives \/ AppPolls
Stopping == EndSession \/ DrainOver \/ Drop \/ Join

----------------------------------------------------------------------------
HostInit ==
  /\ client \in Clients
  /\ host = "starting" /\ pump = "none"
  /\ control = <<>> /\ events = <<>>
  /\ orchestrator = "unborn" /\ running = TRUE
  /\ session = "Idle"

HostNext ==
  \/ Orchestrate
  \/ Connect \/ StartPipeline \/ StartSession \/ Receives \/ Deadline \/ StopAndDrop
  \/ DrainEvents \/ Stopping
  \/ PumpForwards \/ PumpEnds

(* The loop runs until it is left; a client takes the events there are, and
   gets on with its end once it began, however many events there are to drain.
   Nothing says when it begins. *)
HostFairness ==
  /\ WF_hostVars(Orchestrate)
  /\ WF_hostVars(StartSession \/ Receives)
  /\ WF_hostVars(Stopping)

HostSpec == HostInit /\ [][HostNext]_hostVars /\ HostFairness

----------------------------------------------------------------------------
(* Every variable has a value of its type. *)
HostTypeOK ==
  /\ client \in AllClients
  /\ host \in {"starting", "connected", "failed", "started", "serving", "stopping",
               "draining", "dropping", "joining", "gone"}
  /\ pump \in {"none", "pumping", "ended"}
  /\ control \in Seq(Command) /\ events \in Seq(Event)
  /\ orchestrator \in {"unborn", "spawned", "control", "tick", "pump", "rebuilding",
                       "leaving", "ended"}
  /\ running \in BOOLEAN
  /\ session \in {"Idle", "open"}

Holds(queue, item) == \E i \in DOMAIN queue : queue[i] = item

(* While the daemon serves, an Idle session is about to start again: a command
   is on its way, or the daemon is still to hear of it and will send one, or the
   engine is being rebuilt (buzztalkd.rs, the main loop). *)
RestartIsComing ==
  client = "buzztalkd" /\ host = "serving" /\ session = "Idle" =>
    \/ Holds(control, "StartSession") \/ Holds(events, "Idle")
    \/ orchestrator = "rebuilding"

(* When the handle is gone the microphone is closed: a rebuild of the engine
   may have opened the session again after end_session, but not after the end of
   the loop (pipeline.rs, run and Drop). *)
ClosedWhenGone == host = "gone" => session = "Idle"

(* The daemon and the demo leave their loops, and the drain that follows, by
   the clock: the event they also wait for, SessionEnded, is sent when the handle
   is dropped, and by then they no longer listen. *)
EndIsUnheard ==
  client \in {"buzztalkd", "demo"} /\ host \in {"serving", "stopping", "draining"} =>
    ~ Holds(events, "SessionEnded")

(* A daemon that serves does not stay deaf: whatever ended the session, another
   begins (buzztalkd.rs, "Re-arm immediately so Listening is the steady
   state"). *)
SteadyListening ==
  (client = "buzztalkd" /\ host = "serving" /\ session = "Idle")
    ~> (session = "open" \/ host # "serving")

(* A client that stops comes to an end, and with the microphone closed: no join
   waits for a loop that was not told to stop, and a rebuild that restarted the
   session after end_session has not the last word (pipeline.rs, run and Drop). *)
StopsInTheEnd == host \in {"stopping", "dropping"} ~> (host = "gone" /\ session = "Idle")

(* The UI gets the pipeline's events: the pump that forwards them runs as long
   as the pipeline does (voice_commands.rs, "streams pipeline events to the
   UI"). *)
UiFollowsThePipeline == pump = "ended" => orchestrator = "ended"
=============================================================================
