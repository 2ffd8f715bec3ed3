------------------------------ MODULE Gateway ------------------------------
(***************************************************************************)
(* The hardware adapter and the REST server joined by the control loop of  *)
(* examples/rest_api_server.cpp: one thread starts the server, reads every *)
(* pack signal through the adapter, publishes the cycle and, when told to, *)
(* stops the server.  A signal that is missing or stale throws and the     *)
(* cycle publishes nothing.  The poller, the commanders, the server and    *)
(* the clients are threads of their own.  (The example simulates its       *)
(* sensors; a vehicle reads them through the adapter's IPackSensors.)      *)
(***************************************************************************)
EXTENDS HardwareAdapter, RestServer

CONSTANT Budgets    \* bounds: how often the environment acts in a behaviour

\* frames0 remembers how many frames a behaviour starts with.
ASSUME BudgetsAssumption ==
    \A b \in Budgets :
        /\ b \in [{"commands", "ticks", "frames", "frames0", "requests",
                   "cycles", "starts"} -> Nat]
        /\ b.frames <= b.frames0

VARIABLES
    control,      \* the control thread: where it is and what it has read
    published,    \* history: the readings of every published cycle
    budget        \* what the environment may still do

vars == <<adapterVars, restVars, control, published, budget>>

NothingRead == [s \in Signals |-> 0]

Init ==
    /\ AdapterInit
    /\ RestInit
    /\ control = [step |-> "off", read |-> NothingRead, todo |-> {}]
    /\ published = <<>>
    /\ budget \in Budgets

Spend(what) ==
    /\ budget[what] > 0
    /\ budget' = [budget EXCEPT ![what] = @ - 1]

Goto(step) == control' = [control EXCEPT !.step = step]

ControlOnly == UNCHANGED <<adapterVars, published, budget>>

-----------------------------------------------------------------------------
(* The environment and the other threads.                                  *)

ClockAdvances == Tick /\ Spend("ticks") /\ UNCHANGED <<restVars, control, published>>

SensorSends ==
    /\ \E kind \in Signals \cup {Other} : FrameArrives(kind, budget.frames0 - budget.frames + 1)
    /\ Spend("frames")
    /\ UNCHANGED <<restVars, control, published>>

Poll ==
    /\ TakeFrame \/ StampFrame \/ StoreSignal
    /\ UNCHANGED <<restVars, control, published, budget>>

CommandStarts ==
    /\ \E t \in Commanders, c \in Contactors, on \in BOOLEAN : BeginCommand(t, c, on)
    /\ Spend("commands")
    /\ UNCHANGED <<restVars, control, published>>

CommandGoesOn ==
    /\ \E t \in Commanders : SendCommand(t) \/ StoreFlag(t)
    /\ UNCHANGED <<restVars, control, published, budget>>

Connect ==
    /\ ClientConnects
    /\ Spend("requests")
    /\ UNCHANGED <<adapterVars, control, published>>

Serve ==
    /\ ServerStep \/ ReceiveEnds
    /\ UNCHANGED <<adapterVars, control, published, budget>>

AcceptDisturbed ==
    /\ AcceptFails
    /\ Spend("requests")
    /\ UNCHANGED <<adapterVars, control, published>>

-----------------------------------------------------------------------------
(* The control thread.                                                     *)

Start ==
    /\ control.step = "off"
    /\ Spend("starts")
    /\ \/ StartListening /\ Goto("loop")
       \/ StartThrows /\ Goto("failed")
       \/ StartRefused /\ UNCHANGED control
    /\ UNCHANGED <<adapterVars, published>>

BeginCycle ==
    /\ control.step = "loop"
    /\ Spend("cycles")
    /\ control' = [control EXCEPT !.step = "reading", !.todo = Signals]
    /\ UNCHANGED <<adapterVars, restVars, published>>

ReadSignal(s) ==
    /\ control.step = "reading" /\ s \in control.todo
    /\ IF Fresh(s)
       THEN control' = [control EXCEPT !.read[s] = cache[s].value, !.todo = @ \ {s}]
       ELSE Goto("loop")
    /\ UNCHANGED restVars /\ ControlOnly

PublishStates ==
    /\ control.step = "reading" /\ control.todo = {}
    /\ WriteStates(control.read)
    /\ published' = Append(published, control.read)
    /\ Goto("safety")
    /\ UNCHANGED <<adapterVars, budget>>

PublishSafety ==
    /\ control.step = "safety"
    /\ WriteSafety
    /\ Goto("energy") /\ ControlOnly

PublishEnergy ==
    /\ control.step = "energy"
    /\ WriteEnergy
    /\ Goto("loop") /\ ControlOnly

Stop ==
    /\ control.step \in {"loop", "failed"}
    /\ StopBegin
    /\ Goto("stopping") /\ ControlOnly

Stopping ==
    /\ control.step = "stopping"
    /\ \/ ShutListener /\ UNCHANGED control
       \/ CloseListener /\ UNCHANGED control
       \/ Join /\ Goto("off")
    /\ ControlOnly

Control ==
    \/ BeginCycle \/ (\E s \in Signals : ReadSignal(s))
    \/ PublishStates \/ PublishSafety \/ PublishEnergy

Next ==
    \/ ClockAdvances \/ SensorSends \/ Poll \/ CommandStarts \/ CommandGoesOn
    \/ Connect \/ Serve \/ AcceptDisturbed
    \/ Start \/ Control \/ Stop \/ Stopping

\* The server thread and the control thread are scheduled, and recv() ends by
\* itself; nothing is assumed of the clients, the sensors or the commanders.
Fairness ==
    /\ WF_vars(Serve)
    /\ WF_vars(Stopping)

Spec == Init /\ [][Next]_vars /\ Fairness

-----------------------------------------------------------------------------
\* A client never sees two publications mixed: the states, or the safety
\* flags, of a response are those of its stamp, the energy figures, published
\* in a critical section of their own, at most one publication behind, and
\* nothing in it is older than what was published when the request was read.
\* The counters of /health add up with the request being served.
AnswersAreWhole ==
    /\ answer.step \in {"state", "energy"} => answer.stamp >= answer.seen
    /\ answer.step = "state" =>
          answer.states = IF answer.stamp = 0 THEN NoReading
                          ELSE published[answer.stamp]
    /\ answer.step = "energy" =>
          /\ answer.safety = answer.stamp
          /\ answer.energy \in {answer.stamp - 1, answer.stamp}
    /\ answer.step = "health" =>
          answer.stats.total = answer.stats.successful + answer.stats.failed + 1

\* Given a transport that hands frames out in order and one polling thread,
\* what the control loop reads of a signal is never older than what it read
\* before: no frame overtakes another between receive() and the cache, however
\* the loop's cycles, those that fail included, fall between the poller's
\* steps and those of the clock.
ReadingsNeverGoBack ==
    [][ \A s \in Signals : control'.read[s] >= control.read[s] ]_vars

\* stop() returns however silent the client being served is, and leaves no
\* thread, no descriptor and no lock behind.
StopReturns ==
    control.step = "stopping" ~>
        /\ control.step = "off"
        /\ server.step = "none" /\ listener = "closed" /\ mutex = "free"
=============================================================================
