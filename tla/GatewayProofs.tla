---------------------------- MODULE GatewayProofs ----------------------------
(***************************************************************************)
(* What holds of the gateway for every number of signals, commanders and   *)
(* environment steps: the contactors follow the flags, a response is never *)
(* mixed from two publications, and no signal is ever read going back.     *)
(***************************************************************************)
EXTENDS Gateway, TLAPS

-----------------------------------------------------------------------------
(***************************************************************************)
(* The contactors.  A command is clean while no other was under way since  *)
(* it began, so the state of the paired contactor it read is still the     *)
(* stored one when it stores its own flag.                                 *)
(***************************************************************************)
Switches == [Contactors -> BOOLEAN]

Commanded(k) == [c \in Contactors |-> IF c = k.which THEN k.on ELSE k.other]

CommandType ==
    [step : {"sending", "storing"}, which : Contactors, on : BOOLEAN,
     other : BOOLEAN, clean : BOOLEAN]

Busy(t) == command[t].step # "idle"

CommandsInRange ==
    /\ command \in [Commanders -> CommandType \cup {Resting}]
    /\ enabled \in Switches
    /\ contactors \in Switches
    /\ disturbed \in BOOLEAN

CleanIsAlone ==
    \A t, u \in Commanders : Busy(t) /\ command[t].clean /\ Busy(u) => u = t

CleanIsCurrent ==
    \A t \in Commanders : Busy(t) /\ command[t].clean =>
        /\ command[t].other = enabled[Paired(command[t].which)]
        /\ command[t].step = "storing" => contactors = Commanded(command[t])

UndisturbedIsClean ==
    ~disturbed => \A t \in Commanders : Busy(t) => command[t].clean

CommandInv ==
    /\ CommandsInRange
    /\ CleanIsAlone
    /\ CleanIsCurrent
    /\ UndisturbedIsClean
    /\ ContactorsFollowFlags

LEMMA PairedContactor ==
    \A c \in Contactors :
        /\ Paired(c) \in Contactors /\ Paired(c) # c
        /\ \A b \in Contactors : b # c => b = Paired(c)
  BY DEF Contactors, Paired

LEMMA CommandedType ==
    ASSUME NEW k \in CommandType
    PROVE  Commanded(k) \in Switches
  BY DEF Commanded, CommandType, Switches

LEMMA CommandInit == Init => CommandInv
  <1> SUFFICES ASSUME Init PROVE CommandInv
    OBVIOUS
  <1>1. /\ enabled = [c \in Contactors |-> TRUE] /\ contactors = enabled
        /\ command = [t \in Commanders |-> Resting] /\ disturbed = FALSE
    BY DEF Init, AdapterInit
  <1>2. CommandsInRange
    BY <1>1 DEF CommandsInRange, Switches
  <1>3. \A t \in Commanders : ~Busy(t)
    BY <1>1 DEF Busy, Resting
  <1>4. CleanIsAlone /\ CleanIsCurrent /\ UndisturbedIsClean
    BY <1>3 DEF CleanIsAlone, CleanIsCurrent, UndisturbedIsClean
  <1>5. ContactorsFollowFlags
    BY <1>1 DEF ContactorsFollowFlags
  <1>6. QED
    BY <1>2, <1>4, <1>5 DEF CommandInv

\* The record of a command between its first and its last step.
LEMMA BusyCommand ==
    ASSUME CommandsInRange, NEW t \in Commanders, Busy(t)
    PROVE  command[t] \in CommandType
  BY DEF CommandsInRange, Busy, Resting

\* A command that begins soils every command under way.
LEMMA BeginCommandInv ==
    ASSUME CommandInv, NEW t \in Commanders, NEW c \in Contactors,
           NEW on \in BOOLEAN, BeginCommand(t, c, on)
    PROVE  CommandInv'
  <1> DEFINE fresh == [step |-> "sending", which |-> c, on |-> on,
                       other |-> enabled[Paired(c)], clean |-> ~OthersBusy(t)]
  <1>1. /\ command[t].step = "idle"
        /\ command' = [u \in Commanders |->
              IF u = t THEN fresh
              ELSE IF command[u].step = "idle" THEN Resting
              ELSE [command[u] EXCEPT !.clean = FALSE]]
        /\ disturbed' = (disturbed \/ OthersBusy(t))
        /\ enabled' = enabled /\ contactors' = contactors
    BY DEF BeginCommand
  <1>2. fresh \in CommandType
    <2>1. enabled[Paired(c)] \in BOOLEAN
      BY PairedContactor DEF CommandInv, CommandsInRange, Switches
    <2>2. OthersBusy(t) \in BOOLEAN
      BY DEF OthersBusy
    <2>3. QED
      BY <2>1, <2>2 DEF CommandType
  <1>3. command'[t] = fresh /\ Busy(t)'
    BY <1>1 DEF Busy
  <1> HIDE DEF fresh
  <1>4. ASSUME NEW u \in Commanders, u # t, Busy(u)
        PROVE  /\ command'[u] = [command[u] EXCEPT !.clean = FALSE]
               /\ command'[u] \in CommandType /\ ~command'[u].clean
    <2>1. command'[u] = [command[u] EXCEPT !.clean = FALSE]
      BY <1>1, <1>4 DEF Busy
    <2>2. command[u] \in CommandType
      BY <1>4, BusyCommand DEF CommandInv
    <2>3. QED
      BY <2>1, <2>2 DEF CommandType
  <1>5. ASSUME NEW u \in Commanders, u # t, ~Busy(u)
        PROVE  command'[u] = Resting /\ ~Busy(u)'
    BY <1>1, <1>5 DEF Busy, Resting
  <1>6. \A u \in Commanders : Busy(u)' /\ command'[u].clean => u = t
    BY <1>4, <1>5
  <1>7. CommandsInRange'
    <2>1. command' \in [Commanders -> CommandType \cup {Resting}]
      BY <1>1, <1>2, <1>3, <1>4, <1>5
    <2>2. disturbed' \in BOOLEAN
      BY <1>1 DEF OthersBusy, CommandInv, CommandsInRange
    <2>3. QED
      BY <1>1, <2>1, <2>2 DEF CommandInv, CommandsInRange
  <1>8. fresh.clean => \A u \in Commanders : Busy(u)' => u = t
    <2>1. SUFFICES ASSUME fresh.clean, NEW u \in Commanders, u # t
                   PROVE  ~Busy(u)'
      OBVIOUS
    <2>2. ~OthersBusy(t)
      BY <2>1 DEF fresh
    <2>3. ~Busy(u)
      BY <2>1, <2>2 DEF OthersBusy, Busy
    <2>4. QED
      BY <1>5, <2>1, <2>3
  <1>9. CleanIsAlone'
    BY <1>3, <1>6, <1>8 DEF CleanIsAlone
  <1>10. CleanIsCurrent'
    <2>1. /\ fresh.other = enabled'[Paired(fresh.which)]
          /\ fresh.step = "sending"
      BY <1>1 DEF fresh
    <2>2. QED
      BY <1>3, <1>6, <2>1 DEF CleanIsCurrent
  <1>11. UndisturbedIsClean'
    <2>1. SUFFICES ASSUME ~disturbed', NEW u \in Commanders, Busy(u)'
                   PROVE  command'[u].clean
      BY DEF UndisturbedIsClean
    <2>2. ~OthersBusy(t)
      BY <1>1, <2>1 DEF OthersBusy
    <2>3. u = t
      BY <1>5, <2>1, <2>2 DEF OthersBusy, Busy
    <2>4. fresh.clean
      BY <2>2 DEF fresh
    <2>5. QED
      BY <1>3, <2>3, <2>4
  <1>12. ContactorsFollowFlags'
    BY <1>3 DEF ContactorsFollowFlags, Busy
  <1>13. QED
    BY <1>7, <1>9, <1>10, <1>11, <1>12 DEF CommandInv

\* A command that reaches the contactors sets both; one that is lost leaves
\* them behind and is clean no more.
LEMMA SendCommandInv ==
    ASSUME CommandInv, NEW t \in Commanders, SendCommand(t)
    PROVE  CommandInv'
  <1> DEFINE k == command[t]
  <1>1. k \in CommandType /\ k.step = "sending" /\ Busy(t)
    BY BusyCommand DEF SendCommand, Busy, CommandInv
  <1>2. enabled' = enabled /\ command \in [Commanders -> CommandType \cup {Resting}]
    BY DEF SendCommand, CommandInv, CommandsInRange
  <1>3. CASE /\ contactors' = Commanded(k)
             /\ command' = [command EXCEPT ![t].step = "storing"]
             /\ disturbed' = disturbed
    <2>1. /\ command'[t] = [k EXCEPT !.step = "storing"]
          /\ command'[t] \in CommandType
          /\ command'[t].step = "storing"
          /\ command'[t].clean = k.clean /\ command'[t].which = k.which
          /\ command'[t].on = k.on /\ command'[t].other = k.other
      BY <1>1, <1>2, <1>3 DEF CommandType
    <2>2. \A u \in Commanders : u # t => command'[u] = command[u]
      BY <1>2, <1>3
    <2>3. \A u \in Commanders :
             /\ Busy(u)' <=> Busy(u)
             /\ command'[u].clean = command[u].clean
      BY <1>1, <2>1, <2>2 DEF Busy
    <2>4. CommandsInRange'
      BY <1>1, <1>2, <1>3, <2>1, CommandedType DEF CommandInv, CommandsInRange
    <2>5. CleanIsAlone' /\ UndisturbedIsClean'
      BY <1>3, <2>3 DEF CommandInv, CleanIsAlone, UndisturbedIsClean
    <2>6. CleanIsCurrent'
      <3>1. SUFFICES ASSUME NEW u \in Commanders, Busy(u)', command'[u].clean
                     PROVE  /\ command'[u].other = enabled[Paired(command'[u].which)]
                            /\ command'[u].step = "storing" =>
                                  contactors' = Commanded(command'[u])
        BY <1>2 DEF CleanIsCurrent
      <3>2. u = t
        BY <1>1, <2>3, <3>1 DEF CommandInv, CleanIsAlone
      <3>3. Commanded(command'[t]) = Commanded(k)
        BY <2>1 DEF Commanded
      <3>4. k.other = enabled[Paired(k.which)]
        BY <1>1, <2>1, <3>1, <3>2 DEF CommandInv, CleanIsCurrent
      <3>5. QED
        BY <1>3, <2>1, <3>2, <3>3, <3>4
    <2>7. ContactorsFollowFlags'
      BY <2>1 DEF ContactorsFollowFlags
    <2>8. QED
      BY <2>4, <2>5, <2>6, <2>7 DEF CommandInv
  <1>4. CASE /\ command' = [command EXCEPT ![t].step = "storing", ![t].clean = FALSE]
             /\ disturbed' = TRUE
             /\ contactors' = contactors
    <2>1. /\ command'[t] \in CommandType
          /\ command'[t].step = "storing" /\ ~command'[t].clean
      BY <1>1, <1>2, <1>4 DEF CommandType
    <2>2. \A u \in Commanders : u # t => command'[u] = command[u]
      BY <1>2, <1>4
    <2>3. ASSUME NEW u \in Commanders, Busy(u)', command'[u].clean
          PROVE  u # t /\ Busy(u) /\ command[u].clean
      BY <2>1, <2>2, <2>3 DEF Busy
    <2>4. CommandsInRange'
      BY <1>2, <1>4, <2>1 DEF CommandInv, CommandsInRange
    <2>5. \A u \in Commanders : Busy(u)' => ~command'[u].clean
      BY <1>1, <2>3 DEF CommandInv, CleanIsAlone
    <2>6. CleanIsAlone' /\ CleanIsCurrent'
      BY <2>5 DEF CleanIsAlone, CleanIsCurrent
    <2>7. UndisturbedIsClean' /\ ContactorsFollowFlags'
      BY <1>4 DEF UndisturbedIsClean, ContactorsFollowFlags
    <2>8. QED
      BY <2>4, <2>6, <2>7 DEF CommandInv
  <1>5. QED
    BY <1>3, <1>4 DEF SendCommand, Commanded

\* Storing the flag of a clean command makes flags and contactors agree.
LEMMA StoreFlagInv ==
    ASSUME CommandInv, NEW t \in Commanders, StoreFlag(t)
    PROVE  CommandInv'
  <1> DEFINE k == command[t]
  <1>1. k \in CommandType /\ k.step = "storing" /\ Busy(t)
    BY BusyCommand DEF StoreFlag, Busy, CommandInv
  <1>2. /\ enabled' = [enabled EXCEPT ![k.which] = k.on]
        /\ command' = [command EXCEPT ![t] = Resting]
        /\ disturbed' = (disturbed /\ ~k.clean)
        /\ contactors' = contactors
    BY DEF StoreFlag
  <1>3. /\ command \in [Commanders -> CommandType \cup {Resting}]
        /\ enabled \in Switches /\ disturbed \in BOOLEAN
        /\ k.which \in Contactors /\ k.on \in BOOLEAN /\ k.clean \in BOOLEAN
    BY <1>1 DEF CommandInv, CommandsInRange, CommandType
  <1>4. command'[t] = Resting /\ ~Busy(t)'
    BY <1>2, <1>3 DEF Busy, Resting
  <1>5. \A u \in Commanders : u # t => command'[u] = command[u] /\ (Busy(u)' <=> Busy(u))
    BY <1>2, <1>3 DEF Busy
  <1>6. CommandsInRange'
    BY <1>2, <1>3 DEF CommandInv, CommandsInRange, Switches
  <1>7. CleanIsAlone'
    BY <1>4, <1>5 DEF CommandInv, CleanIsAlone
  <1>8. ASSUME NEW u \in Commanders, Busy(u)' PROVE u # t /\ ~command'[u].clean
    BY <1>1, <1>4, <1>5, <1>8 DEF CommandInv, CleanIsAlone
  <1>9. CleanIsCurrent'
    BY <1>8 DEF CleanIsCurrent
  <1>10. k.clean => \A u \in Commanders : ~Busy(u)'
    BY <1>1, <1>4, <1>5 DEF CommandInv, CleanIsAlone
  <1>11. ~disturbed => k.clean
    BY <1>1 DEF CommandInv, UndisturbedIsClean
  <1>12. UndisturbedIsClean'
    BY <1>2, <1>3, <1>10, <1>11 DEF UndisturbedIsClean
  <1>13. k.clean => contactors = enabled'
    <2>1. SUFFICES ASSUME k.clean PROVE contactors = enabled'
      OBVIOUS
    <2>2. contactors = Commanded(k) /\ k.other = enabled[Paired(k.which)]
      BY <1>1, <2>1 DEF CommandInv, CleanIsCurrent
    <2>3. \A c \in Contactors : Commanded(k)[c] = enabled'[c]
      BY <1>2, <1>3, <2>2, PairedContactor DEF Commanded, Switches
    <2>4. Commanded(k) \in Switches /\ enabled' \in Switches
      BY <1>1, <1>6, CommandedType DEF CommandsInRange
    <2>5. QED
      BY <2>2, <2>3, <2>4 DEF Switches
  <1>14. ContactorsFollowFlags'
    BY <1>2, <1>3, <1>11, <1>13 DEF ContactorsFollowFlags
  <1>15. QED
    BY <1>6, <1>7, <1>9, <1>12, <1>14 DEF CommandInv

\* Every other step leaves the commands alone.
LEMMA CommandsUntouched ==
    ASSUME CommandInv, UNCHANGED commandVars
    PROVE  CommandInv'
  BY DEF CommandInv, commandVars, CommandsInRange, CleanIsAlone, CleanIsCurrent,
         UndisturbedIsClean, ContactorsFollowFlags, Busy

LEMMA CommandNext == CommandInv /\ [Next]_vars => CommandInv'
  <1> SUFFICES ASSUME CommandInv, [Next]_vars PROVE CommandInv'
    OBVIOUS
  <1>1. CASE CommandStarts
    BY <1>1, BeginCommandInv DEF CommandStarts
  <1>2. CASE CommandGoesOn
    BY <1>2, SendCommandInv, StoreFlagInv DEF CommandGoesOn
  <1>3. CASE ClockAdvances \/ SensorSends \/ Poll
    BY <1>3, CommandsUntouched
    DEF ClockAdvances, Tick, SensorSends, FrameArrives, Poll, TakeFrame,
        StampFrame, StoreSignal
  <1>4. CASE Connect \/ Serve \/ AcceptDisturbed
    BY <1>4, CommandsUntouched
    DEF Connect, Serve, AcceptDisturbed, adapterVars, commandVars
  <1>5. CASE Start \/ Control \/ Stop \/ Stopping
    BY <1>5, CommandsUntouched
    DEF Start, Control, BeginCycle, ReadSignal, PublishStates, PublishSafety,
        PublishEnergy, Stop, Stopping, ControlOnly, adapterVars, commandVars
  <1>6. CASE UNCHANGED vars
    BY <1>6, CommandsUntouched DEF vars, adapterVars, commandVars
  <1>7. QED
    BY <1>1, <1>2, <1>3, <1>4, <1>5, <1>6 DEF Next

\* The contactors are in the state the flags say whenever no command is under
\* way, except after overlapping or lost commands, and the next command that
\* runs undisturbed puts both right: for any number of commanders.
THEOREM ContactorsCorrect == Spec => []ContactorsFollowFlags
  <1>1. CommandInv => ContactorsFollowFlags
    BY DEF CommandInv
  <1>2. QED
    BY CommandInit, CommandNext, <1>1, PTL DEF Spec

-----------------------------------------------------------------------------
(***************************************************************************)
(* The telemetry.  Frames are numbered in the order they reach the         *)
(* transport; every stage of the way to the control loop holds numbers no  *)
(* greater than those of the stages behind it.                             *)
(***************************************************************************)
Sent == budget.frames0 - budget.frames

Handled == poller.step \in {"decoding", "storing"}

FrameType == [kind : Signals \cup {Other}, number : Nat]

TelemetryInRange ==
    /\ budget \in [{"commands", "ticks", "frames", "frames0", "requests",
                    "cycles", "starts"} -> Nat]
    /\ bus \in Seq(FrameType)
    /\ Handled => poller.frame \in FrameType
    /\ poller.step = "storing" => poller.frame.kind \in Signals
    /\ DOMAIN cache = Signals
    /\ \A s \in Signals : cache[s].value \in Nat
    /\ control.read \in [Signals -> Nat]
    /\ DOMAIN control = {"step", "read", "todo"}

NumbersInOrder ==
    /\ Sent \in Nat
    /\ \A m \in 1..Len(bus) : bus[m].number <= Sent
    /\ \A m, n \in 1..Len(bus) : m < n => bus[m].number <= bus[n].number
    /\ Handled => /\ poller.frame.number <= Sent
                  /\ \A m \in 1..Len(bus) : poller.frame.number <= bus[m].number
    /\ \A s \in Signals :
          /\ control.read[s] <= cache[s].value
          /\ cache[s].value <= Sent
          /\ \A m \in 1..Len(bus) : cache[s].value <= bus[m].number
          /\ Handled => cache[s].value <= poller.frame.number

ReadInv == TelemetryInRange /\ NumbersInOrder

LEMMA ReadInit == Init => ReadInv
  <1> SUFFICES ASSUME Init PROVE ReadInv
    OBVIOUS
  <1>1. /\ bus = <<>> /\ poller = Resting
        /\ cache = [s \in Signals |-> [value |-> 0, stamp |-> -1, valid |-> FALSE]]
        /\ control = [step |-> "off", read |-> NothingRead, todo |-> {}]
        /\ budget \in Budgets
    BY DEF Init, AdapterInit
  <1>2. ~Handled
    BY <1>1 DEF Handled, Resting
  <1>3. /\ control.read = NothingRead /\ NothingRead \in [Signals -> Nat]
        /\ \A s \in Signals : cache[s].value = 0 /\ NothingRead[s] = 0
    BY <1>1 DEF NothingRead
  <1>4. TelemetryInRange
    BY <1>1, <1>2, <1>3, BudgetsAssumption DEF TelemetryInRange, Handled
  <1>5. Sent \in Nat
    BY <1>1, BudgetsAssumption DEF Sent
  <1>6. NumbersInOrder
    BY <1>1, <1>2, <1>3, <1>5 DEF NumbersInOrder
  <1>7. QED
    BY <1>4, <1>6 DEF ReadInv

BudgetType ==
    [{"commands", "ticks", "frames", "frames0", "requests", "cycles", "starts"}
        -> Nat]

\* Spending anything but a frame leaves the number of frames sent alone.
LEMMA SpendOther ==
    ASSUME budget \in BudgetType,
           NEW what \in {"commands", "ticks", "requests", "cycles", "starts"},
           Spend(what)
    PROVE  budget' \in BudgetType /\ Sent' = Sent
  <1>1. budget' = [budget EXCEPT ![what] = budget[what] - 1] /\ budget[what] > 0
    BY DEF Spend
  <1>2. budget'.frames = budget.frames /\ budget'.frames0 = budget.frames0
    BY <1>1 DEF BudgetType
  <1>3. budget' \in BudgetType
    BY <1>1 DEF BudgetType
  <1>4. QED
    BY <1>2, <1>3 DEF Sent

LEMMA SignalsUntouched ==
    ASSUME ReadInv, UNCHANGED <<bus, poller, cache>>,
           control'.read = control.read, DOMAIN control' = DOMAIN control,
           budget' \in BudgetType, Sent' = Sent
    PROVE  ReadInv'
  <1>1. TelemetryInRange'
    BY DEF ReadInv, TelemetryInRange, Handled, BudgetType
  <1>2. NumbersInOrder'
    BY DEF ReadInv, NumbersInOrder, Handled
  <1>3. QED
    BY <1>1, <1>2 DEF ReadInv

\* A new frame carries a number no stage has seen.
LEMMA SensorSendsInv ==
    ASSUME ReadInv, SensorSends
    PROVE  ReadInv'
  <1>1. PICK kind \in Signals \cup {Other} : FrameArrives(kind, Sent + 1)
    BY DEF SensorSends, Sent
  <1> DEFINE new == [kind |-> kind, number |-> Sent + 1]
  <1>2. /\ bus' = Append(bus, new)
        /\ UNCHANGED <<poller, cache, control>>
    BY <1>1 DEF FrameArrives, SensorSends
  <1>3. Sent \in Nat /\ budget \in BudgetType /\ bus \in Seq(FrameType)
    BY DEF ReadInv, NumbersInOrder, TelemetryInRange, BudgetType
  <1>4. budget' \in BudgetType /\ Sent' = Sent + 1
    <2>1. /\ budget' = [budget EXCEPT !["frames"] = budget["frames"] - 1]
          /\ budget["frames"] > 0
      BY DEF SensorSends, Spend
    <2>2. /\ budget'.frames = budget.frames - 1 /\ budget'.frames0 = budget.frames0
          /\ budget.frames \in Nat /\ budget.frames0 \in Nat
      BY <1>3, <2>1 DEF BudgetType
    <2>3. budget' \in BudgetType
      BY <1>3, <2>1 DEF BudgetType
    <2>4. QED
      BY <2>2, <2>3 DEF Sent
  <1>5. new \in FrameType /\ new.number = Sent + 1
    BY <1>3 DEF FrameType
  <1> HIDE DEF new
  <1>6. /\ bus' \in Seq(FrameType) /\ Len(bus') = Len(bus) + 1
        /\ Len(bus) \in Nat
        /\ \A m \in 1..Len(bus) : bus'[m] = bus[m] /\ bus[m] \in FrameType
        /\ bus'[Len(bus) + 1] = new
    BY <1>2, <1>3, <1>5
  <1>7. TelemetryInRange'
    BY <1>2, <1>4, <1>6 DEF ReadInv, TelemetryInRange, Handled, BudgetType
  <1>8. \A m \in 1..Len(bus') : IF m = Len(bus) + 1 THEN bus'[m].number = Sent + 1
                                ELSE /\ m \in 1..Len(bus)
                                     /\ bus'[m].number = bus[m].number
                                     /\ bus'[m].number \in Nat
    BY <1>5, <1>6 DEF FrameType
  <1>9. /\ \A m \in 1..Len(bus') : bus'[m].number <= Sent'
        /\ \A m, n \in 1..Len(bus') : m < n => bus'[m].number <= bus'[n].number
    <2>1. ASSUME NEW m \in 1..Len(bus)
          PROVE  bus'[m].number = bus[m].number /\ bus'[m].number <= Sent
      BY <1>6 DEF ReadInv, NumbersInOrder
    <2>2. ASSUME NEW m \in 1..Len(bus') PROVE bus'[m].number <= Sent + 1
      BY <1>3, <1>8, <2>1
    <2>3. ASSUME NEW m \in 1..Len(bus'), NEW n \in 1..Len(bus'), m < n
          PROVE  bus'[m].number <= bus'[n].number
      <3>1. m \in 1..Len(bus)
        BY <1>6, <2>3
      <3>2. CASE n \in 1..Len(bus)
        BY <2>1, <2>3, <3>1, <3>2 DEF ReadInv, NumbersInOrder
      <3>3. CASE n = Len(bus) + 1
        BY <1>3, <1>8, <2>1, <3>1, <3>3
      <3>4. QED
        BY <1>6, <3>2, <3>3
    <2>4. QED
      BY <1>4, <2>2, <2>3
  <1>10. Handled' =>
            /\ poller'.frame.number <= Sent'
            /\ \A m \in 1..Len(bus') : poller'.frame.number <= bus'[m].number
    <2>1. SUFFICES ASSUME Handled
                   PROVE  /\ poller.frame.number <= Sent'
                          /\ \A m \in 1..Len(bus') : poller.frame.number <= bus'[m].number
      BY <1>2 DEF Handled
    <2>2. poller.frame.number \in Nat /\ poller.frame.number <= Sent
      BY <2>1 DEF ReadInv, TelemetryInRange, NumbersInOrder, FrameType
    <2>3. QED
      BY <1>3, <1>4, <1>8, <2>1, <2>2 DEF ReadInv, NumbersInOrder
  <1>11. \A s \in Signals :
            /\ control'.read[s] <= cache'[s].value
            /\ cache'[s].value <= Sent'
            /\ \A m \in 1..Len(bus') : cache'[s].value <= bus'[m].number
            /\ Handled' => cache'[s].value <= poller'.frame.number
    <2>1. SUFFICES ASSUME NEW s \in Signals
                   PROVE  /\ control.read[s] <= cache[s].value
                          /\ cache[s].value <= Sent'
                          /\ \A m \in 1..Len(bus') : cache[s].value <= bus'[m].number
                          /\ Handled => cache[s].value <= poller.frame.number
      BY <1>2 DEF Handled
    <2>2. cache[s].value \in Nat /\ cache[s].value <= Sent
      BY DEF ReadInv, TelemetryInRange, NumbersInOrder
    <2>3. QED
      BY <1>3, <1>4, <1>8, <2>2 DEF ReadInv, NumbersInOrder
  <1>12. NumbersInOrder'
    BY <1>3, <1>4, <1>9, <1>10, <1>11 DEF NumbersInOrder
  <1>13. QED
    BY <1>7, <1>12 DEF ReadInv

\* The poller takes the oldest frame, so what it holds is behind the rest.
LEMMA TakeFrameInv ==
    ASSUME ReadInv, TakeFrame, UNCHANGED <<control, budget>>
    PROVE  ReadInv'
  <1>1. /\ bus # <<>> /\ bus \in Seq(FrameType)
        /\ poller' = [step |-> "decoding", frame |-> Head(bus)]
        /\ bus' = Tail(bus) /\ cache' = cache
    BY DEF TakeFrame, ReadInv, TelemetryInRange
  <1>2. /\ Len(bus) \in Nat /\ Len(bus) >= 1 /\ Len(bus') = Len(bus) - 1
        /\ bus' \in Seq(FrameType) /\ Head(bus) = bus[1] /\ bus[1] \in FrameType
        /\ \A m \in 1..Len(bus') : bus'[m] = bus[m + 1] /\ m + 1 \in 1..Len(bus)
    BY <1>1
  <1>3. /\ poller'.frame = bus[1] /\ poller'.step = "decoding" /\ Handled'
        /\ Sent' = Sent
    BY <1>1, <1>2 DEF Handled, Sent
  <1>4. TelemetryInRange'
    BY <1>1, <1>2, <1>3 DEF ReadInv, TelemetryInRange
  <1>5. /\ \A m \in 1..Len(bus) : bus[m].number <= Sent
        /\ \A m, n \in 1..Len(bus) : m < n => bus[m].number <= bus[n].number
        /\ \A s \in Signals : /\ control.read[s] <= cache[s].value
                              /\ cache[s].value <= Sent
                              /\ \A m \in 1..Len(bus) : cache[s].value <= bus[m].number
        /\ Sent \in Nat
    BY DEF ReadInv, NumbersInOrder
  <1>6. ASSUME NEW m \in 1..Len(bus')
        PROVE  bus'[m].number <= Sent' /\ bus[1].number <= bus'[m].number
    <2>1. /\ bus'[m] = bus[m + 1] /\ m + 1 \in 1..Len(bus)
          /\ 1 \in 1..Len(bus) /\ 1 < m + 1
      BY <1>2
    <2> QED
      BY <1>3, <1>5, <2>1
  <1>7. ASSUME NEW m \in 1..Len(bus'), NEW n \in 1..Len(bus'), m < n
        PROVE  bus'[m].number <= bus'[n].number
    <2>1. /\ bus'[m] = bus[m + 1] /\ m + 1 \in 1..Len(bus)
          /\ bus'[n] = bus[n + 1] /\ n + 1 \in 1..Len(bus)
      BY <1>2
    <2>2. m + 1 < n + 1
      BY <1>2, <1>7
    <2> QED
      BY <1>5, <2>1, <2>2
  <1>8. 1 \in 1..Len(bus)
    BY <1>2
  <1>9. NumbersInOrder'
    BY <1>1, <1>2, <1>3, <1>5, <1>6, <1>7, <1>8 DEF NumbersInOrder
  <1>10. QED
    BY <1>4, <1>9 DEF ReadInv

LEMMA StampFrameInv ==
    ASSUME ReadInv, StampFrame, UNCHANGED <<control, budget>>
    PROVE  ReadInv'
  <1>1. /\ Handled /\ UNCHANGED <<bus, cache, control, budget>> /\ Sent' = Sent
        /\ \/ /\ poller.frame.kind \in Signals
              /\ poller' = [step |-> "storing", frame |-> poller.frame, time |-> clock]
           \/ poller' = Resting
    BY DEF StampFrame, Handled, Sent
  <1>2. /\ Handled' => poller'.frame = poller.frame
        /\ poller'.step = "storing" => poller.frame.kind \in Signals
    BY <1>1 DEF Handled, Resting
  <1>3. TelemetryInRange'
    BY <1>1, <1>2 DEF ReadInv, TelemetryInRange, Handled
  <1>4. NumbersInOrder'
    BY <1>1, <1>2 DEF ReadInv, NumbersInOrder
  <1>5. QED
    BY <1>3, <1>4 DEF ReadInv

LEMMA StoreSignalInv ==
    ASSUME ReadInv, StoreSignal, UNCHANGED <<control, budget>>
    PROVE  ReadInv'
  <1> DEFINE f == poller.frame
  <1>1. /\ Handled /\ poller.step = "storing" /\ f.kind \in Signals
        /\ f.number \in Nat /\ bus \in Seq(FrameType)
        /\ UNCHANGED <<bus, control, budget>> /\ Sent' = Sent
        /\ poller' = Resting
        /\ cache' = [cache EXCEPT ![f.kind] =
              [value |-> f.number, stamp |-> poller.time, valid |-> TRUE]]
    BY DEF StoreSignal, Handled, Sent, ReadInv, TelemetryInRange, FrameType
  <1>2. ~Handled' /\ DOMAIN cache = Signals
    BY <1>1 DEF Handled, Resting, ReadInv, TelemetryInRange
  <1>3. /\ DOMAIN cache' = Signals
        /\ \A s \in Signals : cache'[s].value = IF s = f.kind THEN f.number
                                                ELSE cache[s].value
    BY <1>1, <1>2
  <1>4. TelemetryInRange'
    BY <1>1, <1>2, <1>3 DEF ReadInv, TelemetryInRange, Handled
  <1>5. /\ f.number <= Sent
        /\ \A m \in 1..Len(bus) : f.number <= bus[m].number
        /\ cache[f.kind].value <= f.number
        /\ cache[f.kind].value \in Nat /\ control.read[f.kind] \in Nat
        /\ control.read[f.kind] <= cache[f.kind].value
    BY <1>1 DEF ReadInv, NumbersInOrder, TelemetryInRange
  <1>6. control.read[f.kind] <= f.number
    BY <1>1, <1>5
  <1>7. NumbersInOrder'
    BY <1>1, <1>2, <1>3, <1>5, <1>6 DEF ReadInv, NumbersInOrder
  <1>8. QED
    BY <1>4, <1>7 DEF ReadInv

\* What the control loop reads is what the cache holds.
LEMMA ReadSignalInv ==
    ASSUME ReadInv, NEW s \in Signals, ReadSignal(s)
    PROVE  /\ ReadInv'
           /\ \A u \in Signals : control'.read[u] >= control.read[u]
  <1>1. /\ UNCHANGED <<bus, poller, cache, budget>> /\ Sent' = Sent
        /\ DOMAIN control = {"step", "read", "todo"}
        /\ control.read \in [Signals -> Nat]
        /\ \A u \in Signals : cache[u].value \in Nat /\ control.read[u] <= cache[u].value
    BY DEF ReadSignal, ControlOnly, adapterVars, Sent, ReadInv, TelemetryInRange,
           NumbersInOrder
  <1>2. CASE control' = [control EXCEPT !.read[s] = cache[s].value,
                                        !.todo = control.todo \ {s}]
    <2>1. /\ control'.read = [control.read EXCEPT ![s] = cache[s].value]
          /\ DOMAIN control' = DOMAIN control
      BY <1>1, <1>2
    <2>2. TelemetryInRange'
      BY <1>1, <2>1 DEF ReadInv, TelemetryInRange, Handled
    <2>3. NumbersInOrder'
      BY <1>1, <2>1 DEF ReadInv, NumbersInOrder, Handled
    <2>4. QED
      BY <1>1, <2>1, <2>2, <2>3 DEF ReadInv
  <1>3. CASE control' = [control EXCEPT !.step = "loop"]
    <2>1. control'.read = control.read /\ DOMAIN control' = DOMAIN control
      BY <1>1, <1>3
    <2>2. budget' \in BudgetType
      BY <1>1 DEF ReadInv, TelemetryInRange, BudgetType
    <2>3. QED
      BY <1>1, <2>1, <2>2, SignalsUntouched
  <1>4. QED
    BY <1>2, <1>3 DEF ReadSignal, Goto

\* The rest of the system neither handles frames nor reads signals.
LEMMA ElsewhereReads ==
    ASSUME ReadInv,
           \/ ClockAdvances \/ CommandStarts \/ CommandGoesOn \/ Connect \/ Serve
           \/ AcceptDisturbed \/ Start \/ BeginCycle \/ PublishStates
           \/ PublishSafety \/ PublishEnergy \/ Stop \/ Stopping \/ UNCHANGED vars
    PROVE  ReadInv' /\ control'.read = control.read
  <1>1. budget \in BudgetType /\ DOMAIN control = {"step", "read", "todo"}
    BY DEF ReadInv, TelemetryInRange, BudgetType
  <1>2. UNCHANGED <<bus, poller, cache>>
    BY DEF ClockAdvances, Tick, CommandStarts, BeginCommand, CommandGoesOn,
           SendCommand, StoreFlag, Connect, Serve, AcceptDisturbed, Start,
           BeginCycle, PublishStates, PublishSafety, PublishEnergy, Stop,
           Stopping, ControlOnly, vars, adapterVars, signalVars
  <1>3. budget' \in BudgetType /\ Sent' = Sent
    <2>1. CASE ClockAdvances \/ CommandStarts \/ Connect \/ AcceptDisturbed
                \/ Start \/ BeginCycle
      BY <1>1, <2>1, SpendOther
      DEF ClockAdvances, CommandStarts, Connect, AcceptDisturbed, Start, BeginCycle
    <2>2. CASE budget' = budget
      BY <1>1, <2>2 DEF Sent
    <2>3. QED
      BY <2>1, <2>2
      DEF CommandGoesOn, Serve, PublishStates, PublishSafety, PublishEnergy,
          Stop, Stopping, ControlOnly, vars
  <1>4. control'.read = control.read /\ DOMAIN control' = DOMAIN control
    <2>1. CASE control' = control
      BY <2>1
    <2>2. ASSUME NEW step, Goto(step)
          PROVE  control'.read = control.read /\ DOMAIN control' = DOMAIN control
      BY <1>1, <2>2 DEF Goto
    <2>3. CASE BeginCycle
      BY <1>1, <2>3 DEF BeginCycle
    <2>4. QED
      BY <2>1, <2>2, <2>3
      DEF ClockAdvances, CommandStarts, CommandGoesOn, Connect, Serve,
          AcceptDisturbed, Start, PublishStates, PublishSafety, PublishEnergy,
          Stop, Stopping, vars
  <1>5. QED
    BY <1>2, <1>3, <1>4, SignalsUntouched

LEMMA ReadNext ==
    ASSUME ReadInv, [Next]_vars
    PROVE  ReadInv' /\ \A s \in Signals : control'.read[s] >= control.read[s]
  <1>1. ASSUME control'.read = control.read
        PROVE  \A s \in Signals : control'.read[s] >= control.read[s]
    BY <1>1 DEF ReadInv, TelemetryInRange
  <1>2. CASE SensorSends
    BY <1>1, <1>2, SensorSendsInv DEF SensorSends
  <1>3. CASE Poll
    BY <1>1, <1>3, TakeFrameInv, StampFrameInv, StoreSignalInv DEF Poll
  <1>4. ASSUME NEW s \in Signals, ReadSignal(s)
        PROVE  ReadInv' /\ \A u \in Signals : control'.read[u] >= control.read[u]
    BY <1>4, ReadSignalInv
  <1>5. QED
    BY <1>1, <1>2, <1>3, <1>4, ElsewhereReads DEF Next, Control

\* What the control loop reads of a signal is never older than what it read
\* before: for any number of signals, frames and clock steps, over a transport
\* that keeps the frames in order and has one poller.
THEOREM ReadingsCorrect == Spec => ReadingsNeverGoBack
  <1>1. ReadInv /\ [Next]_vars => ReadInv'
    BY ReadNext
  <1>2. ReadInv /\ [Next]_vars =>
           [\A s \in Signals : control'.read[s] >= control.read[s]]_vars
    BY ReadNext
  <1>3. QED
    BY ReadInit, <1>1, <1>2, PTL DEF Spec, ReadingsNeverGoBack

-----------------------------------------------------------------------------
(***************************************************************************)
(* The snapshot and the responses.  Whoever changes the snapshot or reads  *)
(* it in more than one step holds the mutex, so the stamp the server read  *)
(* first still belongs to the fields it reads later.                       *)
(***************************************************************************)
StatesOf(cycles, stamp) == IF stamp = 0 THEN NoReading ELSE cycles[stamp]

\* What AnswersAreWhole says, of any response and any published cycles.
Whole(a, cycles) ==
    /\ a.step \in {"state", "energy"} =>
          a.stamp \in 0..Len(cycles) /\ a.seen \in Nat /\ a.stamp >= a.seen
    /\ a.step = "state" => a.states = StatesOf(cycles, a.stamp)
    /\ a.step = "energy" =>
          a.safety = a.stamp /\ a.energy \in {a.stamp - 1, a.stamp}
    /\ a.step = "health" =>
          a.stats.total = a.stats.successful + a.stats.failed + 1

Serving == server.step \in {"recv", "route", "reading", "send"}

SnapshotInv ==
    /\ published \in Seq([Signals -> Nat])
    /\ snapshot \in [stamp : Nat, states : [Signals -> Nat] \cup {NoReading},
                     safety : Nat, energy : Nat]
    /\ snapshot.stamp = Len(published)
    /\ snapshot.states = StatesOf(published, snapshot.stamp)
    /\ control.step # "safety" => snapshot.safety = snapshot.stamp
    /\ snapshot.energy = IF control.step \in {"safety", "energy"}
                         THEN snapshot.stamp - 1 ELSE snapshot.stamp

MutexInv ==
    /\ mutex \in {"free", "owner", "server"}
    /\ mutex = "owner" <=> control.step = "safety"
    /\ mutex = "server" <=> server.step = "reading"

ServerInv ==
    /\ server.step = "route" => server.seen \in 0..snapshot.stamp
    /\ server.step = "reading" =>
          /\ server.kind \in {"state", "energy"}
          /\ server.seen \in 0..snapshot.stamp
          /\ server.stamp = snapshot.stamp
    /\ server.step = "send" => Whole(server.answer, published)
    /\ control.step \in {"off", "failed"} => server.step = "none"

StatsInv ==
    /\ stats \in [total : Nat, successful : Nat, failed : Nat]
    /\ stats.total = stats.successful + stats.failed + (IF Serving THEN 1 ELSE 0)

AnswerInv ==
    /\ SnapshotInv /\ MutexInv /\ ServerInv /\ StatsInv
    /\ Whole(answer, published)

LEMMA AnswerInit == Init => AnswerInv
  <1> SUFFICES ASSUME Init PROVE AnswerInv
    OBVIOUS
  <1>1. /\ published = <<>> /\ control.step = "off" /\ server.step = "none"
        /\ mutex = "free" /\ answer.step = "none"
        /\ snapshot = [stamp |-> 0, states |-> NoReading, safety |-> 0, energy |-> 0]
        /\ stats = [total |-> 0, successful |-> 0, failed |-> 0]
    BY DEF Init, RestInit, At, NoAnswer
  <1>2. SnapshotInv
    BY <1>1 DEF SnapshotInv, StatesOf
  <1>3. MutexInv /\ ServerInv
    BY <1>1 DEF MutexInv, ServerInv
  <1>4. StatsInv
    BY <1>1 DEF StatsInv, Serving
  <1>5. Whole(answer, published)
    BY <1>1 DEF Whole
  <1>6. QED
    BY <1>2, <1>3, <1>4, <1>5 DEF AnswerInv

\* A response stays whole while further cycles are published.
LEMMA WholeLasts ==
    ASSUME NEW S, NEW cycles \in Seq(S), NEW next \in S, NEW a, Whole(a, cycles)
    PROVE  Whole(a, Append(cycles, next))
  <1> DEFINE longer == Append(cycles, next)
  <1>1. /\ Len(cycles) \in Nat /\ Len(longer) = Len(cycles) + 1
        /\ \A n \in 1..Len(cycles) : longer[n] = cycles[n]
    OBVIOUS
  <1> HIDE DEF longer
  <1>2. CASE a.step = "state"
    <2>1. a.stamp \in 0..Len(cycles) /\ a.seen \in Nat /\ a.stamp >= a.seen
      BY <1>2 DEF Whole
    <2>2. a.stamp \in 0..Len(longer)
      BY <1>1, <2>1
    <2>3. StatesOf(longer, a.stamp) = StatesOf(cycles, a.stamp)
      BY <1>1, <2>1 DEF StatesOf
    <2>4. QED
      BY <1>2, <2>1, <2>2, <2>3 DEF Whole, longer
  <1>3. CASE a.step = "energy"
    <2>1. a.stamp \in 0..Len(cycles)
      BY <1>3 DEF Whole
    <2>2. a.stamp \in 0..Len(longer)
      BY <1>1, <2>1
    <2>3. QED
      BY <1>3, <2>2 DEF Whole, longer
  <1>4. CASE a.step \notin {"state", "energy"}
    BY <1>4 DEF Whole
  <1>5. QED
    BY <1>2, <1>3, <1>4

-----------------------------------------------------------------------------
(***************************************************************************)
(* The server thread.  None of its steps concerns the control loop.        *)
(***************************************************************************)
Watched == <<control, published, snapshot>>

\* A step that serves nobody before and after it, or goes on serving.
LEMMA ServerGoesOn ==
    ASSUME AnswerInv, UNCHANGED Watched, UNCHANGED <<mutex, stats, answer>>,
           server.step \notin {"none", "reading"},
           server'.step \notin {"none", "reading"},
           Serving' <=> Serving,
           server'.step = "route" => server'.seen \in 0..snapshot.stamp,
           server'.step = "send" => Whole(server'.answer, published)
    PROVE  AnswerInv'
  <1>1. SnapshotInv'
    BY DEF AnswerInv, SnapshotInv, Watched
  <1>2. MutexInv'
    BY DEF AnswerInv, MutexInv, Watched
  <1>3. ServerInv'
    BY DEF AnswerInv, ServerInv, Watched
  <1>4. StatsInv'
    BY DEF AnswerInv, StatsInv
  <1>5. Whole(answer, published)'
    BY DEF AnswerInv, Watched
  <1>6. QED
    BY <1>1, <1>2, <1>3, <1>4, <1>5 DEF AnswerInv

LEMMA ServeWaiting ==
    ASSUME AnswerInv, UNCHANGED <<control, published>>,
           TestRunning \/ CallAccept \/ AcceptFails
    PROVE  AnswerInv'
  <1>1. /\ UNCHANGED Watched /\ UNCHANGED <<mutex, stats, answer>>
        /\ server.step \in {"test", "woken", "accept", "blocked"}
        /\ server'.step \in {"accept", "done", "blocked", "woken"}
    BY DEF TestRunning, CallAccept, AcceptFails, At, Watched, lifeVars
  <1>2. ~Serving /\ ~Serving'
    BY <1>1 DEF Serving
  <1>3. QED
    BY <1>1, <1>2, ServerGoesOn

\* The counters of the requests move with the request being served.
LEMMA ServeCounted ==
    ASSUME AnswerInv, UNCHANGED <<control, published>>,
           Accept \/ ReceiveNothing \/ Send
    PROVE  AnswerInv'
  <1>1. /\ UNCHANGED Watched /\ mutex' = mutex
        /\ server.step \in {"blocked", "recv", "send"}
        /\ server'.step \in {"recv", "test"}
    BY DEF Accept, ReceiveNothing, Send, At, Watched, lifeVars
  <1>2. SnapshotInv' /\ MutexInv' /\ ServerInv'
    BY <1>1 DEF AnswerInv, SnapshotInv, MutexInv, ServerInv, Watched
  <1>3. stats \in [total : Nat, successful : Nat, failed : Nat]
    BY DEF AnswerInv, StatsInv
  <1>4. CASE Accept
    <2>1. ~Serving /\ Serving' /\ stats' = [stats EXCEPT !.total = @ + 1]
      BY <1>4 DEF Accept, Serving, At
    <2>2. StatsInv'
      BY <1>3, <2>1 DEF AnswerInv, StatsInv
    <2>3. Whole(answer, published)'
      BY <1>4 DEF Accept, AnswerInv
    <2>4. QED
      BY <1>2, <2>2, <2>3 DEF AnswerInv
  <1>5. CASE ReceiveNothing
    <2>1. Serving /\ ~Serving' /\ stats' = [stats EXCEPT !.failed = @ + 1]
      BY <1>5 DEF ReceiveNothing, Serving, At
    <2>2. StatsInv'
      BY <1>3, <2>1 DEF AnswerInv, StatsInv
    <2>3. Whole(answer, published)'
      BY <1>5 DEF ReceiveNothing, AnswerInv
    <2>4. QED
      BY <1>2, <2>2, <2>3 DEF AnswerInv
  <1>6. CASE Send
    <2>1. /\ Serving /\ ~Serving'
          /\ \/ stats' = [stats EXCEPT !.failed = @ + 1]
             \/ stats' = [stats EXCEPT !.successful = @ + 1]
      BY <1>6 DEF Send, Serving, At
    <2>2. StatsInv'
      BY <1>3, <2>1 DEF AnswerInv, StatsInv
    <2>3. Whole(answer, published)'
      BY <1>6 DEF Send, AnswerInv, ServerInv
    <2>4. QED
      BY <1>2, <2>2, <2>3 DEF AnswerInv
  <1>7. QED
    BY <1>4, <1>5, <1>6

LEMMA ServeRouted ==
    ASSUME AnswerInv, UNCHANGED <<control, published>>,
           \/ \E kind \in Kinds : Receive(kind)
           \/ AnswerError \/ AnswerHealth
    PROVE  AnswerInv'
  <1>1. CASE \E kind \in Kinds : Receive(kind)
    <2>1. /\ UNCHANGED Watched /\ UNCHANGED <<mutex, stats, answer>>
          /\ server.step = "recv" /\ server'.step = "route"
          /\ server'.seen = snapshot.stamp
      BY <1>1 DEF Receive, Watched, lifeVars
    <2>2. snapshot.stamp \in 0..snapshot.stamp
      BY DEF AnswerInv, SnapshotInv
    <2>3. Serving /\ Serving'
      BY <2>1 DEF Serving
    <2>4. QED
      BY <2>1, <2>2, <2>3, ServerGoesOn
  <1>2. CASE AnswerError
    <2>1. /\ UNCHANGED Watched /\ UNCHANGED <<mutex, stats, answer>>
          /\ server.step = "route" /\ server'.step = "send"
          /\ server'.answer.step = "refused"
      BY <1>2 DEF AnswerError, Watched, lifeVars
    <2>2. Serving /\ Serving' /\ Whole(server'.answer, published)
      BY <2>1 DEF Serving, Whole
    <2>3. QED
      BY <2>1, <2>2, ServerGoesOn
  <1>3. CASE AnswerHealth
    <2>1. /\ UNCHANGED Watched /\ UNCHANGED <<mutex, stats, answer>>
          /\ server.step = "route" /\ server'.step = "send"
          /\ server'.answer.step = "health" /\ server'.answer.stats = stats
      BY <1>3 DEF AnswerHealth, Watched, lifeVars
    <2>2. Serving /\ Serving'
      BY <2>1 DEF Serving
    <2>3. stats.total = stats.successful + stats.failed + 1
      BY <2>2 DEF AnswerInv, StatsInv
    <2>4. Whole(server'.answer, published)
      BY <2>1, <2>3 DEF Whole
    <2>5. QED
      BY <2>1, <2>2, <2>4, ServerGoesOn
  <1>4. QED
    BY <1>1, <1>2, <1>3

\* With the mutex in hand, the stamp the server read stays the snapshot's.
LEMMA ServeReading ==
    ASSUME AnswerInv, UNCHANGED <<control, published>>,
           LockAndRead \/ ReadStates \/ ReadEnergy
    PROVE  AnswerInv'
  <1>1. UNCHANGED Watched /\ UNCHANGED <<stats, answer>>
    BY DEF LockAndRead, ReadStates, ReadEnergy, Respond, Watched
  <1>2. server.step \in {"route", "reading"} /\ server'.step \in {"reading", "send"}
    BY DEF LockAndRead, ReadStates, ReadEnergy, Respond
  <1>3. Serving /\ Serving'
    BY <1>2 DEF Serving
  <1>4. SnapshotInv' /\ StatsInv' /\ Whole(answer, published)'
    BY <1>1, <1>3 DEF AnswerInv, SnapshotInv, StatsInv, Watched
  <1>5. CASE LockAndRead
    <2>1. /\ server.step = "route" /\ server'.step = "reading"
          /\ mutex = "free" /\ mutex' = "server"
          /\ server'.kind \in {"state", "energy"}
          /\ server'.seen = server.seen /\ server'.stamp = snapshot.stamp
      BY <1>5 DEF LockAndRead
    <2>2. MutexInv' /\ ServerInv'
      BY <1>1, <2>1 DEF AnswerInv, MutexInv, ServerInv, Watched
    <2>3. QED
      BY <1>4, <2>2 DEF AnswerInv
  <1>6. CASE ReadStates \/ ReadEnergy
    <2>1. /\ server.step = "reading" /\ server'.step = "send"
          /\ mutex' = "free" /\ server'.answer.stamp = server.stamp
          /\ server'.answer.seen = server.seen
          /\ \/ /\ server'.answer.step = "state"
                /\ server'.answer.states = snapshot.states
             \/ /\ server'.answer.step = "energy"
                /\ server'.answer.energy = snapshot.energy
                /\ server'.answer.safety = snapshot.safety
      BY <1>6 DEF ReadStates, ReadEnergy, Respond
    <2>2. /\ server.stamp = snapshot.stamp /\ server.seen \in 0..snapshot.stamp
          /\ mutex = "server" /\ control.step # "safety"
          /\ snapshot.safety = snapshot.stamp /\ snapshot.stamp = Len(published)
          /\ snapshot.stamp \in Nat
          /\ snapshot.energy \in {snapshot.stamp - 1, snapshot.stamp}
          /\ snapshot.states = StatesOf(published, snapshot.stamp)
      BY <2>1 DEF AnswerInv, ServerInv, MutexInv, SnapshotInv
    <2>3. Whole(server'.answer, published)
      BY <2>1, <2>2 DEF Whole
    <2>4. MutexInv' /\ ServerInv'
      BY <1>1, <2>1, <2>2, <2>3 DEF AnswerInv, MutexInv, ServerInv, Watched
    <2>5. QED
      BY <1>4, <2>4 DEF AnswerInv
  <1>7. QED
    BY <1>5, <1>6

-----------------------------------------------------------------------------
(***************************************************************************)
(* The control thread.                                                     *)
(***************************************************************************)

\* A step outside the publication, that leaves what is being served alone.
LEMMA ControlMoves ==
    ASSUME AnswerInv, UNCHANGED <<published, snapshot, mutex, stats, answer>>,
           control.step \notin {"safety", "energy"},
           control'.step \notin {"safety", "energy"},
           server' = server \/ (~Serving /\ ~Serving'),
           control'.step \in {"off", "failed"} => server'.step = "none"
    PROVE  AnswerInv'
  <1>1. SnapshotInv'
    BY DEF AnswerInv, SnapshotInv
  <1>2. MutexInv'
    BY DEF AnswerInv, MutexInv, Serving
  <1>3. ServerInv'
    BY DEF AnswerInv, ServerInv, Serving
  <1>4. StatsInv'
    BY DEF AnswerInv, StatsInv, Serving
  <1>5. QED
    BY <1>1, <1>2, <1>3, <1>4 DEF AnswerInv

\* start() finds no server thread: the previous one was joined.
LEMMA ControlStart ==
    ASSUME ReadInv, AnswerInv, Start
    PROVE  AnswerInv'
  <1>1. /\ control.step = "off" /\ server.step = "none" /\ published' = published
        /\ DOMAIN control = {"step", "read", "todo"}
    BY DEF Start, AnswerInv, ServerInv, ReadInv, TelemetryInRange
  <1>2. CASE StartListening /\ Goto("loop")
    <2>1. UNCHANGED <<snapshot, mutex, stats, answer>> /\ server'.step = "test"
      BY <1>2 DEF StartListening, At
    <2>2. control'.step = "loop"
      BY <1>1, <1>2 DEF Goto
    <2>3. ~Serving /\ ~Serving'
      BY <1>1, <2>1 DEF Serving
    <2>4. QED
      BY <1>1, <2>1, <2>2, <2>3, ControlMoves
  <1>3. CASE StartThrows /\ Goto("failed")
    <2>1. UNCHANGED <<snapshot, mutex, stats, answer, server>>
      BY <1>3 DEF StartThrows
    <2>2. control'.step = "failed"
      BY <1>1, <1>3 DEF Goto
    <2>3. QED
      BY <1>1, <2>1, <2>2, ControlMoves
  <1>4. CASE StartRefused /\ UNCHANGED control
    <2>1. UNCHANGED <<snapshot, mutex, stats, answer, server>>
      BY <1>4 DEF StartRefused, restVars
    <2>2. QED
      BY <1>1, <1>4, <2>1, ControlMoves
  <1>5. QED
    BY <1>2, <1>3, <1>4 DEF Start

LEMMA ControlReads ==
    ASSUME ReadInv, AnswerInv, BeginCycle \/ \E s \in Signals : ReadSignal(s)
    PROVE  AnswerInv'
  <1>1. /\ UNCHANGED <<published, snapshot, mutex, stats, answer, server>>
        /\ control.step \in {"loop", "reading"}
    BY DEF BeginCycle, ReadSignal, ControlOnly, restVars
  <1>2. control'.step \in {"loop", "reading"}
    <2>1. DOMAIN control = {"step", "read", "todo"}
      BY DEF ReadInv, TelemetryInRange
    <2>2. QED
      BY <1>1, <2>1 DEF BeginCycle, ReadSignal, Goto
  <1>3. QED
    BY <1>1, <1>2, ControlMoves

\* update_state publishes a cycle: the responses before it stay whole, and no
\* response is being read, for the mutex was free.
LEMMA ControlPublishes ==
    ASSUME ReadInv, AnswerInv, PublishStates
    PROVE  AnswerInv'
  <1> DEFINE read == control.read
             longer == Append(published, read)
  <1>1. /\ control.step = "reading" /\ mutex = "free" /\ mutex' = "owner"
        /\ published' = longer /\ read \in [Signals -> Nat]
        /\ snapshot' = [snapshot EXCEPT !.stamp = @ + 1, !.states = read]
        /\ UNCHANGED <<server, stats, answer>>
        /\ control'.step = "safety"
    BY DEF PublishStates, WriteStates, Goto, ReadInv, TelemetryInRange
  <1>2. /\ published \in Seq([Signals -> Nat])
        /\ snapshot \in [stamp : Nat, states : [Signals -> Nat] \cup {NoReading},
                         safety : Nat, energy : Nat]
        /\ snapshot.stamp = Len(published) /\ snapshot.energy = snapshot.stamp
    BY <1>1 DEF AnswerInv, SnapshotInv
  <1>3. /\ longer \in Seq([Signals -> Nat]) /\ Len(longer) = Len(published) + 1
        /\ longer[Len(published) + 1] = read /\ Len(published) \in Nat
    BY <1>1, <1>2
  <1>4. /\ snapshot'.stamp = snapshot.stamp + 1 /\ snapshot'.states = read
        /\ snapshot'.energy = snapshot.energy /\ snapshot'.safety = snapshot.safety
        /\ snapshot' \in [stamp : Nat, states : [Signals -> Nat] \cup {NoReading},
                          safety : Nat, energy : Nat]
    <2> HIDE DEF longer, read
    <2>1. /\ read \in [Signals -> Nat] \cup {NoReading}
          /\ snapshot.stamp \in Nat
          /\ snapshot' = [snapshot EXCEPT !.stamp = snapshot.stamp + 1, !.states = read]
      BY <1>1, <1>2
    <2>2. /\ snapshot'.stamp = snapshot.stamp + 1 /\ snapshot'.states = read
          /\ snapshot'.energy = snapshot.energy /\ snapshot'.safety = snapshot.safety
      BY <1>2, <2>1
    <2>3. snapshot' \in [stamp : Nat, states : [Signals -> Nat] \cup {NoReading},
                         safety : Nat, energy : Nat]
      <3> DEFINE States == [Signals -> Nat] \cup {NoReading}
      <3>1. snapshot \in [stamp : Nat, states : States, safety : Nat, energy : Nat]
        BY <1>2
      <3>2. read \in States /\ snapshot.stamp + 1 \in Nat
        BY <2>1
      <3> HIDE DEF States
      <3>3. snapshot' \in [stamp : Nat, states : States, safety : Nat, energy : Nat]
        BY <2>1, <3>1, <3>2
      <3>4. QED
        BY <3>3 DEF States
    <2>4. QED
      BY <2>2, <2>3
  <1> HIDE DEF longer, read
  <1>5. StatesOf(longer, snapshot.stamp + 1) = read
    BY <1>2, <1>3 DEF StatesOf
  <1>6. SnapshotInv'
    <2>1. snapshot'.stamp = Len(longer) /\ snapshot'.energy = snapshot'.stamp - 1
      BY <1>2, <1>3, <1>4
    <2>2. snapshot'.states = StatesOf(longer, snapshot'.stamp)
      BY <1>4, <1>5
    <2>3. QED
      BY <1>1, <1>3, <1>4, <2>1, <2>2 DEF SnapshotInv
  <1>7. MutexInv'
    BY <1>1 DEF AnswerInv, MutexInv
  <1>8. Whole(answer, longer) /\ (server.step = "send" => Whole(server.answer, longer))
    BY <1>1, <1>2, WholeLasts DEF longer, AnswerInv, ServerInv
  <1>9. ServerInv'
    <2>1. server.step # "reading"
      BY <1>1 DEF AnswerInv, MutexInv
    <2>2. server.step = "route" => server.seen \in 0..snapshot'.stamp
      BY <1>2, <1>4 DEF AnswerInv, ServerInv
    <2>3. QED
      BY <1>1, <1>8, <2>1, <2>2 DEF ServerInv
  <1>10. StatsInv'
    BY <1>1 DEF AnswerInv, StatsInv, Serving
  <1>11. QED
    BY <1>1, <1>6, <1>7, <1>8, <1>9, <1>10 DEF AnswerInv

\* update_safety_status and update_energy_cycle bring the rest up to the stamp.
LEMMA ControlCompletes ==
    ASSUME ReadInv, AnswerInv, PublishSafety \/ PublishEnergy
    PROVE  AnswerInv'
  <1>1. /\ UNCHANGED <<published, server, stats, answer>> /\ mutex' = "free"
        /\ DOMAIN control = {"step", "read", "todo"}
        /\ snapshot \in [stamp : Nat, states : [Signals -> Nat] \cup {NoReading},
                         safety : Nat, energy : Nat]
    BY DEF PublishSafety, PublishEnergy, WriteSafety, WriteEnergy, ControlOnly,
           ReadInv, TelemetryInRange, AnswerInv, SnapshotInv
  <1>2. CASE PublishSafety
    <2>1. /\ control.step = "safety" /\ control'.step = "energy" /\ mutex = "owner"
          /\ snapshot' = [snapshot EXCEPT !.safety = snapshot.stamp]
      BY <1>1, <1>2 DEF PublishSafety, WriteSafety, Goto
    <2>2. SnapshotInv'
      BY <1>1, <2>1 DEF AnswerInv, SnapshotInv
    <2>3. MutexInv'
      BY <1>1, <2>1 DEF AnswerInv, MutexInv
    <2>4. ServerInv' /\ StatsInv'
      BY <1>1, <2>1 DEF AnswerInv, ServerInv, StatsInv, Serving
    <2>5. QED
      BY <1>1, <2>2, <2>3, <2>4 DEF AnswerInv
  <1>3. CASE PublishEnergy
    <2>1. /\ control.step = "energy" /\ control'.step = "loop" /\ mutex = "free"
          /\ snapshot' = [snapshot EXCEPT !.energy = snapshot.stamp]
      BY <1>1, <1>3 DEF PublishEnergy, WriteEnergy, Goto
    <2>2. SnapshotInv'
      BY <1>1, <2>1 DEF AnswerInv, SnapshotInv
    <2>3. MutexInv'
      BY <1>1, <2>1 DEF AnswerInv, MutexInv
    <2>4. ServerInv' /\ StatsInv'
      BY <1>1, <2>1 DEF AnswerInv, ServerInv, StatsInv, Serving
    <2>5. QED
      BY <1>1, <2>2, <2>3, <2>4 DEF AnswerInv
  <1>4. QED
    BY <1>2, <1>3

\* stop() ends the thread before it returns, and serves nobody.
LEMMA ControlStops ==
    ASSUME ReadInv, AnswerInv, Stop \/ Stopping
    PROVE  AnswerInv'
  <1>1. /\ UNCHANGED <<published, snapshot, mutex, stats, answer>>
        /\ DOMAIN control = {"step", "read", "todo"}
        /\ control.step \in {"loop", "failed", "stopping"}
    BY DEF Stop, StopBegin, Stopping, ShutListener, CloseListener, Join,
           ControlOnly, ReadInv, TelemetryInRange
  <1>2. CASE Stop
    <2>1. server' = server /\ control'.step = "stopping"
      BY <1>1, <1>2 DEF Stop, StopBegin, Goto
    <2>2. QED
      BY <1>1, <2>1, ControlMoves
  <1>3. CASE ShutListener /\ control' = control
    <2>1. server' = server \/ (server.step = "blocked" /\ server'.step = "woken")
      BY <1>3 DEF ShutListener, At
    <2>2. server' = server \/ (~Serving /\ ~Serving')
      BY <2>1 DEF Serving
    <2>3. control'.step \in {"off", "failed"} => server'.step = "none"
      BY <1>3, <2>1 DEF AnswerInv, ServerInv
    <2>4. QED
      BY <1>1, <1>3, <2>2, <2>3, ControlMoves
  <1>4. CASE CloseListener /\ control' = control
    BY <1>1, <1>4, ControlMoves DEF CloseListener, AnswerInv, ServerInv
  <1>5. CASE Join /\ Goto("off")
    <2>1. /\ server.step \in {"none", "done"} /\ server'.step = "none"
          /\ control'.step = "off"
      BY <1>1, <1>5 DEF Join, Goto, At
    <2>2. ~Serving /\ ~Serving'
      BY <2>1 DEF Serving
    <2>3. QED
      BY <1>1, <2>1, <2>2, ControlMoves
  <1>6. QED
    BY <1>2, <1>3, <1>4, <1>5 DEF Stopping

\* Nothing the responses depend on changed.
LEMMA AnswersUntouched ==
    ASSUME AnswerInv,
           UNCHANGED <<published, control, snapshot, mutex, server, stats, answer>>
    PROVE  AnswerInv'
  BY DEF AnswerInv, SnapshotInv, MutexInv, ServerInv, StatsInv, Serving

LEMMA AnswerNext ==
    ASSUME ReadInv, AnswerInv, [Next]_vars
    PROVE  AnswerInv'
  <1>1. CASE ClockAdvances \/ SensorSends \/ Poll \/ CommandStarts
             \/ CommandGoesOn \/ Connect
    BY <1>1, AnswersUntouched
    DEF ClockAdvances, SensorSends, Poll, CommandStarts, CommandGoesOn, Connect,
        ClientConnects, restVars
  <1>2. CASE Serve \/ AcceptDisturbed
    BY <1>2, ServeWaiting, ServeCounted, ServeRouted, ServeReading
    DEF Serve, AcceptDisturbed, ServerStep, ReceiveEnds
  <1>3. CASE Start \/ Stop \/ Stopping
    BY <1>3, ControlStart, ControlStops
  <1>4. CASE Control
    BY <1>4, ControlReads, ControlPublishes, ControlCompletes DEF Control
  <1>5. CASE UNCHANGED vars
    BY <1>5, AnswersUntouched DEF vars, restVars
  <1>6. QED
    BY <1>1, <1>2, <1>3, <1>4, <1>5 DEF Next

\* A client never sees two publications mixed, nothing in a response is older
\* than what was published when its request was read, and the counters of
\* /health add up: for any number of clients and cycles.
THEOREM AnswersCorrect == Spec => []AnswersAreWhole
  <1>1. ReadInv /\ AnswerInv /\ [Next]_vars => ReadInv' /\ AnswerInv'
    BY ReadNext, AnswerNext
  <1>2. AnswerInv => AnswersAreWhole
    BY DEF AnswerInv, Whole, StatesOf, AnswersAreWhole
  <1>3. QED
    BY ReadInit, AnswerInit, <1>1, <1>2, PTL DEF Spec
=============================================================================
