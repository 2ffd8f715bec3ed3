-------------------------- MODULE HardwareAdapter --------------------------
(***************************************************************************)
(* DSHardwareAdapter of src/ds_bms_hardware_adapter.hpp: a clock set from  *)
(* outside, the thread that drains the CAN transport into a cache of       *)
(* stamped signals, and commanders that switch the two contactors.         *)
(*                                                                         *)
(* A CAN frame carries no time: it is stamped when it is drained, however  *)
(* long it waited in the driver.  A value is the number of the frame it    *)
(* was decoded from.  The external clock is taken to be monotonic, as the  *)
(* adapter's comments demand.                                              *)
(*                                                                         *)
(* Two things the code leaves to its integrator are ASSUMED here: that the *)
(* transport hands frames out in the order they arrived (ICANTransport     *)
(* says nothing of it), and that poll_can runs on one thread, the control  *)
(* loop's or one of its own.  With either broken, an older frame could be  *)
(* drained after a newer one and nothing in the adapter would notice.      *)
(*                                                                         *)
(* Cells read through the optional backend and the balancing mask are      *)
(* stateless copies and are left out.                                      *)
(***************************************************************************)
EXTENDS Integers, Sequences

CONSTANTS
    Signals,      \* the pack signals the map has identifiers for
    Other,        \* a frame of another identifier, or shorter than two bytes
    MaxAge,       \* max_signal_age_s
    Commanders    \* the threads that command contactors

ASSUME HardwareAdapterAssumption == MaxAge \in Nat /\ Other \notin Signals

Contactors == {"discharge", "charge"}
Paired(c) == IF c = "discharge" THEN "charge" ELSE "discharge"

VARIABLES
    clock,        \* now_s_
    bus,          \* the frames the transport holds
    poller,       \* poll_can: the frame in hand and its stamp
    cache,        \* the four CachedSignals
    enabled,      \* discharge_enabled_ and charge_enabled_
    contactors,   \* external: the last command the contactors received
    command,      \* what each commander is doing
    disturbed     \* history: commands have overlapped or a frame was lost
                  \* and no undisturbed command has completed since

adapterVars == <<clock, bus, poller, cache, enabled, contactors, command, disturbed>>
signalVars  == <<clock, bus, poller, cache>>
commandVars == <<enabled, contactors, command, disturbed>>

Resting == [step |-> "idle"]

AdapterInit ==
    /\ clock = 0
    /\ bus = <<>>
    /\ poller = Resting
    /\ cache = [s \in Signals |-> [value |-> 0, stamp |-> -1, valid |-> FALSE]]
    /\ enabled = [c \in Contactors |-> TRUE]
    /\ contactors = enabled
    /\ command = [t \in Commanders |-> Resting]
    /\ disturbed = FALSE

-----------------------------------------------------------------------------
(* Telemetry.                                                              *)

\* set_now_seconds by the owner of the clock.
Tick ==
    /\ clock' = clock + 1
    /\ UNCHANGED <<bus, poller, cache, commandVars>>

\* A frame reaches the transport and queues behind those it still holds.
FrameArrives(kind, number) ==
    /\ bus' = Append(bus, [kind |-> kind, number |-> number])
    /\ UNCHANGED <<clock, poller, cache, commandVars>>

\* can_.receive() of poll_can's loop: the oldest frame, by the assumption on
\* the transport.
TakeFrame ==
    /\ poller.step = "idle"
    /\ bus # <<>>
    /\ poller' = [step |-> "decoding", frame |-> Head(bus)]
    /\ bus' = Tail(bus)
    /\ UNCHANGED <<clock, cache, commandVars>>

\* handle_frame takes the time before the lock; a short or unknown frame
\* changes nothing.
StampFrame ==
    /\ poller.step = "decoding"
    /\ poller' = IF poller.frame.kind \in Signals
                 THEN [step |-> "storing", frame |-> poller.frame, time |-> clock]
                 ELSE Resting
    /\ UNCHANGED <<clock, bus, cache, commandVars>>

\* Slip: set_signal is handed to a task that stores the sample some time
\* later, while the poller goes on with the next frame.
Late(s) == IF "late" \in DOMAIN cache[s] THEN cache[s].late ELSE {}

StoreSignalLate ==
    \/ /\ poller.step = "storing"
       /\ LET s == poller.frame.kind
              sample == [value |-> poller.frame.number, stamp |-> poller.time]
          IN  cache' = [cache EXCEPT ![s] =
                  [value |-> @.value, stamp |-> @.stamp, valid |-> @.valid,
                   late |-> Late(s) \cup {sample}]]
       /\ poller' = Resting
       /\ UNCHANGED <<clock, bus, commandVars>>
    \/ /\ \E s \in Signals : \E sample \in Late(s) :
             cache' = [cache EXCEPT ![s] =
                 [value |-> sample.value, stamp |-> sample.stamp, valid |-> TRUE,
                  late |-> Late(s) \ {sample}]]
       /\ UNCHANGED <<clock, bus, poller, commandVars>>

\* set_signal under sig_mutex_.
StoreSignal ==
    /\ poller.step = "storing"
    /\ cache' = [cache EXCEPT ![poller.frame.kind] =
                    [value |-> poller.frame.number, stamp |-> poller.time, valid |-> TRUE]]
    /\ poller' = Resting
    /\ UNCHANGED <<clock, bus, commandVars>>

\* get_fresh_or_throw: the clock is read under sig_mutex_ too.
Fresh(s) ==
    /\ cache[s].valid
    /\ clock - cache[s].stamp \in 0..MaxAge

-----------------------------------------------------------------------------
(* Contactors.  enable_discharge and enable_charge read the other flag,    *)
(* send both states in one frame and store their own flag, without a lock. *)

OthersBusy(t) == \E u \in Commanders \ {t} : command[u].step # "idle"

BeginCommand(t, c, on) ==
    /\ command[t].step = "idle"
    /\ command' = [u \in Commanders |->
          IF u = t THEN [step |-> "sending", which |-> c, on |-> on,
                         other |-> enabled[Paired(c)], clean |-> ~OthersBusy(t)]
          ELSE IF command[u].step = "idle" THEN Resting
          ELSE [command[u] EXCEPT !.clean = FALSE]]
    /\ disturbed' = (disturbed \/ OthersBusy(t))
    /\ UNCHANGED <<signalVars, enabled, contactors>>

\* A frame the transport refuses is counted and the flag stored all the same.
SendCommand(t) ==
    LET k == command[t]
    IN  /\ k.step = "sending"
        /\ \/ /\ contactors' = [c \in Contactors |-> IF c = k.which THEN k.on ELSE k.other]
              /\ command' = [command EXCEPT ![t].step = "storing"]
              /\ UNCHANGED disturbed
           \/ /\ command' = [command EXCEPT ![t].step = "storing", ![t].clean = FALSE]
              /\ disturbed' = TRUE
              /\ UNCHANGED contactors
        /\ UNCHANGED <<signalVars, enabled>>

\* Slip: the flag of the other contactor is stored with the command's value.
StorePairedFlag(t) ==
    LET k == command[t]
    IN  /\ k.step = "storing"
        /\ enabled' = [enabled EXCEPT ![Paired(k.which)] = k.on]
        /\ command' = [command EXCEPT ![t] = Resting]
        /\ disturbed' = (disturbed /\ ~k.clean)
        /\ UNCHANGED <<signalVars, contactors>>

StoreFlag(t) ==
    LET k == command[t]
    IN  /\ k.step = "storing"
        /\ enabled' = [enabled EXCEPT ![k.which] = k.on]
        /\ command' = [command EXCEPT ![t] = Resting]
        /\ disturbed' = (disturbed /\ ~k.clean)
        /\ UNCHANGED <<signalVars, contactors>>

-----------------------------------------------------------------------------
\* The contactors are in the state the flags say, whenever no command is under
\* way, except after commands of two threads overlapped or a frame was lost;
\* and the next command that runs undisturbed puts both contactors right.
ContactorsFollowFlags ==
    (\A t \in Commanders : command[t].step = "idle") =>
        disturbed \/ contactors = enabled
=============================================================================
