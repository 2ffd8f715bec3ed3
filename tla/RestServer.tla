----------------------------- MODULE RestServer -----------------------------
(***************************************************************************)
(* RestApiServer of include/ds_rest_api.hpp: the owner starts and stops it *)
(* and publishes through update_state and update_energy_cycle; one server  *)
(* thread accepts a client at a time and answers from the shared snapshot. *)
(* The owner's program counter belongs to the module that composes this    *)
(* one.                                                                    *)
(*                                                                         *)
(* accept() blocks until a client connects or the listener is shut down    *)
(* and recv() until bytes, a disconnection or the five-second timeout.  A  *)
(* closed descriptor number is taken not to be reused by another listener. *)
(* JSON text is left out: a response is the part of the snapshot it holds. *)
(***************************************************************************)
EXTENDS Integers

CONSTANT NoReading    \* the readings of a snapshot nothing was published in

VARIABLES
    running,    \* running_
    listener,   \* server_socket_: "listening", "shut" or "closed"
    backlog,    \* external: clients that wait in the kernel's queue
    server,     \* server_thread_: where it is, and what it serves
    mutex,      \* state_mutex_: who holds it
    snapshot,   \* current_state_
    stats,      \* the three request counters
    answer      \* the last response sent

restVars == <<running, listener, backlog, server, mutex, snapshot, stats, answer>>
lifeVars == <<running, listener, backlog>>

At(step) == [step |-> step]
NoAnswer == At("none")

RestInit ==
    /\ running = FALSE
    /\ listener = "closed"
    /\ backlog = 0
    /\ server = At("none")
    /\ mutex = "free"
    /\ snapshot = [stamp |-> 0, states |-> NoReading, safety |-> 0, energy |-> 0]
    /\ stats = [total |-> 0, successful |-> 0, failed |-> 0]
    /\ answer = NoAnswer

-----------------------------------------------------------------------------
(* start and stop, called by the owner.                                    *)

\* A second start, or one whose socket, bind or listen fails and closes what
\* it opened, returns false and changes nothing.  (The step is the caller's.)
StartRefused == UNCHANGED restVars

StartListening ==
    /\ ~running
    /\ running' = TRUE
    /\ listener' = "listening"
    /\ server' = At("test")
    /\ UNCHANGED <<backlog, mutex, snapshot, stats, answer>>

\* std::thread throws after running_ was set: the listener is open, the server
\* counts as running, and only stop(), or the destructor by way of it, puts
\* that right.
StartThrows ==
    /\ ~running
    /\ running' = TRUE
    /\ listener' = "listening"
    /\ UNCHANGED <<backlog, server, mutex, snapshot, stats, answer>>

StopBegin ==
    /\ running
    /\ running' = FALSE
    /\ UNCHANGED <<listener, backlog, server, mutex, snapshot, stats, answer>>

\* Slip: the descriptor is closed without the shutdown that wakes accept().
CloseOnly ==
    /\ listener = "listening"
    /\ listener' = "shut"
    /\ UNCHANGED <<running, backlog, server, mutex, snapshot, stats, answer>>

\* shutdown() fails an accept() that is already blocked.
ShutListener ==
    /\ listener = "listening"
    /\ listener' = "shut"
    /\ server' = IF server.step = "blocked" THEN At("woken") ELSE server
    /\ UNCHANGED <<running, backlog, mutex, snapshot, stats, answer>>

\* close(), and the clients still queued are reset.
CloseListener ==
    /\ listener = "shut"
    /\ listener' = "closed"
    /\ backlog' = 0
    /\ UNCHANGED <<running, server, mutex, snapshot, stats, answer>>

\* join(), immediate when the thread was never created.
Join ==
    /\ listener = "closed"
    /\ server.step \in {"none", "done"}
    /\ server' = At("none")
    /\ UNCHANGED <<lifeVars, mutex, snapshot, stats, answer>>

-----------------------------------------------------------------------------
(* Publication, called by the owner.                                       *)

\* update_state under the mutex, first the stamp and the states ...
WriteStates(readings) ==
    /\ mutex = "free"
    /\ mutex' = "owner"
    /\ snapshot' = [snapshot EXCEPT !.stamp = @ + 1, !.states = readings]
    /\ UNCHANGED <<lifeVars, server, stats, answer>>

\* ... then update_safety_status, and the mutex is released.
WriteSafety ==
    /\ mutex = "owner"
    /\ mutex' = "free"
    /\ snapshot' = [snapshot EXCEPT !.safety = snapshot.stamp]
    /\ UNCHANGED <<lifeVars, server, stats, answer>>

\* update_energy_cycle is a critical section of its own.
WriteEnergy ==
    /\ mutex = "free"
    /\ snapshot' = [snapshot EXCEPT !.energy = snapshot.stamp]
    /\ UNCHANGED <<lifeVars, server, mutex, stats, answer>>

-----------------------------------------------------------------------------
(* server_loop and handle_client.                                          *)

ClientConnects ==
    /\ listener = "listening"
    /\ backlog' = backlog + 1
    /\ UNCHANGED <<running, listener, server, mutex, snapshot, stats, answer>>

\* The loop condition, also after a failed accept().
TestRunning ==
    /\ server.step \in {"test", "woken"}
    /\ server' = At(IF running THEN "accept" ELSE "done")
    /\ UNCHANGED <<lifeVars, mutex, snapshot, stats, answer>>

\* The descriptor is loaded when accept() is called: stop() may have shut or
\* forgotten it since the test, and the call fails at once.
CallAccept ==
    /\ server.step = "accept"
    /\ server' = At(IF listener = "listening" THEN "blocked" ELSE "woken")
    /\ UNCHANGED <<lifeVars, mutex, snapshot, stats, answer>>

\* handle_client counts the request before it reads it.
Accept ==
    /\ server.step = "blocked"
    /\ backlog > 0
    /\ backlog' = backlog - 1
    /\ server' = At("recv")
    /\ stats' = [stats EXCEPT !.total = @ + 1]
    /\ UNCHANGED <<running, listener, mutex, snapshot, answer>>

\* A transient failure of accept() while the server runs.
AcceptFails ==
    /\ server.step = "blocked"
    /\ running
    /\ server' = At("woken")
    /\ UNCHANGED <<lifeVars, mutex, snapshot, stats, answer>>

\* The timeout or a disconnection: counted as failed, nothing is sent.
ReceiveNothing ==
    /\ server.step = "recv"
    /\ stats' = [stats EXCEPT !.failed = @ + 1]
    /\ server' = At("test")
    /\ UNCHANGED <<lifeVars, mutex, snapshot, answer>>

\* "state" stands for the five handlers of the published states, "energy" for
\* the one of the energy figures and the safety flags; `seen` is what was
\* published when the request was read.
Kinds == {"health", "state", "energy", "refused"}

Receive(kind) ==
    /\ server.step = "recv"
    /\ server' = [step |-> "route", kind |-> kind, seen |-> snapshot.stamp]
    /\ UNCHANGED <<lifeVars, mutex, snapshot, stats, answer>>

\* create_error_response: a method, a path or an endpoint that is not served.
AnswerError ==
    /\ server.step = "route" /\ server.kind = "refused"
    /\ server' = [step |-> "send", answer |-> [step |-> "refused"]]
    /\ UNCHANGED <<lifeVars, mutex, snapshot, stats, answer>>

\* handle_health reads the counters and not the snapshot.
AnswerHealth ==
    /\ server.step = "route" /\ server.kind = "health"
    /\ server' = [step |-> "send", answer |-> [step |-> "health", stats |-> stats]]
    /\ UNCHANGED <<lifeVars, mutex, snapshot, stats, answer>>

\* Slip: a handler reads without waiting for the mutex.
ReadWithoutLock ==
    /\ server.step = "route" /\ server.kind \in {"state", "energy"}
    /\ mutex' = IF mutex = "free" THEN "server" ELSE mutex
    /\ server' = [step |-> "reading", kind |-> server.kind, seen |-> server.seen,
                  stamp |-> snapshot.stamp]
    /\ UNCHANGED <<lifeVars, snapshot, stats, answer>>

\* The other handlers hold the mutex from the stamp ...
LockAndRead ==
    /\ server.step = "route" /\ server.kind \in {"state", "energy"}
    /\ mutex = "free"
    /\ mutex' = "server"
    /\ server' = [step |-> "reading", kind |-> server.kind, seen |-> server.seen,
                  stamp |-> snapshot.stamp]
    /\ UNCHANGED <<lifeVars, snapshot, stats, answer>>

\* ... to the last field.
Respond(fields) ==
    /\ mutex' = "free"
    /\ server' = [step |-> "send", answer |-> fields]
    /\ UNCHANGED <<lifeVars, snapshot, stats, answer>>

ReadStates ==
    /\ server.step = "reading" /\ server.kind = "state"
    /\ Respond([step |-> "state", seen |-> server.seen, stamp |-> server.stamp,
                states |-> snapshot.states])

ReadEnergy ==
    /\ server.step = "reading" /\ server.kind = "energy"
    /\ Respond([step |-> "energy", seen |-> server.seen, stamp |-> server.stamp,
                energy |-> snapshot.energy, safety |-> snapshot.safety])

\* send() does not block on so short a text; then the outcome is counted and
\* the connection closed.
Send ==
    /\ server.step = "send"
    /\ answer' = server.answer
    /\ stats' = IF server.answer.step = "refused"
                THEN [stats EXCEPT !.failed = @ + 1]
                ELSE [stats EXCEPT !.successful = @ + 1]
    /\ server' = At("test")
    /\ UNCHANGED <<lifeVars, mutex, snapshot>>

ServerStep ==
    \/ TestRunning \/ CallAccept \/ Accept \/ AnswerError \/ AnswerHealth
    \/ LockAndRead \/ ReadStates \/ ReadEnergy \/ Send

ReceiveEnds == ReceiveNothing \/ \E kind \in Kinds : Receive(kind)
=============================================================================
