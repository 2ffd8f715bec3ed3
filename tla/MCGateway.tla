----------------------------- MODULE MCGateway -----------------------------
(* Four scenarios of the gateway: two threads command the contactors;      *)
(* frames, clock and cycles without a client; cycles with clients; clients *)
(* of a server that is stopped and started again.                          *)
EXTENDS Gateway

None == [what \in {"commands", "ticks", "frames", "frames0", "requests",
                   "cycles", "starts"} |-> 0]

MCBudgets ==
    {[None EXCEPT !.commands = 4],
     [None EXCEPT !.frames = 3, !.frames0 = 3, !.ticks = 2, !.cycles = 3, !.starts = 1],
     [None EXCEPT !.frames = 2, !.frames0 = 2, !.cycles = 2, !.requests = 2, !.starts = 1],
     [None EXCEPT !.requests = 3, !.starts = 2]}
=============================================================================
