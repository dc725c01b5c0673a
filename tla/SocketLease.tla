----------------------------- MODULE SocketLease -----------------------------
(***************************************************************************)
(* What the processes that share a socket path promise one another about   *)
(* the directory entry: it is claimed only when free, it is cleared only   *)
(* by a process that is starting or stopping, a daemon that serves leaves  *)
(* it alone, and only a crash leaves a dead socket there.  Nothing is      *)
(* promised about whose entry is cleared.                                  *)
(***************************************************************************)
CONSTANTS Daemons, NoFile, Leftover

VARIABLES
    entry,    \* what is at the path
    phase,    \* phase[d]: where process d is in its life
    claimed   \* claimed[d]: d has put its socket at the path in this life

vars == <<entry, phase, claimed>>

Init ==
    /\ entry \in {NoFile, Leftover}
    /\ phase = [d \in Daemons |-> "off"]
    /\ claimed = [d \in Daemons |-> FALSE]

Move(d, from, to) == phase[d] \in from /\ phase' = [phase EXCEPT ![d] = to]

Start(d) == Move(d, {"off"}, "starting") /\ UNCHANGED <<entry, claimed>>

Claim(d) ==
    /\ phase[d] = "starting" /\ ~claimed[d]
    /\ entry = NoFile
    /\ entry' = d
    /\ claimed' = [claimed EXCEPT ![d] = TRUE]
    /\ UNCHANGED phase

Serve(d) == claimed[d] /\ Move(d, {"starting"}, "serving") /\ UNCHANGED <<entry, claimed>>

Stop(d) == Move(d, {"starting", "serving"}, "stopping") /\ UNCHANGED <<entry, claimed>>

Clear(d) ==
    /\ phase[d] \in {"starting", "stopping"}
    /\ entry' = NoFile
    /\ UNCHANGED <<phase, claimed>>

Exit(d) ==
    /\ entry # d
    /\ Move(d, {"stopping"}, "off")
    /\ claimed' = [claimed EXCEPT ![d] = FALSE]
    /\ UNCHANGED entry

Crash(d) ==
    /\ Move(d, {"starting", "serving", "stopping"}, "off")
    /\ claimed' = [claimed EXCEPT ![d] = FALSE]
    /\ entry' = IF entry = d THEN Leftover ELSE entry

Next ==
    \E d \in Daemons :
        Start(d) \/ Claim(d) \/ Serve(d) \/ Stop(d) \/ Clear(d) \/ Exit(d) \/ Crash(d)

Spec == Init /\ [][Next]_vars
=============================================================================
