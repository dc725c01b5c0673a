------------------------------ MODULE MCDaemon ------------------------------
EXTENDS Daemon, TLC

\* Interchangeable in every safety run; no liveness run uses it.
Symmetry == Permutations(Daemons) \union Permutations(Clis)

(***************************************************************************)
(* The liveness properties of Daemon, asked of one daemon: which one does  *)
(* not matter, since the specification treats all of them alike.           *)
(***************************************************************************)
One == CHOOSE d \in Daemons : TRUE

\* A daemon past its idle timeout is poked again or goes.
OneIdlesOut == IdleOut(One)

\* A daemon that no poke can reach does not stay for ever.
OneUnreachableRetires == UnreachableRetires(One)

\* A daemon told to stop does.
OneShutsDown == ShutdownCompletes(One)
=============================================================================
