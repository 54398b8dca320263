------------------------- MODULE MCConnectorSession -------------------------
(***************************************************************************)
(* A local agent from both ends.  Half of the behaviours follow            *)
(* ConnectorSession: two workers and one Connector carry a task to the     *)
(* agent and its result back.  The others follow Participation: an owner   *)
(* with two local agents registers them and competes with another user for *)
(* one seat.  Participation reads the Gateway's rows only for whether a    *)
(* binding exists, is revoked and is usable, which it has actions for, so  *)
(* TLC explores the two side by side.                                      *)
(***************************************************************************)
EXTENDS ConnectorSession, Participation, TLC

CONSTANTS w1, w2, o1, u1, b1, b2, k1, k2

VARIABLE half

MCWorkers == {w1, w2}
MCBindingOwner == [b \in Bindings |-> o1]

WorkerSymmetry == Permutations(MCWorkers)

MCInit == /\ Init /\ ParticipationInit
          /\ half \in {"session", "participation"}
          /\ half = "participation" => ~arena.mcp
MCNext == /\ UNCHANGED half
          /\ \/ half = "session" /\ Next /\ UNCHANGED participationVars
             \/ half = "participation" /\ ParticipationNext /\ UNCHANGED vars
MCSpec == MCInit /\ [][MCNext]_<<vars, participationVars, half>>
=============================================================================
