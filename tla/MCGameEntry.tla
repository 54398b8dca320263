---- MODULE MCGameEntry ----
(***************************************************************************)
(* The life of an Agent outside its tasks.  Half of the behaviours follow  *)
(* GameEntry: one hosted and one connector user and two official agents    *)
(* meet in Games.  The others follow HostedLearning: one hosted Agent      *)
(* learns from its Games.  The two read each other's rows nowhere but      *)
(* where an Agent joins a Game or its owner changes its config, which each *)
(* has an action for, so TLC explores them side by side rather than        *)
(* multiplied.                                                             *)
(***************************************************************************)
EXTENDS GameEntry, HostedLearning, TLC

CONSTANTS h1, c1, o1, o2, l1, l2

VARIABLE half

MCHosted == {h1}
MCConnector == {c1}
MCOfficial == {o1, o2}
MCAgent == {h1, c1, o1, o2}
MCGame == 1..2
MCTargets == {2}
MCMaxAuth == <<[u \in {h1, c1} |-> 1], [u \in {h1, c1} |-> 0]>>

\* A Game with a lesson and a gain, and one with a loss and no trade.  Two
\* proposals, at the limit of the change and just beyond it.
MCLearners == {l1, l2}
Gain == [goods |-> TRUE, ranked |-> TRUE, tasks |-> 3, candidates |-> 2, defaulted |-> 1,
         applied |-> 3, active |-> 1, ahead |-> TRUE, trades |-> 1, score |-> 1000]
MCEvidence == {Gain, [Gain EXCEPT !.score = -1000, !.trades = 0]}
MCMoves == {1000, 1001}

OfficialSymmetry == Permutations(MCOfficial)

MCInit == Init /\ LearningInit /\ half \in {"entry", "learning"}
MCNext == /\ UNCHANGED half
          /\ \/ half = "entry" /\ Next /\ UNCHANGED learningVars
             \/ half = "learning" /\ LearningNext /\ UNCHANGED vars
MCSpec == MCInit /\ [][MCNext]_<<vars, learningVars, half>>
====
