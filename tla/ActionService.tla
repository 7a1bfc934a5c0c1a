--------------------------- MODULE ActionService ---------------------------
(***************************************************************************)
(* What the channels and the rollout workers promise an env worker: a call *)
(* that is answered once.  Under a rank there is at most one request or    *)
(* one answer at any time, so an answer always belongs to the last request *)
(* made under its key, although ranks are reused by other groups and other *)
(* rollout workers read the queue.                                         *)
(***************************************************************************)
EXTENDS Naturals

CONSTANT Ranks      \* reply keys

VARIABLES
  asked,            \* rank -> requests on their way or being worked on
  answered          \* rank -> answers waiting to be taken

vars == <<asked, answered>>

Init ==
  /\ asked = [k \in Ranks |-> 0]
  /\ answered = [k \in Ranks |-> 0]

AskFirst(k) ==
  /\ asked[k] = 0 /\ answered[k] = 0
  /\ asked' = [asked EXCEPT ![k] = 1]
  /\ UNCHANGED answered

Reply(k) ==
  /\ asked[k] = 1
  /\ asked' = [asked EXCEPT ![k] = 0]
  /\ answered' = [answered EXCEPT ![k] = 1]

\* The caller takes its answer and may ask for the next one.
Take(k) ==
  /\ answered[k] = 1
  /\ answered' = [answered EXCEPT ![k] = 0]
  /\ \E again \in {0, 1} : asked' = [asked EXCEPT ![k] = again]

Next == \E k \in Ranks : AskFirst(k) \/ Reply(k) \/ Take(k)

Spec == Init /\ [][Next]_vars
=============================================================================
