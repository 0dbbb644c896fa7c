----------------------------- MODULE NewestEvent -----------------------------
(***************************************************************************)
(* What a subscription row promises of the dated events it is told of,     *)
(* whatever their order and however often each is repeated: it shows one   *)
(* of the newest it has been told. AppleSubscription implements this.      *)
(***************************************************************************)
EXTENDS Integers

CONSTANTS Rows, Event, Nothing

VARIABLES
  told,    \* told[r]: the events row r was told of
  shown    \* shown[r]: the one it shows

newestVars == <<told, shown>>

Newest(S) == {e \in S : \A f \in S : f.at <= e.at}

NewestInit ==
  /\ told = [r \in Rows |-> {}]
  /\ shown = [r \in Rows |-> Nothing]

Tell(r, e) ==
  /\ told' = [told EXCEPT ![r] = @ \cup {e}]
  /\ \E n \in Newest(told[r] \cup {e}) : shown' = [shown EXCEPT ![r] = n]

NewestNext == \E r \in Rows, e \in Event : Tell(r, e)

NewestSpec == NewestInit /\ [][NewestNext]_newestVars
===============================================================================
