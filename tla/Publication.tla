---------------------------- MODULE Publication ----------------------------
(***************************************************************************)
(* What the reports of votes promise their receivers.  Publishers issue    *)
(* editions of a list, each dated later than all before it, and never      *)
(* change one.  A reader holds a part of one edition of each publisher; it *)
(* gives it up only for more of the same edition or for a part of a later  *)
(* one, whatever becomes of the parts on their way.                        *)
(***************************************************************************)
EXTENDS Integers

CONSTANTS Publisher, Reader

VARIABLES
  editions,   \* [publisher -> [date -> list]]
  held,       \* [reader -> [publisher -> what it holds of an edition]]
  dated       \* [reader -> [publisher -> the date of that edition]], 0 at first

Empty == [n \in {} |-> 0]

Extends(new, old) ==
  DOMAIN old \subseteq DOMAIN new /\ \A n \in DOMAIN old : new[n] = old[n]

Init ==
  /\ editions = [p \in Publisher |-> Empty]
  /\ held = [r \in Reader |-> [p \in Publisher |-> Empty]]
  /\ dated = [r \in Reader |-> [p \in Publisher |-> 0]]

Publish(p) ==
  /\ editions' = [editions EXCEPT ![p] = editions'[p]]
  /\ Extends(editions'[p], editions[p])
  /\ \E s \in DOMAIN editions'[p] :
       /\ DOMAIN editions'[p] = DOMAIN editions[p] \cup {s}
       /\ s > 0 /\ \A d \in DOMAIN editions[p] : s > d
  /\ UNCHANGED <<held, dated>>

Read(r, p) ==
  /\ held' = [held EXCEPT ![r][p] = held'[r][p]]
  /\ dated' = [dated EXCEPT ![r][p] = dated'[r][p]]
  /\ dated'[r][p] \in DOMAIN editions[p]
  /\ Extends(editions[p][dated'[r][p]], held'[r][p])
  /\ \/ dated'[r][p] > dated[r][p]
     \/ dated'[r][p] = dated[r][p] /\ Extends(held'[r][p], held[r][p])
  /\ UNCHANGED editions

Next ==
  \/ \E p \in Publisher : Publish(p)
  \/ \E r \in Reader, p \in Publisher : Read(r, p)

Spec == Init /\ [][Next]_<<editions, held, dated>>
=============================================================================
