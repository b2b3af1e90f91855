-------------------------------- MODULE LinkList --------------------------------
(***************************************************************************)
(* What the link store promises: an ordered list of links from which a     *)
(* link leaves once, either the first one or the first one with a name.    *)
(***************************************************************************)
EXTENDS Naturals, Sequences, SequencesExt

CONSTANTS Links, Name

VARIABLES list,    \* the links in the store, in order of arrival
          gone     \* the links that have left it

vars == <<list, gone>>

Init == list = << >> /\ gone = {}

Append1(l) ==
  /\ l \notin gone /\ ~Contains(list, l)
  /\ list' = Append(list, l)
  /\ UNCHANGED gone

Leave(i) ==
  /\ list' = RemoveAt(list, i)
  /\ gone' = gone \cup {list[i]}

(* The first one, or the first one of its name. *)
MayLeave(i) == \A j \in 1..i-1 : Name[list[j]] # Name[list[i]]

Next == \/ \E l \in Links : Append1(l)
        \/ \E i \in DOMAIN list : MayLeave(i) /\ Leave(i)

Spec == Init /\ [][Next]_vars
=================================================================================
