-------------------------- MODULE ExclusivePublish --------------------------
(***************************************************************************)
(* What extraction to disk promises, with no directories, descriptors or   *)
(* system calls: a slot (a name in a directory) is claimed by one owner at *)
(* a time, an owner that finishes publishes the whole content, and what a  *)
(* slot keeps it keeps for good.  SafeOutput implements it.                *)
(***************************************************************************)
CONSTANTS
  Slot,     \* places a name can be created at
  Owner,    \* who can claim one
  Item,     \* what can be published
  Kept,     \* what a slot can be left with, whole items included
  Whole(_)  \* the complete content of an item

VARIABLES
  slot,     \* slot -> "free", a claim or what is kept there
  reported  \* slots, with the item, whose owner was told it is published

vars == <<slot, reported>>

FreeSlot    == [state |-> "free"]
Claim(o, x) == [state |-> "held", owner |-> o, item |-> x]
Keep(c)     == [state |-> "kept", content |-> c]

Init == slot = [s \in Slot |-> FreeSlot] /\ reported = {}

Changes(s, v) == slot'[s] = v /\ \A t \in Slot \ {s} : slot'[t] = slot[t]

\* A free slot goes to one owner, which holds no other.
Take(s) ==
  /\ slot[s].state = "free"
  /\ \E o \in Owner, x \in Item :
       /\ \A t \in Slot : slot[t].state = "held" => slot[t].owner # o
       /\ Changes(s, Claim(o, x))
  /\ UNCHANGED reported

\* The owner publishes the whole item and is told so.
Publish(s) ==
  /\ slot[s].state = "held"
  /\ Changes(s, Keep(Whole(slot[s].item)))
  /\ reported' = reported \cup {<<s, slot[s].item>>}

\* The owner fails and clears the slot.
Withdraw(s) ==
  /\ slot[s].state = "held"
  /\ Changes(s, FreeSlot)
  /\ UNCHANGED reported

\* The owner dies, or cannot clear the slot: nobody is told anything.
Desert(s) ==
  /\ slot[s].state = "held"
  /\ \E c \in Kept : Changes(s, Keep(c))
  /\ UNCHANGED reported

\* Something else (a directory, another program's entry) appears in a slot.
Occupy(s) ==
  /\ slot[s].state = "free"
  /\ \E c \in Kept : Changes(s, Keep(c))
  /\ UNCHANGED reported

\* Every step changes one slot.
Next == \E s \in {t \in Slot : slot'[t] # slot[t]} :
          Take(s) \/ Publish(s) \/ Withdraw(s) \/ Desert(s) \/ Occupy(s)

Spec == Init /\ [][Next]_vars
=============================================================================
