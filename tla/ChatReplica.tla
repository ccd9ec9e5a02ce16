------------------------------ MODULE ChatReplica ------------------------------
(***************************************************************************)
(* What CoreDataManager promises of the database, whatever requests        *)
(* overlap: it holds named channels, each with a log of messages that only *)
(* grows at its new end, whose stamps are unique, and that goes with its   *)
(* channel.                                                                *)
(***************************************************************************)
EXTENDS Integers

CONSTANTS Channels, Values, Unnamed, None, Messages, Created

VARIABLES rows,  \* rows[c]: what is stored of channel c, or None
          log    \* log[c]: the messages stored in channel c

replica == <<rows, log>>

Init == /\ rows = [c \in Channels |-> None]
        /\ log = [c \in Channels |-> {}]

(* Some channels are inserted or updated, from the same snapshot.           *)
Store(S) ==
  /\ rows' \in [Channels -> Values \cup {None}]
  /\ \A c \in Channels : IF c \in S THEN rows'[c] \in Values \ {Unnamed}
                                    ELSE rows'[c] = rows[c]
  /\ UNCHANGED log

(* Some channels are deleted, and all their messages.                       *)
Remove(S) ==
  /\ rows' = [c \in Channels |-> IF c \in S THEN None ELSE rows[c]]
  /\ log' = [c \in Channels |-> IF c \in S THEN {} ELSE log[c]]

Stamps(S) == {Created[m] : m \in S}

(* Messages are added to one channel, which is there; each is newer than    *)
(* all it had, and carries a stamp no other message has.                   *)
Extend(c, new) ==
  /\ rows[c] # None
  /\ \A m \in new : \A n \in log[c] : Created[m] > Created[n]
  /\ \A m, n \in new : Created[m] = Created[n] => m = n
  /\ \A d \in Channels : Stamps(new) \cap Stamps(log[d]) = {}
  /\ log' = [log EXCEPT ![c] = @ \cup new]
  /\ UNCHANGED rows

Next == \/ \E S \in SUBSET Channels : Store(S) \/ Remove(S)
        \/ \E c \in Channels, new \in SUBSET Messages : Extend(c, new)

Spec == Init /\ [][Next]_replica
================================================================================
