---------------------------- MODULE MessageQueue ----------------------------
(***************************************************************************)
(* What the queue of the agent's tasks promises its callers: pop() takes   *)
(* the first message and removes it, so that a message is handed out once; *)
(* a caller that fails may lose the message it was about to get, and only  *)
(* after a caller overstayed its lock may a message be handed out again.   *)
(*                                                                         *)
(* A message is known by its id, and the ids are given in order: 1, 2, ... *)
(***************************************************************************)
EXTENDS Naturals

CONSTANT Poppers    \* the callers of pop()

VARIABLES
  queue,    \* the messages in the queue
  last,     \* the last id given
  hand,     \* the message on its way to a caller, or 0
  given,    \* the messages that callers got
  stalls    \* how often a lock expired under a caller

vars == <<queue, last, hand, given, stalls>>

First(m) == m \in queue /\ \A n \in queue : m <= n

Init ==
  /\ queue = {}
  /\ last = 0
  /\ hand = [p \in Poppers |-> 0]
  /\ given = {}
  /\ stalls = 0

Put ==
  /\ last' = last + 1
  /\ queue' = queue \cup {last'}
  /\ UNCHANGED <<hand, given, stalls>>

Take(p) ==
  /\ hand[p] = 0
  /\ \E m \in queue :
       /\ First(m)
       /\ queue' = queue \ {m}
       /\ hand' = [hand EXCEPT ![p] = m]
  /\ UNCHANGED <<last, given, stalls>>

\* A caller gets a message that was removed already.
Repeat(p) ==
  /\ hand[p] = 0
  /\ stalls > 0
  /\ \E m \in (1..last) \ queue : hand' = [hand EXCEPT ![p] = m]
  /\ UNCHANGED <<queue, last, given, stalls>>

Return(p) ==
  /\ hand[p] # 0
  /\ stalls = 0 => hand[p] \notin given
  /\ given' = given \cup {hand[p]}
  /\ hand' = [hand EXCEPT ![p] = 0]
  /\ UNCHANGED <<queue, last, stalls>>

\* A caller fails before it gets its message, or before the queue could tell it
\* which one it was.
Lose(p) ==
  /\ hand[p] # 0
  /\ hand' = [hand EXCEPT ![p] = 0]
  /\ UNCHANGED <<queue, last, given, stalls>>

Drop ==
  /\ \E m \in queue : First(m) /\ queue' = queue \ {m}
  /\ UNCHANGED <<last, hand, given, stalls>>

Stall ==
  /\ stalls' = stalls + 1
  /\ UNCHANGED <<queue, last, hand, given>>

Next ==
  \/ Put \/ Drop \/ Stall
  \/ \E p \in Poppers : Take(p) \/ Repeat(p) \/ Return(p) \/ Lose(p)

Spec == Init /\ [][Next]_vars
=============================================================================
