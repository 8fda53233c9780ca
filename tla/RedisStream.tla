---------------------------- MODULE RedisStream ----------------------------
(***************************************************************************)
(* RedisStreamMessageQueue: a message queue on a Redis stream, whose pop() *)
(* reads the first entry and deletes it under a lock that Redis forgets    *)
(* after ten seconds.                                                      *)
(*                                                                         *)
(* A step is one command Redis executes for the queue.  An entry is known  *)
(* by its id, and the ids Redis gives grow: 1, 2, ...                      *)
(***************************************************************************)
EXTENDS Naturals, Sequences

CONSTANTS
  Poppers,     \* coroutines and processes that call pop()
  NoPopper,    \* the lock is free
  MaxPuts,     \* bound: messages put
  MaxTries,    \* tries for the lock before pop() gives up (about 50)
  MaxStalls,   \* bound: locks that expire under their holder
  MaxBreaks    \* bound: cancellations, failures of Redis and crashes

ASSUME NoPopperAssumption == NoPopper \notin Poppers
ASSUME BoundsAssumption == {MaxPuts, MaxTries, MaxStalls, MaxBreaks} \subseteq Nat

VARIABLES
  stream,   \* the ids of the entries of the stream
  last,     \* the last id Redis gave
  lock,     \* whose value the lock key holds, if it exists
  pc,       \* where a pop() stands
  tries,    \* how often it tried to get the lock
  found,    \* the id of the entry it found, or 0
  late,     \* the pops whose lock expired before they released it
  given,    \* history: the ids pop() returned, in time or late
  stalls,   \* locks that expired under their holder so far
  breaks    \* failures so far

vars == <<stream, last, lock, pc, tries, found, late, given, stalls, breaks>>

\* Between the acquisition of the lock and its release.
Section == {"read", "delete", "release"}

\* XRANGE - + COUNT 1
First(m) == m \in stream /\ \A n \in stream : m <= n

-----------------------------------------------------------------------------

Init ==
  /\ stream = {}
  /\ last = 0
  /\ lock = NoPopper
  /\ pc = [p \in Poppers |-> "idle"]
  /\ tries = [p \in Poppers |-> 0]
  /\ found = [p \in Poppers |-> 0]
  /\ late = {}
  /\ given = <<>>
  /\ stalls = 0
  /\ breaks = 0

Goes(p, there) == pc' = [pc EXCEPT ![p] = there]

\* Mutant of Put: the id is not remembered.
MutPut ==
  /\ last < MaxPuts
  /\ stream' = stream \cup {last + 1}
  /\ UNCHANGED <<last, lock, pc, tries, found, late, given, stalls, breaks>>

\* XADD
Put ==
  /\ last < MaxPuts
  /\ last' = last + 1
  /\ stream' = stream \cup {last'}
  /\ UNCHANGED <<lock, pc, tries, found, late, given, stalls, breaks>>

Begins(p) ==
  /\ pc[p] = "idle"
  /\ Goes(p, "acquire")
  /\ tries' = [tries EXCEPT ![p] = 0]
  /\ UNCHANGED <<stream, last, lock, found, late, given, stalls, breaks>>

\* Mutant of Acquires: SET without NX.
MutAcquires(p) ==
  /\ pc[p] = "acquire"
  /\ lock' = p
  /\ late' = late \ {p}
  /\ Goes(p, "read")
  /\ UNCHANGED <<stream, last, tries, found, given, stalls, breaks>>

\* SET NX EX 10 succeeds.
Acquires(p) ==
  /\ pc[p] = "acquire"
  /\ lock = NoPopper
  /\ lock' = p
  /\ late' = late \ {p}
  /\ Goes(p, "read")
  /\ UNCHANGED <<stream, last, tries, found, given, stalls, breaks>>

\* The key exists: pop() sleeps and tries again, or returns nothing.
Retries(p) ==
  /\ pc[p] = "acquire"
  /\ lock # NoPopper
  /\ IF tries[p] + 1 < MaxTries
       THEN tries' = [tries EXCEPT ![p] = @ + 1] /\ pc' = pc
       ELSE Goes(p, "idle") /\ tries' = tries
  /\ UNCHANGED <<stream, last, lock, found, late, given, stalls, breaks>>

\* XRANGE returns the first entry, or nothing.
Reads(p) ==
  /\ pc[p] = "read"
  /\ \/ /\ stream = {}
        /\ found' = [found EXCEPT ![p] = 0]
        /\ Goes(p, "release")
     \/ /\ \E m \in stream : First(m) /\ found' = [found EXCEPT ![p] = m]
        /\ Goes(p, "delete")
  /\ UNCHANGED <<stream, last, lock, tries, late, given, stalls, breaks>>

\* Mutant of Deletes: the first entry goes, whichever it is by now.
MutDeletes(p) ==
  /\ pc[p] = "delete"
  /\ stream' = {m \in stream : ~First(m)}
  /\ Goes(p, "release")
  /\ UNCHANGED <<last, lock, tries, found, late, given, stalls, breaks>>

\* XDEL of the id that was found: no entry may have it any more.
Deletes(p) ==
  /\ pc[p] = "delete"
  /\ stream' = stream \ {found[p]}
  /\ Goes(p, "release")
  /\ UNCHANGED <<last, lock, tries, found, late, given, stalls, breaks>>

\* Mutant of Unlocked: DEL without the comparison.
MutUnlocked(p) == NoPopper

\* The script deletes the lock key if it still holds the caller's value.
Unlocked(p) == IF lock = p THEN NoPopper ELSE lock

TimeOf(p) == IF p \in late THEN "late" ELSE "kept"

\* pop() is over, and hands out what it found.
Returns(p) ==
  /\ Goes(p, "idle")
  /\ found' = [found EXCEPT ![p] = 0]
  /\ given' = IF found[p] = 0 THEN given
              ELSE Append(given, [msg |-> found[p], time |-> TimeOf(p)])
  /\ UNCHANGED <<stream, last, tries, late, stalls>>

Releases(p) ==
  /\ pc[p] = "release"
  /\ lock' = Unlocked(p)
  /\ Returns(p)
  /\ UNCHANGED breaks

Failure == breaks < MaxBreaks /\ breaks' = breaks + 1

\* The script fails: pop() returns its message all the same.
ReleaseFails(p) ==
  /\ Failure
  /\ pc[p] = "release"
  /\ lock' = lock
  /\ Returns(p)

\* pop() is cancelled or Redis fails at a command: the command may have been
\* executed or not, and the lock is released if it was held.
Breaks(p) ==
  /\ Failure
  /\ found' = [found EXCEPT ![p] = 0]
  /\ \/ /\ pc[p] = "acquire"
        /\ lock' \in {lock, IF lock = NoPopper THEN p ELSE lock}
        /\ Goes(p, "idle")
        /\ stream' = stream
     \/ /\ pc[p] = "read"
        /\ Goes(p, "release")
        /\ UNCHANGED <<stream, lock>>
     \/ /\ pc[p] = "delete"
        /\ stream' \in {stream, stream \ {found[p]}}
        /\ Goes(p, "release")
        /\ lock' = lock
     \/ /\ pc[p] = "release"
        /\ lock' \in {lock, Unlocked(p)}
        /\ Goes(p, "idle")
        /\ stream' = stream
  /\ UNCHANGED <<last, tries, late, given, stalls>>

\* The process of a caller ends inside pop().
Dies(p) ==
  /\ Failure
  /\ pc[p] # "idle"
  /\ Goes(p, "idle")
  /\ found' = [found EXCEPT ![p] = 0]
  /\ UNCHANGED <<stream, last, lock, tries, late, given, stalls>>

\* Mutant of Expires: SET without EX, a lock left behind is never freed.
MutExpires ==
  /\ lock # NoPopper
  /\ pc[lock] \in Section
  /\ stalls < MaxStalls
  /\ stalls' = stalls + 1
  /\ late' = late \cup {lock}
  /\ lock' = NoPopper
  /\ UNCHANGED <<stream, last, pc, tries, found, given, breaks>>

\* Ten seconds after SET, Redis forgets the lock, whether its holder is still
\* in the section or gone.
Expires ==
  /\ lock # NoPopper
  /\ IF pc[lock] \in Section
       THEN /\ stalls < MaxStalls
            /\ stalls' = stalls + 1
            /\ late' = late \cup {lock}
       ELSE UNCHANGED <<stalls, late>>
  /\ lock' = NoPopper
  /\ UNCHANGED <<stream, last, pc, tries, found, given, breaks>>

GoesOn(p) ==
  \/ Begins(p) \/ Acquires(p) \/ Retries(p)
  \/ Reads(p)  \/ Deletes(p)  \/ Releases(p)

Next ==
  \/ Put \/ Expires
  \/ \E p \in Poppers : GoesOn(p) \/ ReleaseFails(p) \/ Breaks(p) \/ Dies(p)

Spec == Init /\ [][Next]_vars

\* A caller that got nothing or a message pops again, as the loop of the runner
\* does; Redis answers every command and forgets every lock.
Fairness == WF_vars(Expires) /\ \A p \in Poppers : WF_vars(GoesOn(p))

FairSpec == Spec /\ Fairness

-----------------------------------------------------------------------------
(* Properties.                                                             *)

\* Every variable has its type.
TypeOK ==
  /\ stream \subseteq 1..last
  /\ last \in Nat
  /\ lock \in Poppers \cup {NoPopper}
  /\ pc \in [Poppers -> Section \cup {"idle", "acquire"}]
  /\ tries \in [Poppers -> Nat]
  /\ found \in [Poppers -> Nat]
  /\ late \subseteq Poppers
  /\ given \in Seq([msg : Nat, time : {"kept", "late"}])
  /\ stalls \in Nat
  /\ breaks \in Nat

\* A pop that is still in time holds the lock, so there is one at a time: a late
\* one that releases "its" lock does not take it from the pop that has it now.
LockGuards == \A p \in Poppers : pc[p] \in Section /\ p \notin late => lock = p

\* The pops that are in time return the messages in the order they were put,
\* and so none of them twice, whatever the late ones do in between.
InOrder ==
  \A i, j \in DOMAIN given :
    i < j /\ given[i].time = "kept" /\ given[j].time = "kept" => given[i].msg < given[j].msg

\* Without a failure no message is lost, late pops included: it is in the
\* stream, in the hands of a pop or returned.
NothingLost ==
  breaks = 0 => \A m \in 1..last :
    \/ m \in stream
    \/ \E p \in Poppers : pc[p] = "release" /\ found[p] = m
    \/ \E i \in DOMAIN given : given[i].msg = m

\* A lock that a dead or cancelled caller left behind does not stop the others:
\* every message put is taken out of the stream in the end.
EveryMessageTaken == \A m \in 1..MaxPuts : m \in stream ~> m \notin stream

\* pop() is what the protocol promises: first in, first out, once, until a lock
\* expires under its holder.
Queue ==
  INSTANCE MessageQueue WITH
    queue <- stream,
    hand <- [p \in Poppers |-> IF pc[p] = "release" THEN found[p] ELSE 0],
    given <- {given[i].msg : i \in DOMAIN given}

IsMessageQueue == Queue!Spec
=============================================================================
