------------------------- MODULE RedisStreamProofs -------------------------
(***************************************************************************)
(* Proofs about RedisStream, for any number of poppers and messages.       *)
(***************************************************************************)
EXTENDS RedisStream, TLAPS

Timely(p) == pc[p] \in Section /\ p \notin late

\* Entries leave the stream from its front.
FrontInv == \A m \in stream : \A n \in m..last : n \in stream

\* What was returned is out of the stream.
GivenInv == \A i \in DOMAIN given : given[i].msg \in (1..last) \ stream

\* What a pop is about to delete is the first entry, or was removed by another
\* pop after a lock had expired.
FoundInv ==
  \A p \in Poppers :
    /\ pc[p] \in {"idle", "acquire", "read"} => found[p] = 0
    /\ pc[p] = "delete" => found[p] \in 1..last
    /\ pc[p] = "delete" /\ found[p] \in stream => First(found[p])
    /\ pc[p] = "delete" /\ found[p] \notin stream => stalls > 0
    /\ pc[p] = "release" => found[p] \in (0..last) \ stream

\* What a pop in time holds comes after what the pops in time returned.
NextInv ==
  \A p \in Poppers : Timely(p) /\ found[p] # 0 =>
    \A i \in DOMAIN given : given[i].time = "late" \/ given[i].msg < found[p]

StallInv == stalls = 0 => late = {} /\ \A i \in DOMAIN given : given[i].time = "kept"

StreamInv == FrontInv /\ GivenInv /\ FoundInv /\ NextInv /\ StallInv

Inv == TypeOK /\ LockGuards /\ StreamInv /\ InOrder

\* The invariant holds of an empty stream.
LEMMA InitInv == Init => Inv
BY NoPopperAssumption
   DEF Init, Inv, TypeOK, LockGuards, StreamInv, InOrder, Section, First, Timely,
       FrontInv, GivenInv, FoundInv, NextInv, StallInv

\* Two pops that are both in time are one.
LEMMA OneTimely ==
  ASSUME LockGuards, NEW p \in Poppers, NEW q \in Poppers, Timely(p), Timely(q)
  PROVE  p = q
BY DEF LockGuards, Timely

\* Every command keeps the types.
LEMMA TypeStep == TypeOK /\ [Next]_vars => TypeOK'
<1> SUFFICES ASSUME TypeOK, [Next]_vars PROVE TypeOK'
  OBVIOUS
<1> USE DEF TypeOK, Section, Goes
<1>1. CASE Put
  BY <1>1 DEF Put
<1>2. CASE Expires
  BY <1>2 DEF Expires
<1>3. ASSUME NEW p \in Poppers, Begins(p) \/ Acquires(p) \/ Retries(p) PROVE TypeOK'
  <2>1. CASE Begins(p)
    BY <2>1 DEF Begins
  <2>2. CASE Acquires(p)
    BY <2>2 DEF Acquires
  <2>3. CASE Retries(p)
    <3>1. /\ tries' \in [Poppers -> Nat] /\ pc' \in [Poppers -> Section \cup {"idle", "acquire"}]
          /\ UNCHANGED <<stream, last, lock, found, late, given, stalls, breaks>>
      <4>1. CASE tries[p] + 1 < MaxTries
        BY <2>3, <4>1 DEF Retries
      <4>2. CASE ~(tries[p] + 1 < MaxTries)
        BY <2>3, <4>2 DEF Retries
      <4>3. QED
        BY <4>1, <4>2
    <3>2. QED
      BY <3>1
  <2>4. QED
    BY <1>3, <2>1, <2>2, <2>3
<1>4. ASSUME NEW p \in Poppers, Reads(p) \/ Deletes(p) PROVE TypeOK'
  <2>1. CASE Reads(p)
    <3>1. found' \in [Poppers -> Nat]
      BY <2>1 DEF Reads
    <3>2. QED
      BY <2>1, <3>1 DEF Reads
  <2>2. CASE Deletes(p)
    BY <2>2 DEF Deletes
  <2>3. QED
    BY <1>4, <2>1, <2>2
<1>5. ASSUME NEW p \in Poppers, Returns(p)
      PROVE  /\ given' \in Seq([msg : Nat, time : {"kept", "late"}])
             /\ pc' \in [Poppers -> Section \cup {"idle", "acquire"}]
             /\ found' \in [Poppers -> Nat]
             /\ UNCHANGED <<stream, last, tries, late, stalls>>
  <2>1. [msg |-> found[p], time |-> TimeOf(p)] \in [msg : Nat, time : {"kept", "late"}]
    BY DEF TimeOf
  <2>2. given' \in Seq([msg : Nat, time : {"kept", "late"}])
    <3>1. CASE found[p] = 0
      BY <1>5, <3>1 DEF Returns
    <3>2. CASE found[p] # 0
      BY <1>5, <2>1, <3>2 DEF Returns
    <3>3. QED
      BY <3>1, <3>2
  <2>3. QED
    BY <1>5, <2>2 DEF Returns
<1>6. ASSUME NEW p \in Poppers, Releases(p) \/ ReleaseFails(p) PROVE TypeOK'
  <2>1. /\ lock' \in Poppers \cup {NoPopper} /\ breaks' \in Nat
        /\ Returns(p)
    BY <1>6 DEF Releases, ReleaseFails, Unlocked, Failure
  <2>2. QED
    BY <1>5, <2>1
<1>7. ASSUME NEW p \in Poppers, Breaks(p) PROVE TypeOK'
  <2>1. stream' \subseteq stream /\ lock' \in Poppers \cup {NoPopper}
    BY <1>7 DEF Breaks, Unlocked
  <2>2. pc' \in [Poppers -> Section \cup {"idle", "acquire"}]
    BY <1>7 DEF Breaks
  <2>3. /\ found' \in [Poppers -> Nat] /\ breaks' \in Nat
        /\ UNCHANGED <<last, tries, late, given, stalls>>
    BY <1>7 DEF Breaks, Failure
  <2>4. QED
    BY <2>1, <2>2, <2>3
<1>8. ASSUME NEW p \in Poppers, Dies(p) PROVE TypeOK'
  <2>1. /\ pc' \in [Poppers -> Section \cup {"idle", "acquire"}]
        /\ found' \in [Poppers -> Nat] /\ breaks' \in Nat
        /\ UNCHANGED <<stream, last, lock, tries, late, given, stalls>>
    BY <1>8 DEF Dies, Failure
  <2>2. QED
    BY <2>1
<1>9. CASE UNCHANGED vars
  BY <1>9 DEF vars
<1>10. QED
  BY <1>1, <1>2, <1>3, <1>4, <1>6, <1>7, <1>8, <1>9 DEF Next, GoesOn

\* Only the expiry of the lock leaves a pop in the section without it, and
\* makes it late.
LEMMA LockStep == TypeOK /\ LockGuards /\ [Next]_vars => LockGuards'
<1> SUFFICES ASSUME TypeOK, LockGuards, [Next]_vars PROVE LockGuards'
  OBVIOUS
<1> USE DEF TypeOK, Section, Goes, LockGuards
<1>1. CASE Put
  BY <1>1 DEF Put
<1>2. CASE Expires
  BY <1>2 DEF Expires
<1>3. ASSUME NEW p \in Poppers, Begins(p) \/ Acquires(p) \/ Retries(p) PROVE LockGuards'
  BY <1>3, NoPopperAssumption DEF Begins, Acquires, Retries
<1>4. ASSUME NEW p \in Poppers, Reads(p) \/ Deletes(p) PROVE LockGuards'
  BY <1>4 DEF Reads, Deletes
<1>5. ASSUME NEW p \in Poppers, Releases(p) \/ ReleaseFails(p) PROVE LockGuards'
  BY <1>5 DEF Releases, ReleaseFails, Returns, Unlocked
<1>6. ASSUME NEW p \in Poppers, Breaks(p) PROVE LockGuards'
  BY <1>6, NoPopperAssumption DEF Breaks, Unlocked
<1>7. ASSUME NEW p \in Poppers, Dies(p) PROVE LockGuards'
  BY <1>7 DEF Dies
<1>8. CASE UNCHANGED vars
  BY <1>8 DEF vars
<1>9. QED
  BY <1>1, <1>2, <1>3, <1>4, <1>5, <1>6, <1>7, <1>8 DEF Next, GoesOn

\* What a pop in time found stays the first entry until it deletes it, and what
\* is left in the stream comes after what was returned.
LEMMA StreamStep == TypeOK /\ LockGuards /\ StreamInv /\ [Next]_vars => StreamInv'
<1> SUFFICES ASSUME TypeOK, LockGuards, StreamInv, [Next]_vars PROVE StreamInv'
  OBVIOUS
<1> USE DEF TypeOK, Section, Goes, StreamInv
<1>1. CASE Put
  <2>1. FrontInv' /\ GivenInv' /\ NextInv' /\ StallInv'
    BY <1>1 DEF Put, FrontInv, GivenInv, NextInv, StallInv, Timely
  <2>2. \A m \in stream : First(m) => First(m)'
    BY <1>1 DEF Put, First
  <2>3. FoundInv'
    BY <1>1, <2>2 DEF Put, FoundInv
  <2>4. QED
    BY <2>1, <2>3
<1>2. CASE Expires
  BY <1>2 DEF Expires, FrontInv, GivenInv, FoundInv, NextInv, StallInv, Timely, First
<1>3. ASSUME NEW p \in Poppers, Begins(p) \/ Acquires(p) \/ Retries(p) PROVE StreamInv'
  <2>1. /\ UNCHANGED <<stream, last, given, found, stalls>> /\ late' \subseteq late
        /\ pc'[p] \in {"idle", "acquire", "read"} /\ pc[p] \in {"idle", "acquire"}
        /\ \A q \in Poppers \ {p} : pc'[q] = pc[q] /\ (q \in late' <=> q \in late)
    BY <1>3 DEF Begins, Acquires, Retries
  <2>2. FrontInv' /\ GivenInv' /\ StallInv'
    BY <2>1 DEF FrontInv, GivenInv, StallInv
  <2>3. FoundInv' /\ NextInv'
    BY <2>1 DEF FoundInv, NextInv, Timely, First
  <2>4. QED
    BY <2>2, <2>3
<1>4. ASSUME NEW p \in Poppers, Reads(p) PROVE StreamInv'
  <2>1. FrontInv' /\ GivenInv' /\ StallInv'
    BY <1>4 DEF Reads, FrontInv, GivenInv, StallInv
  <2>2. ASSUME NEW m \in stream, First(m), NEW i \in DOMAIN given PROVE given[i].msg < m
    <3>1. given[i].msg \in (1..last) \ stream /\ m \in 1..last
      BY DEF GivenInv
    <3>2. given[i].msg \in m..last => given[i].msg \in stream
      BY DEF FrontInv
    <3>3. QED
      BY <3>1, <3>2
  <2>3. CASE found' = [found EXCEPT ![p] = 0] /\ Goes(p, "release")
    <3>1. UNCHANGED <<stream, last, given, late, stalls>>
      BY <1>4 DEF Reads
    <3>2. FoundInv'
      BY <2>3, <3>1 DEF FoundInv, First
    <3>3. NextInv'
      BY <2>3, <3>1 DEF NextInv, Timely
    <3>4. QED
      BY <2>1, <3>2, <3>3
  <2>4. ASSUME NEW m \in stream, First(m), found' = [found EXCEPT ![p] = m], Goes(p, "delete")
        PROVE  FoundInv' /\ NextInv'
    <3>1. UNCHANGED <<stream, last, given, late, stalls>>
      BY <1>4 DEF Reads
    <3>2. FoundInv'
      BY <2>4, <3>1 DEF FoundInv, First
    <3>3. NextInv'
      BY <2>2, <2>4, <3>1 DEF NextInv, Timely
    <3>4. QED
      BY <3>2, <3>3
  <2>5. QED
    BY <1>4, <2>1, <2>3, <2>4 DEF Reads
<1>5. ASSUME NEW p \in Poppers, pc[p] = "delete", stream' = stream \ {found[p]},
             found' \in {found, [found EXCEPT ![p] = 0]}, Goes(p, "release"),
             UNCHANGED <<last, late, given, stalls>>
      PROVE  StreamInv'
  <2>1. FrontInv' /\ GivenInv' /\ StallInv'
    BY <1>5 DEF FrontInv, GivenInv, StallInv, FoundInv, First
  <2>2. NextInv'
    BY <1>5 DEF NextInv, Timely
  <2>3. ASSUME NEW q \in Poppers \ {p}, pc[q] = "delete", stalls = 0 PROVE FALSE
    BY <1>5, <2>3 DEF LockGuards, StallInv
  <2>4. FoundInv'
    BY <1>5, <2>3 DEF FoundInv, First
  <2>5. QED
    BY <2>1, <2>2, <2>4
<1>6. ASSUME NEW p \in Poppers, Deletes(p) PROVE StreamInv'
  BY <1>5, <1>6 DEF Deletes
<1>7. ASSUME NEW p \in Poppers, Returns(p), pc[p] = "release" PROVE StreamInv'
  <2>1. /\ UNCHANGED <<stream, last, late, stalls>>
        /\ pc' = [pc EXCEPT ![p] = "idle"] /\ found' = [found EXCEPT ![p] = 0]
    BY <1>7 DEF Returns
  <2>2. FrontInv' /\ FoundInv'
    BY <2>1 DEF FrontInv, FoundInv, First
  <2>3. CASE given' = given
    BY <2>1, <2>2, <2>3 DEF GivenInv, NextInv, StallInv, Timely
  <2>4. CASE found[p] # 0 /\ given' = Append(given, [msg |-> found[p], time |-> TimeOf(p)])
    <3>1. \A i \in DOMAIN given' :
            \/ i \in DOMAIN given /\ given'[i] = given[i]
            \/ given'[i] = [msg |-> found[p], time |-> TimeOf(p)]
      BY <2>4
    <3>2. found[p] \in (1..last) \ stream
      BY <1>7, <2>4 DEF FoundInv
    <3>3. GivenInv'
      BY <2>1, <3>1, <3>2 DEF GivenInv
    <3>4. StallInv'
      BY <2>1, <3>1 DEF StallInv, TimeOf
    <3>5. ASSUME NEW q \in Poppers, Timely(q)', found'[q] # 0, NEW i \in DOMAIN given'
          PROVE  given'[i].time = "late" \/ given'[i].msg < found'[q]
      <4>1. q # p /\ Timely(q) /\ found'[q] = found[q]
        BY <2>1, <3>5 DEF Timely
      <4>2. p \in late
        BY <1>7, <4>1 DEF LockGuards, Timely
      <4>3. QED
        BY <3>1, <3>5, <4>1, <4>2 DEF NextInv, TimeOf
    <3>6. QED
      BY <2>2, <3>3, <3>4, <3>5 DEF NextInv
  <2>5. QED
    BY <1>7, <2>3, <2>4 DEF Returns
<1>8. ASSUME NEW p \in Poppers, Releases(p) \/ ReleaseFails(p) PROVE StreamInv'
  BY <1>7, <1>8 DEF Releases, ReleaseFails
<1>9. ASSUME NEW p \in Poppers, found' = [found EXCEPT ![p] = 0],
             pc'[p] \in {"idle", "release"}, \A q \in Poppers \ {p} : pc'[q] = pc[q],
             UNCHANGED <<stream, last, late, given, stalls>>
      PROVE  StreamInv'
  <2>1. FrontInv' /\ GivenInv' /\ StallInv'
    BY <1>9 DEF FrontInv, GivenInv, StallInv
  <2>2. FoundInv' /\ NextInv'
    BY <1>9 DEF FoundInv, NextInv, Timely, First
  <2>3. QED
    BY <2>1, <2>2
<1>10. ASSUME NEW p \in Poppers, Breaks(p) \/ Dies(p) PROVE StreamInv'
  <2>1. CASE /\ pc[p] = "delete" /\ stream' = stream \ {found[p]} /\ Goes(p, "release")
             /\ Breaks(p)
    BY <1>5, <2>1 DEF Breaks
  <2>2. CASE /\ stream' = stream /\ pc'[p] \in {"idle", "release"}
             /\ \A q \in Poppers \ {p} : pc'[q] = pc[q]
    BY <1>9, <1>10, <2>2 DEF Breaks, Dies
  <2>3. QED
    BY <1>10, <2>1, <2>2 DEF Breaks, Dies
<1>11. CASE UNCHANGED vars
  BY <1>11 DEF vars, FrontInv, GivenInv, FoundInv, NextInv, StallInv, Timely, First
<1>12. QED
  BY <1>1, <1>2, <1>3, <1>4, <1>6, <1>8, <1>10, <1>11 DEF Next, GoesOn

\* A pop in time returns something newer than all that was returned in time.
LEMMA OrderStep ==
  TypeOK /\ LockGuards /\ StreamInv /\ InOrder /\ [Next]_vars => InOrder'
<1> SUFFICES ASSUME TypeOK, LockGuards, StreamInv, InOrder, [Next]_vars PROVE InOrder'
  OBVIOUS
<1> USE DEF TypeOK
<1>1. ASSUME NEW p \in Poppers, Returns(p), pc[p] = "release", found[p] # 0
      PROVE  InOrder'
  <2>1. given' = Append(given, [msg |-> found[p], time |-> TimeOf(p)])
    BY <1>1 DEF Returns
  <2>2. /\ \A i \in DOMAIN given : i \in DOMAIN given' /\ given'[i] = given[i]
        /\ \A i \in DOMAIN given' : i \in DOMAIN given \/ i = Len(given) + 1
        /\ given'[Len(given) + 1] = [msg |-> found[p], time |-> TimeOf(p)]
        /\ \A i \in DOMAIN given : i \in Nat /\ i <= Len(given)
    BY <2>1
  <2>3. ASSUME p \notin late, NEW i \in DOMAIN given, given[i].time = "kept"
        PROVE  given[i].msg < found[p]
    BY <1>1, <2>3 DEF StreamInv, NextInv, Timely, Section
  <2>4. ASSUME NEW i \in DOMAIN given', NEW j \in DOMAIN given', i < j,
               given'[i].time = "kept", given'[j].time = "kept"
        PROVE  given'[i].msg < given'[j].msg
    <3>1. i \in DOMAIN given
      BY <2>2, <2>4
    <3>2. CASE j \in DOMAIN given
      BY <2>2, <2>4, <3>1, <3>2 DEF InOrder
    <3>3. CASE j = Len(given) + 1
      BY <2>2, <2>3, <2>4, <3>1, <3>3 DEF TimeOf
    <3>4. QED
      BY <2>2, <3>2, <3>3
  <2>5. QED
    BY <2>4 DEF InOrder
<1>2. CASE given' = given
  BY <1>2 DEF InOrder
<1>3. QED
  BY <1>1, <1>2 DEF Next, GoesOn, Put, Expires, Begins, Acquires, Retries, Reads,
     Deletes, Releases, ReleaseFails, Returns, Breaks, Dies, vars

\* The invariant is kept by every command.
LEMMA StepInv == Inv /\ [Next]_vars => Inv'
BY TypeStep, LockStep, StreamStep, OrderStep DEF Inv

\* The queue keeps its types: the stream holds ids that Redis gave.
THEOREM TypeCorrect == Spec => []TypeOK
<1>1. Inv => TypeOK
  BY DEF Inv
<1>2. QED
  BY InitInv, StepInv, <1>1, PTL DEF Spec

\* At most one pop is in its critical section in time, and no late one ever
\* takes the lock from it.
THEOREM LockProtects == Spec => []LockGuards
<1>1. Inv => LockGuards
  BY DEF Inv
<1>2. QED
  BY InitInv, StepInv, <1>1, PTL DEF Spec

\* First in, first out, and once, for every pop that kept its lock.
THEOREM PopsInOrder == Spec => []InOrder
<1>1. Inv => InOrder
  BY DEF Inv
<1>2. QED
  BY InitInv, StepInv, <1>1, PTL DEF Spec

(***************************************************************************)
(* No message is lost.                                                     *)
(***************************************************************************)

InHand(m) == \E p \in Poppers : pc[p] = "release" /\ found[p] = m
Returned(m) == \E i \in DOMAIN given : given[i].msg = m
Kept(m) == m \in stream \/ InHand(m) \/ Returned(m)

\* Without a failure, no command makes a message disappear.
LEMMA LostStep == TypeOK /\ StreamInv /\ NothingLost /\ [Next]_vars => NothingLost'
<1> SUFFICES ASSUME TypeOK, StreamInv, NothingLost, [Next]_vars PROVE NothingLost'
  OBVIOUS
<1> USE DEF TypeOK, Goes
<1>1. SUFFICES ASSUME breaks' = 0, NEW m \in 1..last' PROVE Kept(m)'
  BY DEF NothingLost, Kept, InHand, Returned
<1>2. breaks = 0
  <2>1. breaks' = breaks \/ breaks' = breaks + 1
    <3>1. CASE Put \/ Expires \/ UNCHANGED vars
      BY <3>1 DEF Put, Expires, vars
    <3>2. ASSUME NEW p \in Poppers, GoesOn(p) PROVE breaks' = breaks
      BY <3>2 DEF GoesOn, Begins, Acquires, Retries, Reads, Deletes, Releases
    <3>3. ASSUME NEW p \in Poppers, ReleaseFails(p) \/ Breaks(p) \/ Dies(p)
          PROVE  breaks' = breaks + 1
      BY <3>3 DEF ReleaseFails, Breaks, Dies, Failure
    <3>4. QED
      BY <3>1, <3>2, <3>3 DEF Next
  <2>2. QED
    BY <1>1, <2>1
<1>3. m \in 1..last => Kept(m)
  BY <1>2 DEF NothingLost, Kept, InHand, Returned
<1>4. CASE Put
  <2>1. m \in 1..last \/ m \in stream'
    BY <1>4 DEF Put
  <2>2. CASE m \in 1..last
    BY <1>3, <1>4, <2>2 DEF Put, Kept, InHand, Returned
  <2>3. QED
    BY <2>1, <2>2 DEF Kept
<1>5. CASE Expires \/ UNCHANGED vars
  BY <1>3, <1>5 DEF Expires, vars, Kept, InHand, Returned
<1>6. ASSUME NEW p \in Poppers, Begins(p) \/ Acquires(p) \/ Retries(p) \/ Reads(p)
      PROVE  Kept(m)'
  <2>1. UNCHANGED <<stream, last, given>>
    BY <1>6 DEF Begins, Acquires, Retries, Reads
  <2>2. ASSUME NEW q \in Poppers, pc[q] = "release"
        PROVE  pc'[q] = "release" /\ found'[q] = found[q]
    BY <1>6, <2>2 DEF Begins, Acquires, Retries, Reads
  <2>3. QED
    BY <1>3, <2>1, <2>2 DEF Kept, InHand, Returned
<1>7. ASSUME NEW p \in Poppers, Deletes(p) PROVE Kept(m)'
  <2>1. CASE m \in stream /\ m = found[p]
    BY <1>7, <2>1 DEF Deletes, Kept, InHand
  <2>2. CASE m \in stream /\ m # found[p]
    BY <1>7, <2>2 DEF Deletes, Kept
  <2>3. CASE InHand(m) \/ Returned(m)
    BY <1>7, <2>3 DEF Deletes, Kept, InHand, Returned
  <2>4. QED
    BY <1>3, <1>7, <2>1, <2>2, <2>3 DEF Kept, Deletes
<1>8. ASSUME NEW p \in Poppers, Releases(p) PROVE Kept(m)'
  <2>1. UNCHANGED <<stream, last>> /\ pc[p] = "release"
    BY <1>8 DEF Releases, Returns
  <2>2. /\ \A i \in DOMAIN given : i \in DOMAIN given' /\ given'[i] = given[i]
        /\ found[p] # 0 => \E i \in DOMAIN given' : given'[i].msg = found[p]
    <3>1. CASE found[p] = 0
      BY <1>8, <3>1 DEF Releases, Returns
    <3>2. CASE found[p] # 0
      <4>1. given' = Append(given, [msg |-> found[p], time |-> TimeOf(p)])
        BY <1>8, <3>2 DEF Releases, Returns
      <4>2. Len(given) + 1 \in DOMAIN given' /\ given'[Len(given) + 1].msg = found[p]
        BY <4>1
      <4>3. QED
        BY <4>1, <4>2
    <3>3. QED
      BY <3>1, <3>2
  <2>3. CASE Returned(m)
    BY <2>2, <2>3 DEF Kept, Returned
  <2>4. CASE InHand(m) /\ found[p] = m
    BY <2>2, <2>4, <1>1 DEF Kept, Returned
  <2>5. CASE InHand(m) /\ found[p] # m
    BY <1>8, <2>5 DEF Kept, InHand, Releases, Returns
  <2>6. QED
    BY <1>3, <2>1, <2>3, <2>4, <2>5 DEF Kept
<1>9. ASSUME NEW p \in Poppers, ReleaseFails(p) \/ Breaks(p) \/ Dies(p) PROVE FALSE
  BY <1>1, <1>2, <1>9 DEF ReleaseFails, Breaks, Dies, Failure
<1>10. QED
  BY <1>4, <1>5, <1>6, <1>7, <1>8, <1>9 DEF Next, GoesOn

\* Late pops repeat messages, they lose none: only failures do.
THEOREM LosesNothing == Spec => []NothingLost
<1>1. Init => NothingLost
  BY DEF Init, NothingLost
<1>2. Inv /\ NothingLost /\ [Next]_vars => NothingLost'
  BY LostStep DEF Inv
<1>3. QED
  BY InitInv, StepInv, <1>1, <1>2, PTL DEF Spec

(***************************************************************************)
(* The stream implements the queue.                                        *)
(***************************************************************************)

Hand == [p \in Poppers |-> IF pc[p] = "release" THEN found[p] ELSE 0]
Given == {given[i].msg : i \in DOMAIN given}

\* An empty stream is an empty queue.
LEMMA InitQueue == Init => Queue!Init
BY DEF Init, Queue!Init

\* Every command is a step of the queue of the protocol or invisible to it.
LEMMA StepQueue == Inv /\ [Next]_vars => [Queue!Next]_(Queue!vars)
<1> SUFFICES ASSUME Inv, [Next]_vars PROVE Queue!Next \/ UNCHANGED Queue!vars
  OBVIOUS
<1> USE DEF Goes, Inv, TypeOK
<1>1. ASSUME Hand' = Hand, Given' = Given, UNCHANGED <<stream, last, stalls>>
      PROVE  UNCHANGED Queue!vars
  BY <1>1 DEF Hand, Given, Queue!vars
<1>2. CASE Put
  <2>1. Hand' = Hand /\ Given' = Given
    BY <1>2 DEF Put, Hand, Given
  <2>2. Queue!Put
    BY <1>2, <2>1 DEF Put, Hand, Given, Queue!Put
  <2>3. QED
    BY <2>2 DEF Queue!Next
<1>3. CASE Expires
  <2>1. Hand' = Hand /\ Given' = Given /\ UNCHANGED <<stream, last>>
    BY <1>3 DEF Expires, Hand, Given
  <2>2. CASE stalls' = stalls
    BY <1>1, <2>1, <2>2
  <2>3. CASE stalls' = stalls + 1
    <3>1. Queue!Stall
      BY <2>1, <2>3 DEF Hand, Given, Queue!Stall
    <3>2. QED
      BY <3>1 DEF Queue!Next
  <2>4. QED
    BY <1>3, <2>2, <2>3 DEF Expires
<1>4. ASSUME NEW p \in Poppers, Begins(p) \/ Acquires(p) \/ Retries(p) \/ Reads(p)
      PROVE  UNCHANGED Queue!vars
  <2>1. Hand' = Hand
    BY <1>4 DEF Begins, Acquires, Retries, Reads, Hand, StreamInv, FoundInv
  <2>2. UNCHANGED <<stream, last, given, stalls>>
    BY <1>4 DEF Begins, Acquires, Retries, Reads
  <2>3. QED
    BY <1>1, <2>1, <2>2 DEF Given
<1>5. ASSUME NEW p \in Poppers, Deletes(p)
      PROVE  Queue!Next
  <2>1. /\ Hand[p] = 0 /\ Hand' = [Hand EXCEPT ![p] = found[p]] /\ Given' = Given
        /\ UNCHANGED <<last, stalls>> /\ stream' = stream \ {found[p]}
    BY <1>5 DEF Deletes, Hand, Given
  <2>2. /\ found[p] \in 1..last
        /\ found[p] \in stream => First(found[p])
        /\ found[p] \notin stream => stalls > 0
    BY <1>5 DEF Deletes, StreamInv, FoundInv
  <2>3. CASE found[p] \in stream
    <3>1. Queue!Take(p)
      BY <2>1, <2>2, <2>3 DEF Hand, Given, First, Queue!Take, Queue!First
    <3>2. QED
      BY <3>1 DEF Queue!Next
  <2>4. CASE found[p] \notin stream
    <3>1. Queue!Repeat(p)
      BY <2>1, <2>2, <2>4 DEF Hand, Given, Queue!Repeat
    <3>2. QED
      BY <3>1 DEF Queue!Next
  <2>5. QED
    BY <2>3, <2>4
<1>6. ASSUME NEW p \in Poppers, Returns(p), pc[p] = "release"
      PROVE  Queue!Next \/ UNCHANGED Queue!vars
  <2>1. /\ Hand[p] = found[p] /\ Hand' = [Hand EXCEPT ![p] = 0]
        /\ UNCHANGED <<stream, last, stalls>>
    BY <1>6 DEF Returns, Hand
  <2>2. CASE found[p] = 0
    <3>1. given' = given /\ Hand' = Hand
      BY <1>6, <2>1, <2>2 DEF Returns, Hand
    <3>2. QED
      BY <1>1, <2>1, <3>1 DEF Given
  <2>3. CASE found[p] # 0
    <3>1. given' = Append(given, [msg |-> found[p], time |-> TimeOf(p)])
      BY <1>6, <2>3 DEF Returns
    <3>2. /\ \A i \in DOMAIN given : i \in DOMAIN given' /\ given'[i] = given[i]
          /\ \A i \in DOMAIN given' : i \in DOMAIN given \/ given'[i].msg = found[p]
          /\ \E i \in DOMAIN given' : given'[i].msg = found[p]
      <4>1. Len(given) + 1 \in DOMAIN given' /\ given'[Len(given) + 1].msg = found[p]
        BY <3>1
      <4>2. QED
        BY <3>1, <4>1
    <3>3. Given' = Given \cup {found[p]}
      BY <3>2 DEF Given
    <3>4. stalls = 0 => found[p] \notin Given
      <4>1. ASSUME stalls = 0, NEW i \in DOMAIN given PROVE given[i].msg < found[p]
        BY <1>6, <2>3, <4>1 DEF StreamInv, StallInv, NextInv, Timely, Section
      <4>2. QED
        BY <4>1 DEF Given
    <3>5. Queue!Return(p)
      BY <2>1, <2>3, <3>3, <3>4 DEF Hand, Given, Queue!Return
    <3>6. QED
      BY <3>5 DEF Queue!Next
  <2>4. QED
    BY <2>2, <2>3
<1>7. ASSUME NEW p \in Poppers, Releases(p) \/ ReleaseFails(p)
      PROVE  Queue!Next \/ UNCHANGED Queue!vars
  BY <1>6, <1>7 DEF Releases, ReleaseFails
<1>8. ASSUME NEW p \in Poppers, Breaks(p) \/ Dies(p)
      PROVE  Queue!Next \/ UNCHANGED Queue!vars
  <2>1. /\ Hand' = [Hand EXCEPT ![p] = 0] /\ Given' = Given
        /\ UNCHANGED <<last, stalls>>
    <3>1. found' = [found EXCEPT ![p] = 0] /\ UNCHANGED <<last, stalls, given>>
      BY <1>8 DEF Breaks, Dies
    <3>2. \E there \in {"idle", "release"} : pc' = [pc EXCEPT ![p] = there]
      <4>1. CASE Breaks(p)
        BY <4>1 DEF Breaks
      <4>2. CASE Dies(p)
        BY <4>2 DEF Dies
      <4>3. QED
        BY <1>8, <4>1, <4>2
    <3>3. Hand' = [Hand EXCEPT ![p] = 0]
      BY <3>1, <3>2 DEF Hand
    <3>4. QED
      BY <3>1, <3>3 DEF Given
  <2>2. CASE pc[p] = "release" /\ found[p] # 0
    <3>1. Hand[p] # 0 /\ stream' = stream
      BY <1>8, <2>2 DEF Breaks, Dies, Hand
    <3>2. Queue!Lose(p)
      BY <2>1, <3>1 DEF Hand, Given, Queue!Lose
    <3>3. QED
      BY <3>2 DEF Queue!Next
  <2>3. CASE ~(pc[p] = "release" /\ found[p] # 0)
    <3>1. Hand' = Hand
      BY <2>1, <2>3 DEF Hand
    <3>2. CASE stream' = stream
      BY <1>1, <2>1, <3>1, <3>2
    <3>3. CASE found[p] \in stream /\ pc[p] = "delete" /\ stream' = stream \ {found[p]}
      <4>1. First(found[p])
        BY <3>3 DEF StreamInv, FoundInv
      <4>2. Queue!Drop
        BY <2>1, <3>1, <3>3, <4>1 DEF Hand, Given, First, Queue!Drop, Queue!First
      <4>3. QED
        BY <4>2 DEF Queue!Next
    <3>4. QED
      BY <1>8, <3>2, <3>3 DEF Breaks, Dies
  <2>4. QED
    BY <2>2, <2>3
<1>9. CASE UNCHANGED vars
  BY <1>1, <1>9 DEF vars, Hand, Given
<1>10. QED
  BY <1>2, <1>3, <1>4, <1>5, <1>7, <1>8, <1>9 DEF Next, GoesOn

\* The Redis stream with its expiring lock is the queue of the protocol: it may
\* repeat a message only after a lock expired under its holder.
THEOREM ImplementsMessageQueue == Spec => IsMessageQueue
BY InitInv, StepInv, InitQueue, StepQueue, PTL DEF Spec, IsMessageQueue, Queue!Spec
=============================================================================
