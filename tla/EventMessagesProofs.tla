------------------------ MODULE EventMessagesProofs ------------------------
(***************************************************************************)
(* The limit on direct messages, for every number of organizers, people,   *)
(* messages and ticks.  It is inductive once counted at the claim: the     *)
(* messages of a window that have not failed, `Counting`, are never more   *)
(* than the limit, and one that reached somebody never fails.              *)
(***************************************************************************)
EXTENDS EventMessages, FiniteSetTheorems, TLAPS

BoundIsANumber == MaxMessages \in Nat

Message == [via : Via, status : Status, at : Nat]
Request == [id : Ids \cup {0}, todo : SUBSET Readers]

\* What counts against the limit in the window that ends at t.
Counting(t) == {i \in Claimed : /\ messages[i].via = "dm" /\ messages[i].status # "failed"
                                /\ messages[i].at > t - Window /\ messages[i].at <= t}

IdsInOrder     == \E n \in 0..MaxMessages : Claimed = 1..n
UnclaimedIsNew == \A i \in Ids : messages[i] = Unused => reached[i] = {}
SendsAClaim    == \A o \in Organizers : sending[o].id # 0 => messages[sending[o].id].status = "sending"
OneSender      == \A o, p \in Organizers : sending[o].id # 0 /\ sending[o].id = sending[p].id => o = p
FailedIsUnread == \A i \in Ids : messages[i].status = "failed" => reached[i] = {}
ClaimedByNow   == \A i \in Claimed : messages[i].at <= moment
WindowsHold    == \A t \in 0..moment : Cardinality(Counting(t)) <= Limit

Inv == /\ TypeOK /\ IdsInOrder /\ UnclaimedIsNew /\ SendsAClaim /\ OneSender
       /\ FailedIsUnread /\ ClaimedByNow /\ WindowsHold

\* A claimed message is a record of its own kind, never the unused one.
LEMMA UnusedIsNoMessage == \A m \in Message : m # Unused /\ m.status # "none" /\ m.via # "none"
BY DEF Message, Unused, Via, Status

\* The claimed ids are among the ids, and finitely many.
LEMMA ClaimedIsFinite ==
  ASSUME BoundIsANumber PROVE IsFiniteSet(Claimed) /\ \A t : IsFiniteSet(Counting(t))
<1>1. IsFiniteSet(Ids)
  BY FS_Interval DEF BoundIsANumber, Ids
<1>2. Claimed \subseteq Ids /\ \A t : Counting(t) \subseteq Ids
  BY DEF Claimed, Counting
<1> QED
  BY <1>1, <1>2, FS_Subset

\* The id a claim takes is one nobody has claimed (ClaimMessage's INSERT).
LEMMA NextIdIsFree ==
  ASSUME BoundIsANumber, IdsInOrder, NEW i \in Ids, i = Cardinality(Claimed) + 1
  PROVE  messages[i] = Unused /\ Claimed = 1..(i - 1)
<1>1. PICK n \in 0..MaxMessages : Claimed = 1..n
  BY DEF IdsInOrder
<1>2. Cardinality(1..n) = n
  <2>1. 1 \in Int /\ n \in Int /\ (1 > n => n = 0)
    BY DEF BoundIsANumber
  <2> QED
    BY <2>1, FS_Interval
<1>3. i = n + 1
  BY <1>1, <1>2
<1>4. i \notin Claimed
  BY <1>1, <1>3
<1>5. messages[i] = Unused
  BY <1>4 DEF Claimed
<1>6. i - 1 = n
  BY <1>3
<1> QED
  BY <1>1, <1>5, <1>6


-----------------------------------------------------------------------------
\* ClaimMessage keeps the invariant: the limit is read with the claim.
LEMMA ClaimKeepsTheRest ==
  ASSUME BoundIsANumber, Inv, NEW o \in Organizers, NEW via \in Via, ClaimMessage(o, via)
  PROVE  /\ TypeOK' /\ IdsInOrder' /\ UnclaimedIsNew' /\ SendsAClaim' /\ OneSender'
         /\ FailedIsUnread' /\ ClaimedByNow'
<1> DEFINE new == [via |-> via, status |-> "sending", at |-> moment]
<1>1. PICK i \in Ids, people \in (SUBSET Readers) \ {{}} :
        /\ i = Cardinality(Claimed) + 1
        /\ messages' = [messages EXCEPT ![i] = new]
        /\ sending' = [sending EXCEPT ![o] = [id |-> i, todo |-> people]]
  BY DEF ClaimMessage
<1>2. moment' = moment /\ reached' = reached
  BY DEF ClaimMessage
<1>3. messages[i] = Unused /\ Claimed = 1..(i - 1)
  BY <1>1, NextIdIsFree DEF Inv
<1>4. new \in Message /\ new # Unused
  BY DEF Inv, TypeOK, Message, Status, Unused, Via
<1>5. messages \in [Ids -> Message \cup {Unused}] /\ sending \in [Organizers -> Request]
  BY DEF Inv, TypeOK, Message, Request
<1>6. \A j \in Ids : messages'[j] = IF j = i THEN new ELSE messages[j]
  BY <1>1, <1>5
<1>7. \A p \in Organizers : sending'[p] = IF p = o THEN [id |-> i, todo |-> people] ELSE sending[p]
  BY <1>1, <1>5
<1>8. messages[i].status = "none" /\ new.status = "sending" /\ new.at = moment
  BY <1>3 DEF Unused
<1> HIDE DEF new
<1>9. TypeOK'
  <2>1. messages' \in [Ids -> Message \cup {Unused}]
    BY <1>1, <1>4, <1>5
  <2>2. sending' \in [Organizers -> Request]
    BY <1>1, <1>5 DEF Request
  <2> QED
    BY <1>2, <2>1, <2>2 DEF Inv, TypeOK, Message, Request
<1>10. Claimed' = Claimed \cup {i}
  BY <1>4, <1>6 DEF Claimed
<1>11. IdsInOrder'
  <2>1. i \in 1..MaxMessages
    BY DEF Ids
  <2>2. Claimed' = 1..i
    BY <1>3, <1>10, <2>1 DEF BoundIsANumber
  <2> QED
    BY <2>1, <2>2 DEF IdsInOrder, BoundIsANumber
<1>12. UnclaimedIsNew'
  BY <1>2, <1>4, <1>6 DEF Inv, UnclaimedIsNew
<1>13. \A p \in Organizers : sending[p].id # i
  <2>1. i # 0
    BY DEF Ids
  <2> QED
    BY <1>8, <2>1 DEF Inv, SendsAClaim
<1>14. \A p \in Organizers : sending[p].id \in Ids \cup {0}
  BY <1>5 DEF Request
<1>15. SendsAClaim'
  BY <1>6, <1>7, <1>8, <1>13, <1>14 DEF Inv, SendsAClaim
<1>16. OneSender'
  BY <1>7, <1>13 DEF Inv, OneSender
<1>17. FailedIsUnread'
  BY <1>2, <1>6, <1>8 DEF Inv, FailedIsUnread
<1>18. ClaimedByNow'
  <2>1. moment \in Nat
    BY DEF Inv, TypeOK
  <2> QED
    BY <1>2, <1>6, <1>8, <1>10, <2>1 DEF Inv, ClaimedByNow, Claimed
<1> QED
  BY <1>9, <1>11, <1>12, <1>15, <1>16, <1>17, <1>18

\* ... and no window gets more than the limit by it.
LEMMA ClaimKeepsTheLimit ==
  ASSUME BoundIsANumber, Inv, NEW o \in Organizers, NEW via \in Via, ClaimMessage(o, via)
  PROVE  WindowsHold'
<1> DEFINE new == [via |-> via, status |-> "sending", at |-> moment]
<1>1. PICK i \in Ids : i = Cardinality(Claimed) + 1 /\ messages' = [messages EXCEPT ![i] = new]
  BY DEF ClaimMessage
<1>2. moment' = moment /\ moment \in Nat /\ (via = "dm" => Cardinality(Recent) < Limit)
  BY DEF ClaimMessage, Inv, TypeOK
<1>3. messages[i] = Unused /\ i \notin Claimed
  BY <1>1, NextIdIsFree DEF Inv, Claimed
<1>4. new # Unused /\ new.via = via /\ new.at = moment /\ new.status = "sending"
  BY DEF Unused
<1>5. \A j \in Ids : messages'[j] = IF j = i THEN new ELSE messages[j]
  BY <1>1 DEF Inv, TypeOK
<1> HIDE DEF new
<1>6. Claimed' = Claimed \cup {i}
  BY <1>4, <1>5 DEF Claimed
<1> SUFFICES ASSUME NEW t \in 0..moment PROVE Cardinality(Counting(t)') <= Limit
  BY <1>2 DEF WindowsHold, Counting
<1>7. Counting(t)' \subseteq Counting(t) \cup {i}
  BY <1>5, <1>6 DEF Counting, Claimed
<1>8. CASE via = "dm" /\ t = moment
  <2>1. Counting(t) \subseteq Recent
    BY <1>8 DEF Counting, Recent
  <2>2. IsFiniteSet(Recent) /\ IsFiniteSet(Counting(t))
    <3>1. Recent \subseteq Claimed
      BY DEF Recent
    <3> QED
      BY <3>1, ClaimedIsFinite, FS_Subset
  <2>3. Cardinality(Counting(t)) <= Cardinality(Recent) /\ Cardinality(Recent) \in Nat
    BY <2>1, <2>2, FS_Subset, FS_CardinalityType
  <2>4. i \notin Counting(t)
    BY <1>3 DEF Counting
  <2>5. /\ IsFiniteSet(Counting(t) \cup {i})
        /\ Cardinality(Counting(t) \cup {i}) = Cardinality(Counting(t)) + 1
    BY <2>2, <2>4, FS_AddElement
  <2>6. Cardinality(Counting(t)') <= Cardinality(Counting(t) \cup {i})
    BY <1>7, <2>5, FS_Subset
  <2>7. Cardinality(Counting(t)) \in Nat /\ Cardinality(Counting(t)') \in Nat
    BY <1>7, <2>2, <2>5, FS_Subset, FS_CardinalityType
  <2> QED
    BY <1>2, <1>8, <2>3, <2>5, <2>6, <2>7 DEF Limit
<1>9. CASE ~(via = "dm" /\ t = moment)
  <2>1. i \notin Counting(t)'
    BY <1>2, <1>4, <1>5, <1>9 DEF Counting
  <2>2. Counting(t)' \subseteq Counting(t)
    BY <1>7, <2>1
  <2>3. Cardinality(Counting(t)') <= Cardinality(Counting(t))
    BY <2>2, ClaimedIsFinite, FS_Subset
  <2>4. Cardinality(Counting(t)) <= Limit
    BY DEF Inv, WindowsHold
  <2>5. Cardinality(Counting(t)) \in Nat /\ Cardinality(Counting(t)') \in Nat
    BY <2>2, ClaimedIsFinite, FS_Subset, FS_CardinalityType
  <2> QED
    BY <2>3, <2>4, <2>5 DEF Limit
<1> QED
  BY <1>8, <1>9

\* Sending changes only whom a message under way has reached.
LEMMA SendKeeps ==
  ASSUME Inv, NEW o \in Organizers, Send(o) PROVE Inv'
<1>1. sending[o].id \in Ids /\ sending[o].todo \subseteq Readers
  BY DEF Send, Inv, TypeOK
<1>2. PICK T \in SUBSET Readers : sending' = [sending EXCEPT ![o].todo = T]
  BY <1>1 DEF Send
<1>3. reached' \in [Ids -> SUBSET Readers]
  BY <1>1 DEF Send, Inv, TypeOK
<1>4. \A j \in Ids : j # sending[o].id => reached'[j] = reached[j]
  BY <1>1 DEF Send, Inv, TypeOK
<1>5. messages' = messages /\ moment' = moment
  BY DEF Send
<1>6. sending' \in [Organizers -> Request] /\ \A p \in Organizers : sending'[p].id = sending[p].id
  BY <1>2 DEF Inv, TypeOK, Request
<1>7. messages[sending[o].id].status = "sending"
  BY <1>1 DEF Inv, SendsAClaim, Ids
<1>8. TypeOK'
  BY <1>3, <1>5, <1>6 DEF Inv, TypeOK, Request
<1>9. IdsInOrder' /\ ClaimedByNow' /\ WindowsHold'
  BY <1>5 DEF Inv, IdsInOrder, ClaimedByNow, WindowsHold, Claimed, Counting
<1>10. UnclaimedIsNew' /\ FailedIsUnread'
  BY <1>1, <1>4, <1>5, <1>7 DEF Inv, UnclaimedIsNew, FailedIsUnread, Unused
<1>11. SendsAClaim' /\ OneSender'
  BY <1>5, <1>6 DEF Inv, SendsAClaim, OneSender
<1> QED
  BY <1>8, <1>9, <1>10, <1>11 DEF Inv

\* Finishing keeps a message claimed and counts it still, unless it failed.
LEMMA FinishKeeps ==
  ASSUME BoundIsANumber, Inv, NEW o \in Organizers, FinishMessage(o) PROVE Inv'
<1> DEFINE id == sending[o].id
           verdict == IF reached[id] = {} THEN "failed" ELSE "sent"
<1>1. id \in Ids /\ id # 0
  BY DEF FinishMessage, Inv, TypeOK
<1>2. messages[id].status = "sending"
  BY <1>1 DEF Inv, SendsAClaim
<1>3. messages \in [Ids -> Message \cup {Unused}] /\ messages[id] \in Message
  BY <1>1, <1>2 DEF Inv, TypeOK, Message, Unused
<1>4. messages' = [messages EXCEPT ![id].status = verdict]
  BY DEF FinishMessage
<1>5. moment' = moment /\ reached' = reached /\ sending' = [sending EXCEPT ![o] = NotSending]
  BY DEF FinishMessage
<1>6. \A j \in Ids : messages'[j] = IF j = id THEN [messages[id] EXCEPT !.status = verdict] ELSE messages[j]
  BY <1>1, <1>3, <1>4
<1>7. verdict \in {"failed", "sent"} /\ (verdict = "failed" => reached[id] = {})
  OBVIOUS
<1> HIDE DEF verdict, id
<1>8. /\ messages'[id] \in Message /\ messages'[id].status = verdict
      /\ messages'[id].via = messages[id].via /\ messages'[id].at = messages[id].at
  BY <1>1, <1>3, <1>6, <1>7 DEF Message, Status
<1>9. messages' \in [Ids -> Message \cup {Unused}]
  <2>1. messages' = [messages EXCEPT ![id] = [messages[id] EXCEPT !.status = verdict]]
    BY <1>4
  <2>2. [messages[id] EXCEPT !.status = verdict] \in Message
    BY <1>1, <1>6, <1>8
  <2> QED
    BY <1>3, <2>1, <2>2
<1>10. sending' \in [Organizers -> Request] /\
       \A p \in Organizers : sending'[p] = IF p = o THEN NotSending ELSE sending[p]
  BY <1>5 DEF Inv, TypeOK, Request, NotSending
<1>11. TypeOK'
  BY <1>5, <1>9, <1>10 DEF Inv, TypeOK, Message, Request
<1>12. Claimed' = Claimed
  BY <1>1, <1>2, <1>6, <1>8, UnusedIsNoMessage DEF Claimed, Unused
<1>13. IdsInOrder'
  BY <1>12 DEF Inv, IdsInOrder
<1>14. UnclaimedIsNew'
  BY <1>5, <1>12 DEF Inv, UnclaimedIsNew, Claimed
<1>15. OneSender'
  BY <1>10 DEF Inv, OneSender, NotSending
<1>16. SendsAClaim'
  <2> SUFFICES ASSUME NEW p \in Organizers, sending'[p].id # 0
               PROVE  messages'[sending'[p].id].status = "sending"
    BY DEF SendsAClaim
  <2>1. p # o /\ sending'[p] = sending[p]
    BY <1>10 DEF NotSending
  <2>2. sending[p].id # id
    BY <1>1, <2>1 DEF Inv, OneSender, id
  <2>3. sending[p].id \in Ids
    BY <2>1 DEF Inv, TypeOK
  <2> QED
    BY <1>6, <2>1, <2>2, <2>3 DEF Inv, SendsAClaim
<1>17. FailedIsUnread'
  BY <1>5, <1>6, <1>7, <1>8 DEF Inv, FailedIsUnread
<1>18. ClaimedByNow'
  BY <1>5, <1>6, <1>8, <1>12 DEF Inv, ClaimedByNow, Claimed
<1>19. WindowsHold'
  <2> SUFFICES ASSUME NEW t \in 0..moment PROVE Cardinality(Counting(t)') <= Limit
    BY <1>5 DEF WindowsHold, Counting
  <2>1. Counting(t)' \subseteq Counting(t)
    BY <1>2, <1>6, <1>8, <1>12 DEF Counting, Claimed
  <2>2. Cardinality(Counting(t)') <= Cardinality(Counting(t))
    BY <2>1, ClaimedIsFinite, FS_Subset
  <2>3. Cardinality(Counting(t)) <= Limit
    BY DEF Inv, WindowsHold
  <2>4. Cardinality(Counting(t)) \in Nat /\ Cardinality(Counting(t)') \in Nat
    BY <2>1, ClaimedIsFinite, FS_Subset, FS_CardinalityType
  <2> QED
    BY <2>2, <2>3, <2>4 DEF Limit
<1> QED
  BY <1>11, <1>13, <1>14, <1>15, <1>16, <1>17, <1>18, <1>19 DEF Inv

\* A restart forgets who was sending; what was claimed stays claimed.
LEMMA RestartKeeps == ASSUME Inv, Restart PROVE Inv'
<1>1. \A p \in Organizers : sending'[p].id = 0
  BY DEF Restart, NotSending
<1>2. TypeOK'
  BY DEF Restart, Inv, TypeOK, NotSending
<1>3. SendsAClaim' /\ OneSender'
  BY <1>1 DEF SendsAClaim, OneSender
<1> QED
  BY <1>2, <1>3 DEF Inv, Restart, IdsInOrder, UnclaimedIsNew, FailedIsUnread, ClaimedByNow, WindowsHold,
                    Claimed, Counting

\* A window that ends a tick later holds nothing that the one before did not.
LEMMA TickKeeps == ASSUME BoundIsANumber, Inv, Tick PROVE Inv'
<1>1. /\ moment \in Nat /\ moment' = moment + 1
      /\ messages' = messages /\ sending' = sending /\ reached' = reached
  BY DEF Tick, Inv, TypeOK
<1>2. TypeOK' /\ IdsInOrder' /\ UnclaimedIsNew' /\ SendsAClaim' /\ OneSender' /\ FailedIsUnread'
  BY <1>1 DEF Inv, TypeOK, IdsInOrder, UnclaimedIsNew, SendsAClaim, OneSender, FailedIsUnread, Claimed
<1>3. \A i \in Claimed : messages[i].at \in Nat
  BY DEF Inv, TypeOK, Claimed
<1>4. ClaimedByNow'
  BY <1>1, <1>3 DEF Inv, ClaimedByNow, Claimed
<1>5. WindowsHold'
  <2> SUFFICES ASSUME NEW t \in 0..(moment + 1) PROVE Cardinality(Counting(t)) <= Limit
    BY <1>1 DEF WindowsHold, Counting, Claimed
  <2>1. CASE t \in 0..moment
    BY <2>1 DEF Inv, WindowsHold
  <2>2. CASE t = moment + 1
    <3>1. Counting(t) \subseteq Counting(moment)
      BY <1>1, <1>3, <2>2 DEF Counting, Inv, ClaimedByNow, Window
    <3>2. Cardinality(Counting(t)) <= Cardinality(Counting(moment))
      BY <3>1, ClaimedIsFinite, FS_Subset
    <3>3. Cardinality(Counting(moment)) <= Limit
      BY <1>1 DEF Inv, WindowsHold
    <3>4. Cardinality(Counting(t)) \in Nat /\ Cardinality(Counting(moment)) \in Nat
      BY ClaimedIsFinite, FS_CardinalityType
    <3> QED
      BY <3>2, <3>3, <3>4 DEF Limit
  <2> QED
    BY <1>1, <2>1, <2>2
<1> QED
  BY <1>2, <1>4, <1>5 DEF Inv

\* Every step keeps the invariant.
LEMMA Inductive == ASSUME BoundIsANumber, Inv, [Next]_vars PROVE Inv'
<1>1. ASSUME NEW o \in Organizers, NEW via \in Via, ClaimMessage(o, via) PROVE Inv'
  BY <1>1, ClaimKeepsTheRest, ClaimKeepsTheLimit DEF Inv
<1>2. ASSUME NEW o \in Organizers, Send(o) \/ FinishMessage(o) PROVE Inv'
  BY <1>2, SendKeeps, FinishKeeps
<1>3. CASE Restart \/ Tick
  BY <1>3, RestartKeeps, TickKeeps
<1>4. CASE UNCHANGED vars
  BY <1>4 DEF vars, Inv, TypeOK, IdsInOrder, UnclaimedIsNew, SendsAClaim, OneSender, FailedIsUnread,
              ClaimedByNow, WindowsHold, Claimed, Counting
<1> QED
  BY <1>1, <1>2, <1>3, <1>4 DEF Next

\* No message has been claimed yet.
LEMMA Initially == ASSUME BoundIsANumber PROVE Init => Inv
<1> SUFFICES ASSUME Init PROVE Inv
  OBVIOUS
<1>1. Claimed = {}
  BY DEF Init, Claimed
<1>2. TypeOK
  BY DEF Init, TypeOK, Unused, NotSending
<1>3. IdsInOrder
  <2>1. 0 \in 0..MaxMessages /\ 1..0 = {}
    BY DEF BoundIsANumber
  <2> QED
    BY <1>1, <2>1 DEF IdsInOrder
<1>4. UnclaimedIsNew /\ SendsAClaim /\ OneSender /\ FailedIsUnread /\ ClaimedByNow
  BY <1>1 DEF Init, UnclaimedIsNew, SendsAClaim, OneSender, FailedIsUnread, ClaimedByNow, NotSending
<1>5. WindowsHold
  <2>1. \A t : Counting(t) = {}
    BY <1>1 DEF Counting
  <2> QED
    BY <2>1, FS_EmptySet DEF WindowsHold, Limit
<1> QED
  BY <1>2, <1>3, <1>4, <1>5 DEF Inv

\* Every message and every request under way is a record of its kind.
THEOREM TypeCorrect == ASSUME BoundIsANumber PROVE Spec => []TypeOK
<1>1. Init => Inv
  BY Initially
<1>2. Inv /\ [Next]_vars => Inv'
  BY Inductive
<1>3. Inv => TypeOK
  BY DEF Inv
<1> QED
  BY <1>1, <1>2, <1>3, PTL DEF Spec

\* A message that reached somebody has not failed, so it was counted when the
\* later ones of its window were claimed.
LEMMA LimitFollows == ASSUME BoundIsANumber, Inv PROVE DirectMessagesAreLimited
<1> SUFFICES ASSUME NEW t \in 0..moment
             PROVE  Cardinality({i \in Claimed : /\ messages[i].via = "dm" /\ reached[i] # {}
                                                 /\ messages[i].at > t - Window /\ messages[i].at <= t}) <= Limit
  BY DEF DirectMessagesAreLimited
<1> DEFINE Reaching == {i \in Claimed : /\ messages[i].via = "dm" /\ reached[i] # {}
                                        /\ messages[i].at > t - Window /\ messages[i].at <= t}
<1>1. Reaching \subseteq Counting(t)
  BY DEF Inv, FailedIsUnread, Counting, Claimed
<1> HIDE DEF Reaching
<1>2. Cardinality(Reaching) <= Cardinality(Counting(t))
  BY <1>1, ClaimedIsFinite, FS_Subset
<1>3. Cardinality(Counting(t)) <= Limit
  BY DEF Inv, WindowsHold
<1>4. Cardinality(Reaching) \in Nat /\ Cardinality(Counting(t)) \in Nat
  BY <1>1, ClaimedIsFinite, FS_Subset, FS_CardinalityType
<1>5. Cardinality(Reaching) <= Limit
  BY <1>2, <1>3, <1>4 DEF Limit
<1> QED
  BY <1>5 DEF Reaching

\* However many organizers send at once, and whatever restarts cut off, no
\* window holds more than the limit (ClaimMessage, eventmessages.go).
THEOREM LimitIsKept == ASSUME BoundIsANumber PROVE Spec => []DirectMessagesAreLimited
<1>1. Init => Inv
  BY Initially
<1>2. Inv /\ [Next]_vars => Inv'
  BY Inductive
<1>3. Inv => DirectMessagesAreLimited
  BY LimitFollows
<1> QED
  BY <1>1, <1>2, <1>3, PTL DEF Spec
=============================================================================
