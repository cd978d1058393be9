--------------------------- MODULE EventMessages ---------------------------
(***************************************************************************)
(* Messages an organizer sends to an event's people (eventmessages.go,     *)
(* and the potluck nudges of potluckreminders.go): claimed in the store,   *)
(* sent person by person, then finished with what was delivered.  At most  *)
(* Limit by direct message go in any Window; a post in the forum thread    *)
(* is claimed and finished the same way and not limited.                   *)
(*                                                                         *)
(* A claim is one transaction.  Several organizers press Send at once, and *)
(* a restart leaves a message claimed and not finished.                    *)
(***************************************************************************)
EXTENDS Integers, FiniteSets

CONSTANTS
  Organizers,    \* who may send at the same time
  Readers,       \* the people on the lists
  MaxMessages,   \* bound: messages claimed
  MaxMoment      \* bound: the clock

Limit  == 2  \* messageLimit
Window == 2  \* messageWindow, in ticks

VARIABLES
  moment,     \* the time
  messages,   \* event_messages, by id
  sending,    \* what each organizer's request is sending
  reached     \* whom each message reached

vars == <<moment, messages, sending, reached>>

Ids    == 1..MaxMessages
Via    == {"forum", "dm"}
Status == {"sending", "sent", "failed"}
Unused == [via |-> "none", status |-> "none", at |-> 0]
NotSending == [id |-> 0, todo |-> {}]

Init ==
  /\ moment = 0
  /\ messages = [i \in Ids |-> Unused]
  /\ sending = [o \in Organizers |-> NotSending]
  /\ reached = [i \in Ids |-> {}]

Claimed == {i \in Ids : messages[i] # Unused}
\* Mutant of Recent: only the messages that were sent count against the limit.
RecentOnesSent == {i \in Claimed : /\ messages[i].via = "dm" /\ messages[i].status = "sent"
                                   /\ messages[i].at > moment - Window}

Recent  == {i \in Claimed : /\ messages[i].via = "dm" /\ messages[i].status # "failed"
                            /\ messages[i].at > moment - Window}

\* ClaimMessage: the limit is read and the message recorded in one transaction.
ClaimMessage(o, via) ==
  /\ sending[o] = NotSending
  /\ via = "dm" => Cardinality(Recent) < Limit
  /\ \E i \in Ids :
       /\ i = Cardinality(Claimed) + 1
       /\ messages' = [messages EXCEPT ![i] = [via |-> via, status |-> "sending", at |-> moment]]
       /\ \E people \in (SUBSET Readers) \ {{}} :
            sending' = [sending EXCEPT ![o] = [id |-> i, todo |-> people]]
  /\ UNCHANGED <<moment, reached>>

\* sendMessageByDM, one person at a time; some refuse.  The forum post is one
\* message for everybody.
Send(o) ==
  LET m == sending[o]
  IN
  /\ m.id # 0 /\ m.todo # {}
  /\ \/ /\ messages[m.id].via = "dm"
        /\ \E u \in m.todo :
             /\ reached' \in {reached, [reached EXCEPT ![m.id] = @ \cup {u}]}
             /\ sending' = [sending EXCEPT ![o].todo = @ \ {u}]
     \/ /\ messages[m.id].via = "forum"
        /\ reached' \in {reached, [reached EXCEPT ![m.id] = m.todo]}
        /\ sending' = [sending EXCEPT ![o].todo = {}]
  /\ UNCHANGED <<moment, messages>>

\* One that reached nobody is failed, and does not count.
FinishMessage(o) ==
  LET m == sending[o]
  IN
  /\ m.id # 0 /\ m.todo = {}
  /\ messages' = [messages EXCEPT ![m.id].status = IF reached[m.id] = {} THEN "failed" ELSE "sent"]
  /\ sending' = [sending EXCEPT ![o] = NotSending]
  /\ UNCHANGED <<moment, reached>>

Restart ==
  /\ \E o \in Organizers : sending[o] # NotSending
  /\ sending' = [o \in Organizers |-> NotSending]
  /\ UNCHANGED <<moment, messages, reached>>

Tick == moment < MaxMoment /\ moment' = moment + 1 /\ UNCHANGED <<messages, sending, reached>>

Next ==
  \/ \E o \in Organizers : \/ \E via \in Via : ClaimMessage(o, via)
                           \/ Send(o) \/ FinishMessage(o)
  \/ Restart \/ Tick

Spec == Init /\ [][Next]_vars
-----------------------------------------------------------------------------
TypeOK ==
  /\ moment \in Nat
  /\ messages \in [Ids -> [via : Via, status : Status, at : Nat] \cup {Unused}]
  /\ sending \in [Organizers -> [id : Ids \cup {0}, todo : SUBSET Readers]]
  /\ reached \in [Ids -> SUBSET Readers]

\* eventmessages.go: in no window do more than Limit messages by direct
\* message reach anybody, counted by when they were claimed, however many
\* organizers send at once, fail, or are cut off by a restart.
DirectMessagesAreLimited ==
  \A t \in 0..moment :
    Cardinality({i \in Claimed : /\ messages[i].via = "dm" /\ reached[i] # {}
                                 /\ messages[i].at > t - Window /\ messages[i].at <= t}) <= Limit

=============================================================================
