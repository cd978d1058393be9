----------------------------- MODULE ForumPost -----------------------------
(***************************************************************************)
(* One event's forum post: the card's thread (forum.go), who follows it    *)
(* (forumfollows.go) and the join reaction on it (gateway.go).             *)
(*                                                                         *)
(* People move between the lists by the buttons and by the reaction.  The  *)
(* event's one writer takes the changes owed, removes the reactions of     *)
(* those who left, refreshes the post and settles who follows it.  A sweep *)
(* outside the writer takes off whoever is due.  Discord tells the bot of  *)
(* each reaction added or removed, the bot's own removals included; each   *)
(* is handled in a goroutine of its own, in any order.                     *)
(*                                                                         *)
(* The waitlist, separate roles and the card's words are left out; the     *)
(* other surfaces of a pass are in EventSync.                              *)
(***************************************************************************)
EXTENDS Integers

CONSTANTS
  Users,          \* the people
  MaxMoves,       \* bound: moves people make, and threads going quiet
  MaxFollowFaults \* bound: calls that fail, and restarts

VARIABLES
  state,     \* each person's state on the roster
  rolled,    \* who was last taken off by a date rolling over
  status,    \* the event's status
  graceOver, \* whether a day has passed since the event ended or rolled over
  post,      \* the post's thread
  ticked,    \* who has the join reaction on the post
  inbox,     \* reaction events not handled yet
  owed,      \* changes committed and not yet taken by the writer
  published, \* the roster and status recorded as published
  writer,    \* the writer's pass
  sweep,     \* the sweep's pass
  member,    \* who is a member of the thread by the bot's doing
  followed,  \* forum_post_follows: who is recorded as made to follow
  moves,
  followFaults

people  == <<state, rolled, status, graceOver, moves>>
thread  == <<post, ticked, inbox, member>>
passes  == <<owed, published, writer, sweep, followed>>
vars    == <<people, thread, passes, followFaults>>

State    == {"none", "attending", "maybe", "withdrawn"}
Change   == [user : Users, state : State \ {"none"}]
Reaction == [user : Users, kind : {"add", "remove"}, by : {"person", "bot"}]
Live     == status = "open"
Going(list) == {u \in Users : list[u] = "attending"}
Leavers(changes) == {c.user : c \in {c \in changes : c.state # "attending"}}
Joiners(changes) == {c.user : c \in {c \in changes : c.state = "attending"}}

NoPass  == [at |-> "idle", batch |-> {}, list |-> <<>>, ev |-> "open", todo |-> {}, ok |-> TRUE]
NoSweep == [at |-> "idle", ev |-> "open", due |-> {}]

Init ==
  /\ state = [u \in Users |-> "none"] /\ rolled = {}
  /\ status = "open" /\ graceOver = FALSE
  /\ post = "none" /\ ticked = {} /\ inbox = {} /\ member = {}
  /\ owed = {} /\ published = [list |-> <<>>, ev |-> "open"]
  /\ writer = NoPass /\ sweep = NoSweep /\ followed = {}
  /\ moves = 0 /\ followFaults = 0

Fails   == followFaults < MaxFollowFaults /\ followFaults' = followFaults + 1
Works   == UNCHANGED followFaults
Counted == moves < MaxMoves /\ moves' = moves + 1

-----------------------------------------------------------------------------
\* People.

Move(u, s) ==
  /\ state' = [state EXCEPT ![u] = s]
  /\ rolled' = rolled \ {u}
  /\ owed' = owed \cup {[user |-> u, state |-> s]}

\* A button, the web page or the Interested bridge.
Press(u) ==
  /\ Counted
  /\ \/ Live /\ \E s \in {"attending", "maybe"} : state[u] # s /\ Move(u, s)
     \/ state[u] \in {"attending", "maybe"} /\ Move(u, "withdrawn")
  /\ UNCHANGED <<status, graceOver, thread, published, writer, sweep, followed, followFaults>>

Tick(u) ==
  /\ Counted /\ post = "open"
  /\ \/ u \notin ticked /\ ticked' = ticked \cup {u}
        /\ inbox' = inbox \cup {[user |-> u, kind |-> "add", by |-> "person"]}
     \/ u \in ticked /\ ticked' = ticked \ {u}
        /\ inbox' = inbox \cup {[user |-> u, kind |-> "remove", by |-> "person"]}
  /\ UNCHANGED <<state, rolled, status, graceOver, post, member, passes, followFaults>>

Handled(r) ==
  /\ inbox' = inbox \ {r}
  /\ UNCHANGED <<status, graceOver, moves, post, ticked, member, published, writer, sweep,
                 followed, followFaults>>

OnReactionAdd(r) ==
  /\ r.kind = "add"
  /\ IF Live /\ state[r.user] # "attending"
     THEN Move(r.user, "attending") ELSE UNCHANGED <<state, rolled, owed>>
  /\ Handled(r)

\* A removal carries the reaction's owner, whoever took it off.
OnReactionRemove(r) ==
  /\ r.kind = "remove"
  /\ IF state[r.user] = "attending"
     THEN Move(r.user, "withdrawn") ELSE UNCHANGED <<state, rolled, owed>>
  /\ Handled(r)

\* The date rolls over: everyone is taken off the roster.
RollOver ==
  /\ Live /\ Counted /\ Going(state) # {}
  /\ state' = [u \in Users |-> IF state[u] = "none" THEN "none" ELSE "withdrawn"]
  /\ rolled' = rolled \cup {u \in Users : state[u] \in {"attending", "maybe"}}
  /\ owed' = owed \cup [user : {u \in Users : state[u] \in {"attending", "maybe"}},
                        state : {"withdrawn"}]
  /\ graceOver' = FALSE
  /\ UNCHANGED <<status, thread, published, writer, sweep, followed, followFaults>>

\* The event completes or is cancelled; the finish refreshes the post itself,
\* the card first and then the thread, which it archives.
Finish ==
  /\ Live /\ Counted
  /\ \E s \in {"completed", "cancelled"} : status' = s
  /\ graceOver' = FALSE
  /\ \/ post' = (IF post = "none" THEN "none" ELSE "archived") /\ Works
     \/ UNCHANGED post /\ Fails
  /\ UNCHANGED <<state, rolled, ticked, inbox, member, passes>>

DayPasses ==
  /\ ~graceOver /\ graceOver' = TRUE
  /\ UNCHANGED <<state, rolled, status, moves, thread, passes, followFaults>>

\* Discord archives a thread that has been quiet.
QuietPostIsArchived ==
  /\ post = "open" /\ Live /\ Counted
  /\ post' = "archived"
  /\ UNCHANGED <<state, rolled, status, graceOver, ticked, inbox, member, passes, followFaults>>

-----------------------------------------------------------------------------
\* Whether someone comes off the post, by the event and roster that were read.
ForumUnfollowDue(u, ev, list) ==
  IF ev # "open" THEN graceOver
  ELSE list[u] # "attending" /\ (u \in rolled => graceOver)

\* The writer's pass.

\* A pass starts for the changes owed, or because the minute's sweep finds
\* the event is not the one recorded as published.
Read ==
  /\ writer.at = "idle"
  /\ owed # {} \/ published # [list |-> state, ev |-> status]
  /\ writer' = [NoPass EXCEPT !.at = "reactions", !.batch = owed, !.list = state, !.ev = status]
  /\ owed' = {}
  /\ UNCHANGED <<people, thread, published, sweep, followed, followFaults>>

\* The reactions of the batch, then the question whether anything changed.
RemoveUserReactions ==
  /\ writer.at = "reactions"
  /\ LET off == IF post = "none" THEN {} ELSE Leavers(writer.batch) \cap ticked
     IN  \/ /\ ticked' = ticked \ off
            /\ inbox' = inbox \cup [user : off, kind : {"remove"}, by : {"bot"}]
            /\ Works
         \/ off # {} /\ UNCHANGED <<ticked, inbox>> /\ Fails
  /\ writer' = IF published = [list |-> writer.list, ev |-> writer.ev]
               THEN NoPass ELSE [writer EXCEPT !.at = "post"]
  /\ UNCHANGED <<people, post, member, owed, published, sweep, followed>>

\* refreshForumPost.  A live event's thread is opened by the patch that names
\* its tag; an archived thread's card can no longer be edited.  A post just
\* made is followed by everybody going; while there is none nothing is
\* settled, and a finished event gets none.
RefreshForumPost ==
  /\ writer.at = "post"
  /\ \/ /\ Works
        /\ writer.ev = "open" \/ post = "open"
        /\ post' = IF writer.ev = "open" THEN "open" ELSE "archived"
        /\ writer' = [writer EXCEPT !.at = "settle",
                        !.todo = IF post = "none" THEN Going(writer.list) ELSE {}]
     \/ /\ writer.ev # "open" /\ post = "none" /\ Works
        /\ UNCHANGED post /\ writer' = [writer EXCEPT !.at = "record"]
     \/ /\ IF writer.ev # "open" /\ post = "archived" THEN Works ELSE Fails
        /\ UNCHANGED post
        /\ writer' = [writer EXCEPT !.ok = FALSE, !.at = IF post = "none" THEN "record" ELSE "settle"]
  /\ UNCHANGED <<people, ticked, inbox, member, owed, published, sweep, followed>>

\* settleForumFollows takes off who left and this service added.  Discord
\* refuses to change the members of an archived thread.
SettleLeavers ==
  /\ writer.at = "settle"
  /\ LET due == {u \in Leavers(writer.batch) \cap followed :
                   ForumUnfollowDue(u, writer.ev, writer.list)}
     IN  \/ /\ post = "open" /\ Works
            /\ member' = member \ due /\ followed' = followed \ due
         \/ /\ IF post = "archived" THEN Works ELSE due # {} /\ Fails
            /\ UNCHANGED <<member, followed>>
  /\ writer' = [writer EXCEPT !.at = "follow", !.todo = @ \cup Joiners(writer.batch)]
  /\ UNCHANGED <<people, post, ticked, inbox, owed, published, sweep>>

\* followForumPost: on the thread first, then on the record.  One that fails
\* is passed over.
FollowForumPost(u) ==
  /\ writer.at = "follow" /\ u \in writer.todo
  /\ \/ u \in followed /\ UNCHANGED <<member, followed>> /\ Works
     \/ /\ u \notin followed /\ post = "open" /\ Works
        /\ member' = member \cup {u} /\ followed' = followed \cup {u}
     \/ /\ u \notin followed /\ post = "open" /\ Fails
        /\ member' \in {member, member \cup {u}} /\ UNCHANGED followed
     \/ u \notin followed /\ post = "archived" /\ UNCHANGED <<member, followed>> /\ Works
  /\ writer' = [writer EXCEPT !.todo = @ \ {u}]
  /\ UNCHANGED <<people, post, ticked, inbox, owed, published, sweep>>

Record ==
  /\ \/ writer.at = "follow" /\ writer.todo = {}
     \/ writer.at = "record"
  /\ published' = IF writer.ok THEN [list |-> writer.list, ev |-> writer.ev] ELSE published
  /\ writer' = NoPass
  /\ UNCHANGED <<people, thread, owed, sweep, followed, followFaults>>

-----------------------------------------------------------------------------
\* UnfollowDueForumPosts, every few minutes, beside the writer.

DueOff == {u \in followed : ForumUnfollowDue(u, status, state)}

ReadDue ==
  /\ sweep.at = "idle" /\ DueOff # {} /\ post # "none"
  /\ sweep' = [at |-> "open", ev |-> status, due |-> DueOff]
  /\ UNCHANGED <<people, thread, owed, published, writer, followed, followFaults>>

\* Mutant of ReopenFinished: a thread of a finished event is not opened for the sweep.
ReopenFinishedNever ==
  /\ sweep.at = "open"
  /\ sweep' = [sweep EXCEPT !.at = "take off"]
  /\ UNCHANGED <<people, thread, owed, published, writer, followed, followFaults>>

ReopenFinished ==
  /\ sweep.at = "open"
  /\ \/ /\ post' = (IF sweep.ev # "open" THEN "open" ELSE post) /\ Works
        /\ sweep' = [sweep EXCEPT !.at = "take off"]
     \/ sweep.ev # "open" /\ UNCHANGED post /\ Fails /\ sweep' = NoSweep
  /\ UNCHANGED <<people, ticked, inbox, member, owed, published, writer, followed>>

UnfollowForumPost(u) ==
  /\ sweep.at = "take off" /\ u \in sweep.due
  /\ \/ /\ post = "open" /\ Works
        /\ member' = member \ {u} /\ followed' = followed \ {u}
     \/ /\ post = "open" /\ Fails
        /\ member' \in {member, member \ {u}} /\ UNCHANGED followed
     \/ post = "archived" /\ UNCHANGED <<member, followed>> /\ Works
  /\ sweep' = [sweep EXCEPT !.due = @ \ {u}]
  /\ UNCHANGED <<people, post, ticked, inbox, owed, published, writer>>

ArchiveAgain ==
  /\ sweep.at = "take off" /\ sweep.due = {}
  /\ \/ post' = (IF sweep.ev # "open" THEN "archived" ELSE post) /\ Works
     \/ sweep.ev # "open" /\ UNCHANGED post /\ Fails
  /\ sweep' = NoSweep
  /\ UNCHANGED <<people, ticked, inbox, member, owed, published, writer, followed>>

\* A restart loses what the process held; reactions of the gap are not sent
\* again.
Restart ==
  /\ Fails
  /\ owed' = {} /\ inbox' = {} /\ writer' = NoPass /\ sweep' = NoSweep
  /\ UNCHANGED <<people, post, ticked, member, published, followed>>

-----------------------------------------------------------------------------
Handle == \E r \in inbox : OnReactionAdd(r) \/ OnReactionRemove(r)

Pass ==
  \/ Read \/ RemoveUserReactions \/ RefreshForumPost \/ SettleLeavers \/ Record
  \/ \E u \in Users : FollowForumPost(u)

SweepStep ==
  \/ ReadDue \/ ReopenFinished \/ ArchiveAgain
  \/ \E u \in Users : UnfollowForumPost(u)

Next ==
  \/ \E u \in Users : Press(u) \/ Tick(u)
  \/ RollOver \/ Finish \/ DayPasses \/ QuietPostIsArchived
  \/ Handle \/ Pass \/ SweepStep \/ Restart

\* The writer's goroutine and the scheduled sweep run on by themselves, and a
\* day passes.
Fairness == WF_vars(Pass) /\ WF_vars(SweepStep) /\ WF_vars(DayPasses)

Spec == Init /\ [][Next]_vars /\ Fairness
-----------------------------------------------------------------------------
TypeOK ==
  /\ state \in [Users -> State] /\ rolled \subseteq Users
  /\ status \in {"open", "completed", "cancelled"} /\ graceOver \in BOOLEAN
  /\ post \in {"none", "open", "archived"}
  /\ ticked \subseteq Users /\ member \subseteq Users /\ followed \subseteq Users
  /\ inbox \subseteq Reaction /\ owed \subseteq Change
  /\ writer.at \in {"idle", "reactions", "post", "settle", "follow", "record"}
  /\ writer.batch \subseteq Change /\ writer.todo \subseteq Users
  /\ sweep.at \in {"idle", "open", "take off"} /\ sweep.due \subseteq Users
  /\ moves \in Nat /\ followFaults \in Nat

\* forumfollows.go: whoever is recorded as made to follow and is no longer
\* going comes off the thread, at once or a day after their date: by the writer
\* or, when its call fails or it reads a roster of before, by the sweep.  The
\* exception is a live event's thread that Discord archived, which the sweep
\* does not open.
Overdue(u) == u \in followed /\ ForumUnfollowDue(u, status, state)

LeaversComeOff ==
  \A u \in Users : Overdue(u) ~> (u \notin member \/ ~Overdue(u) \/ (Live /\ post = "archived"))

=============================================================================
