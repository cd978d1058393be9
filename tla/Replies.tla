------------------------------ MODULE Replies ------------------------------
(***************************************************************************)
(* What one person writes back to the bot: the direct messages sent to     *)
(* them about events (dmreplies.go), the replies put with an event, the    *)
(* images on a reply kept in file-store (dmreplyattachments.go), the spans *)
(* in which their messages are another service's to answer                 *)
(* (dmhandoffs.go), and the filing of their channel (messagestore.go).     *)
(*                                                                         *)
(* The gateway runs each delivery in a goroutine of its own and may        *)
(* deliver a message twice, so a delivery is a worker; so is a request to  *)
(* keep the files of replies that have none recorded.                      *)
(***************************************************************************)
EXTENDS Integers, Sequences, FiniteSets

CONSTANTS
  About,            \* the events the bot wrote about
  Written,          \* the messages the person writes
  Deliveries,       \* deliveries of a message by the gateway
  Retries,          \* requests to keep the files left unrecorded
  FilesPerReply,    \* bound: files on one message
  MaxSent,          \* bound: messages the bot sends
  MaxInstant,       \* bound: the clock
  MaxReplyFaults    \* bound: calls that fail, and restarts

ReplyWindow == 1    \* replyWindow, in ticks

VARIABLES
  instant,      \* the time
  sent,         \* the event of each message Discord took from the bot
  eventDMs,     \* event_dms, in row order
  message,      \* what the person wrote: written or not, files, what it replies to
  reply,        \* event_dm_replies
  attachments,  \* event_dm_reply_attachments: the file of each position, or none
  worker,       \* the deliveries and retries under way
  handedOff,    \* whether dm_handoffs has an active row
  stored,       \* the files in file-store
  left,         \* files a failed purge or a restart left behind
  filing,       \* the person's channel: filed here, posts under way, known there
  replyFaults

vars == <<instant, sent, eventDMs, message, reply, attachments, worker, handedOff,
          stored, left, filing, replyFaults>>

Workers   == Deliveries \cup Retries
Positions == 1..FilesPerReply
NoFile    == <<"none">>      \* a file noted and not kept
File      == {<<m, w, p>> : m \in Written, w \in Workers, p \in Positions}
NoMessage == "no message"
NoEvent   == "no event"
Unwritten == [written |-> FALSE, files |-> 0, repliedTo |-> 0]
NoReply   == [event |-> NoEvent, matched |-> "", files |-> 0]
Resting   == [at |-> "idle", message |-> NoMessage, found |-> NoReply, kept |-> <<>>]
Done      == [Resting EXCEPT !.at = "done"]   \* a worker handles one message

Init ==
  /\ instant = 0 /\ sent = <<>> /\ eventDMs = <<>> /\ handedOff = FALSE
  /\ message = [m \in Written |-> Unwritten]
  /\ reply = [m \in Written |-> NoReply]
  /\ attachments = [m \in Written |-> <<>>]
  /\ worker = [w \in Workers |-> Resting]
  /\ stored = {} /\ left = {}
  /\ filing = [filed |-> FALSE, posting |-> FALSE, known |-> FALSE]
  /\ replyFaults = 0

Fails == replyFaults < MaxReplyFaults /\ replyFaults' = replyFaults + 1
Works == UNCHANGED replyFaults

Tick ==
  /\ instant < MaxInstant /\ instant' = instant + 1
  /\ UNCHANGED <<sent, eventDMs, message, reply, attachments, worker, handedOff, stored,
                 left, filing, replyFaults>>

-----------------------------------------------------------------------------
\* Filing the channel, in the background of a message sent or received.

\* FileDirectMessageChannels marks the channel under its lock and then posts
\* it; a channel marked already is somebody else's post.
Filed == filing' = IF filing.filed THEN filing ELSE [filing EXCEPT !.filed = TRUE, !.posting = TRUE]

\* EnableMessageStore files at the start the channels recorded as sent in.
EnableMessageStore ==
  /\ eventDMs # <<>> /\ ~filing.filed /\ Filed
  /\ UNCHANGED <<instant, sent, eventDMs, message, reply, attachments, worker, handedOff,
                 stored, left, replyFaults>>

\* A post that failed takes the mark back, for the next message to try again.
FileConversations ==
  /\ filing.posting
  /\ \/ filing' = [filing EXCEPT !.posting = FALSE, !.known = TRUE] /\ Works
     \/ filing' = [filing EXCEPT !.posting = FALSE, !.filed = FALSE] /\ Fails
  /\ UNCHANGED <<instant, sent, eventDMs, message, reply, attachments, worker, handedOff,
                 stored, left>>

-----------------------------------------------------------------------------
\* The bot writes about an event, and the person writes.

\* sendEventDMWithFiles: Discord takes the message before it is recorded.
SendEventDM(e) ==
  /\ Len(sent) < MaxSent /\ sent' = Append(sent, e) /\ Filed
  /\ UNCHANGED <<instant, eventDMs, message, reply, attachments, worker, handedOff, stored,
                 left, replyFaults>>

Recorded(i) == \E row \in DOMAIN eventDMs : eventDMs[row].id = i

\* RecordEventDM; a failure is only logged, so it may never happen.
RecordEventDM(i) ==
  /\ ~Recorded(i)
  /\ eventDMs' = Append(eventDMs, [id |-> i, event |-> sent[i], at |-> instant])
  /\ UNCHANGED <<instant, sent, message, reply, attachments, worker, handedOff, stored,
                 left, filing, replyFaults>>

\* A message written, plain or with Discord's Reply on one of the bot's.
Write(m, n, i) ==
  /\ ~message[m].written /\ i \in 0..Len(sent)
  /\ message' = [message EXCEPT ![m] = [written |-> TRUE, files |-> n, repliedTo |-> i]]
  /\ UNCHANGED <<instant, sent, eventDMs, reply, attachments, worker, handedOff, stored,
                 left, filing, replyFaults>>

-----------------------------------------------------------------------------
\* Handoffs.

\* CreateDMHandoff refuses a second active one.  The span a handoff covers,
\* which hides on the page what was written in it, is not modelled.
CreateDMHandoff ==
  /\ ~handedOff /\ handedOff' = TRUE
  /\ UNCHANGED <<instant, sent, eventDMs, message, reply, attachments, worker, stored,
                 left, filing, replyFaults>>

EndDMHandoff ==
  /\ handedOff /\ handedOff' = FALSE
  /\ UNCHANGED <<instant, sent, eventDMs, message, reply, attachments, worker, stored,
                 left, filing, replyFaults>>

-----------------------------------------------------------------------------
\* A delivery: receiveDMReply.

Goes(w, next) == worker' = [worker EXCEPT ![w] = next]

\* EventForDMReply: the message replied to, or else the latest one recorded
\* within the window, or none.
EventForDMReply(m) ==
  LET asked == {row \in DOMAIN eventDMs : eventDMs[row].id = message[m].repliedTo}
      last  == Len(eventDMs)
  IN  IF asked # {}
      THEN {[event |-> eventDMs[row].event, matched |-> "reply"] : row \in asked}
      ELSE {[event |-> eventDMs[row].event, matched |-> "latest"] :
              row \in {r \in DOMAIN eventDMs : r = last /\ eventDMs[r].at >= instant - ReplyWindow}}

\* The delivery files the channel and leaves a handed-off person's message
\* alone, or one about no recent event.
ReceiveDMReply(d, m) ==
  /\ worker[d] = Resting /\ message[m].written /\ Filed
  /\ ~handedOff
  /\ Goes(d, [Resting EXCEPT !.at = "find", !.message = m])
  /\ UNCHANGED <<instant, sent, eventDMs, message, reply, attachments, handedOff, stored,
                 left, replyFaults>>

FindEvent(d) ==
  /\ worker[d].at = "find"
  /\ LET m == worker[d].message IN
     \/ \E found \in EventForDMReply(m) :
          Goes(d, [worker[d] EXCEPT !.at = "record", !.found.event = found.event,
                                    !.found.matched = found.matched])
     \/ EventForDMReply(m) = {} /\ Goes(d, Done)
  /\ UNCHANGED <<instant, sent, eventDMs, message, reply, attachments, handedOff, stored,
                 left, filing, replyFaults>>

\* RecordDMReply, on conflict nothing; then the reply's files, if any.
RecordDMReply(d) ==
  /\ worker[d].at = "record"
  /\ LET m == worker[d].message IN
     /\ \/ /\ reply[m] = NoReply
           /\ reply' = [reply EXCEPT ![m] = [worker[d].found EXCEPT !.files = message[m].files]]
        \/ reply[m] # NoReply /\ UNCHANGED reply
     /\ Goes(d, IF message[m].files = 0 THEN Done
                ELSE [Resting EXCEPT !.at = "keep", !.message = m])
  /\ UNCHANGED <<instant, sent, eventDMs, message, attachments, handedOff, stored, left,
                 filing, replyFaults>>

-----------------------------------------------------------------------------
\* The files of a reply: keepReplyAttachments, of a delivery or of a retry.

\* handleKeepReplyAttachments, at one reply of its list; it needs a channel
\* some recorded message went to.
HandleKeepReplyAttachments(w, m) ==
  /\ worker[w] = Resting /\ eventDMs # <<>>
  /\ reply[m].files > 0 /\ attachments[m] = <<>>
  /\ Goes(w, [Resting EXCEPT !.at = "keep", !.message = m])
  /\ UNCHANGED <<instant, sent, eventDMs, message, reply, attachments, handedOff, stored,
                 left, filing, replyFaults>>

Held(w) == {f \in File : \E p \in DOMAIN worker[w].kept : worker[w].kept[p] = f}

\* keepReplyAttachment: the next file is downloaded and uploaded, or noted
\* (no image, too large, or a call that failed).
KeepReplyAttachment(w) ==
  /\ worker[w].at = "keep"
  /\ LET m == worker[w].message
         p == Len(worker[w].kept) + 1
     IN  /\ p <= message[m].files
         /\ \/ /\ Goes(w, [worker[w] EXCEPT !.kept = Append(@, <<m, w, p>>)])
               /\ stored' = stored \cup {<<m, w, p>>} /\ left' = left \ {<<m, w, p>>}
            \/ /\ Goes(w, [worker[w] EXCEPT !.kept = Append(@, NoFile)])
               /\ UNCHANGED <<stored, left>>
  /\ UNCHANGED <<instant, sent, eventDMs, message, reply, attachments, handedOff, filing,
                 replyFaults>>

\* Where a worker goes when its rows were refused.
\* Mutant of AfterRefusal: the files uploaded for nothing are not purged.
AfterRefusalNothing(w) == Done
AfterRefusal(w) == [worker[w] EXCEPT !.at = "purge"]

\* RecordReplyAttachments: every row in one transaction, refused when the
\* reply has rows at these positions already (another worker's), or fails.
RecordReplyAttachments(w) ==
  /\ worker[w].at = "keep" /\ worker[w].message \in Written
  /\ LET m == worker[w].message IN
     /\ Len(worker[w].kept) = message[m].files
     /\ \/ /\ attachments[m] = <<>> /\ Works
           /\ attachments' = [attachments EXCEPT ![m] = worker[w].kept] /\ Goes(w, Done)
        \/ attachments[m] # <<>> /\ Works /\ UNCHANGED attachments /\ Goes(w, AfterRefusal(w))
        \/ Fails /\ UNCHANGED attachments /\ Goes(w, AfterRefusal(w))
  /\ UNCHANGED <<instant, sent, eventDMs, message, reply, handedOff, stored, left, filing>>

\* The files kept for nothing are purged, each by a call that may fail.
PurgePhotos(w) ==
  /\ worker[w].at = "purge" /\ Goes(w, Done)
  /\ \/ stored' = stored \ Held(w) /\ UNCHANGED left /\ Works
     \/ \E gone \in SUBSET Held(w) :
          gone # Held(w) /\ stored' = stored \ gone /\ left' = left \cup (Held(w) \ gone) /\ Fails
  /\ UNCHANGED <<instant, sent, eventDMs, message, reply, attachments, handedOff, filing>>

\* The process restarts: what workers held is left in file-store, and the
\* channels filed are forgotten.
Restart ==
  /\ Fails
  /\ left' = left \cup UNION {Held(w) : w \in Workers}
  /\ worker' = [w \in Workers |-> IF worker[w] = Resting THEN Resting ELSE Done]
  /\ filing' = [filing EXCEPT !.filed = FALSE, !.posting = FALSE]
  /\ UNCHANGED <<instant, sent, eventDMs, message, reply, attachments, handedOff, stored>>

-----------------------------------------------------------------------------
Next ==
  \/ Tick \/ Restart \/ EnableMessageStore \/ FileConversations
  \/ \E e \in About : SendEventDM(e)
  \/ \E i \in 1..Len(sent) : RecordEventDM(i)
  \/ \E m \in Written, n \in 0..FilesPerReply, i \in 0..MaxSent : Write(m, n, i)
  \/ CreateDMHandoff \/ EndDMHandoff
  \/ \E d \in Deliveries : (\E m \in Written : ReceiveDMReply(d, m)) \/ FindEvent(d) \/ RecordDMReply(d)
  \/ \E w \in Retries, m \in Written : HandleKeepReplyAttachments(w, m)
  \/ \E w \in Workers : KeepReplyAttachment(w) \/ RecordReplyAttachments(w) \/ PurgePhotos(w)

Spec == Init /\ [][Next]_vars

-----------------------------------------------------------------------------
TypeOK ==
  /\ instant \in 0..MaxInstant
  /\ sent \in Seq(About) /\ Len(sent) <= MaxSent
  /\ DOMAIN eventDMs \subseteq 1..MaxSent
  /\ message \in [Written -> [written : BOOLEAN, files : 0..FilesPerReply, repliedTo : 0..MaxSent]]
  /\ reply \in [Written -> [event : About \cup {NoEvent}, matched : {"", "reply", "latest"},
                            files : 0..FilesPerReply]]
  /\ \A w \in Workers : worker[w].at \in {"idle", "find", "record", "keep", "purge", "done"}
  /\ stored \subseteq File /\ left \subseteq File
  /\ handedOff \in BOOLEAN
  /\ filing \in [filed : BOOLEAN, posting : BOOLEAN, known : BOOLEAN]
  /\ replyFaults \in 0..MaxReplyFaults

RecordedFiles(m) == {f \in File : \E p \in DOMAIN attachments[m] : attachments[m][p] = f}

\* An image kept in file-store for a reply is recorded on it, or held by a
\* worker that will record or purge it, whichever deliveries and retries of
\* one message overlap; and an image recorded is in file-store, never purged
\* by the worker that lost (keepReplyAttachments, dmreplyattachments.go).
ImagesAreAccountedFor ==
  /\ stored \subseteq (UNION {RecordedFiles(m) : m \in Written})
                      \cup (UNION {Held(w) : w \in Workers}) \cup left
  /\ \A m \in Written : RecordedFiles(m) \subseteq stored

=============================================================================
