--------------------------- MODULE EventPictures ---------------------------
(***************************************************************************)
(* The picture of one event (eventpictures.go and the painter,             *)
(* cmd/discord-event-picture-painter).  A scene is written by a model from *)
(* the event's details and takes minutes; the people going who have an     *)
(* avatar are printed into it.  A run of the painter lists what is due,    *)
(* works from that list, and sends back the scene and the print; what it   *)
(* sends may be about details or people that have changed since.           *)
(*                                                                         *)
(* A scene's time of writing stands for its version, and a request's time  *)
(* for its number: two in the same second are left out.                    *)
(***************************************************************************)
EXTENDS Integers, FiniteSets

CONSTANTS
  Sitters,          \* people with an avatar who may be going
  MaxPictureEdits,  \* bound: changes of the details, the people and the switch
  MaxSceneRequests, \* bound: times an organizer asks for the scene again
  MaxPainterFaults  \* bound: runs of the painter that are killed

VARIABLES
  details,       \* what the details signature is made from
  sitters,       \* the people going who have an avatar
  picturesOff,   \* events.pictures_disabled
  scene,         \* the event's row of event_scenes
  prints,        \* event_picture_prints: the signature, and whom it really shows
  painter,       \* the run of the painter
  answers,       \* the requests a written or failed scene was for
  pictureEdits,
  painterFaults

sources == <<details, sitters, picturesOff>>
kept    == <<scene, prints, answers>>
vars    == <<sources, kept, painter, pictureEdits, painterFaults>>

NoScene == [details |-> "none", version |-> 0, failed |-> "none", request |-> 0, asked |-> 0]
Resting == [at |-> "resting", details |-> "none", people |-> {}, request |-> 0,
            signature |-> <<"none", 0, {}>>]

Init ==
  /\ details = "d0" /\ sitters = {} /\ picturesOff = FALSE
  /\ scene = NoScene /\ prints = {} /\ painter = Resting
  /\ answers = {} /\ pictureEdits = 0 /\ painterFaults = 0

\* eventPictureSignature: the scene by its details and version, and who is in it.
NoSignature == <<"none", 0, {}>>
Signature(people) == IF people = {} \/ scene.version = 0 THEN NoSignature
                     ELSE <<scene.details, scene.version, people>>

Printed(signature) == \E p \in prints : p.signature = signature
-----------------------------------------------------------------------------
\* handleEventPicturesDue: whether the scene must be written, and whether the
\* one there is must be printed.
Fits == scene.version # 0 /\ scene.details = details

\* Mutant of NeedsScene: details that failed of late are not tried, asked or not.
NeedsSceneUnlessFailed == scene.failed # details /\ (scene.request # 0 \/ ~Fits)

NeedsScene == scene.request # 0 \/ (~Fits /\ scene.failed # details)
NeedsPrint == ~NeedsScene /\ scene.version # 0 /\ ~Printed(Signature(sitters))

ListDue ==
  /\ painter.at = "resting"
  /\ ~picturesOff /\ sitters # {}
  /\ NeedsScene \/ NeedsPrint
  /\ painter' = [at |-> IF NeedsScene THEN "writing" ELSE "printing",
                 details |-> details, people |-> sitters, request |-> scene.request,
                 signature |-> IF NeedsScene THEN NoSignature ELSE Signature(sitters)]
  /\ UNCHANGED <<sources, kept, pictureEdits, painterFaults>>

\* clearSceneRequest: only the request the scene was written for.
Cleared(row, answered) ==
  IF answered # 0 /\ row.request = answered THEN [row EXCEPT !.request = 0] ELSE row

\* handleSaveEventScene: refused when the details have changed; answers the
\* signature of the scene with whoever is going now.
SaveScene ==
  LET row == Cleared([scene EXCEPT !.details = painter.details, !.version = @ + 1,
                                   !.failed = "none"], painter.request)
  IN
  /\ painter.at = "writing"
  /\ \/ /\ painter.details # details
        /\ painter' = Resting /\ UNCHANGED <<scene, answers>>
     \/ /\ painter.details = details
        /\ scene' = row
        /\ answers' = answers \cup {painter.request}
        /\ painter' = [painter EXCEPT !.at = "printing",
                         !.signature = IF sitters = {} THEN NoSignature
                                       ELSE <<row.details, row.version, sitters>>]
  /\ UNCHANGED <<sources, prints, pictureEdits, painterFaults>>

\* handleEventSceneFailed: the scene there is stays, the request is answered.
FailScene ==
  /\ painter.at = "writing"
  /\ scene' = Cleared([scene EXCEPT !.failed = painter.details], painter.request)
  /\ answers' = answers \cup {painter.request}
  /\ painter' = Resting
  /\ UNCHANGED <<sources, prints, pictureEdits, painterFaults>>

\* eventSceneRetryAfter has gone by since the failure.
RetryPasses ==
  /\ scene.failed # "none" /\ painter.at = "resting"
  /\ scene' = [scene EXCEPT !.failed = "none"]
  /\ UNCHANGED <<sources, prints, answers, painter, pictureEdits, painterFaults>>

\* handleSaveEventPicture: refused unless its signature is the current one.
SavePicture ==
  /\ painter.at = "printing"
  /\ IF painter.signature # NoSignature /\ painter.signature = Signature(sitters)
     THEN prints' = {p \in prints : p.signature # painter.signature}
                    \cup {[signature |-> painter.signature, shows |-> painter.people]}
     ELSE UNCHANGED prints
  /\ painter' = Resting
  /\ UNCHANGED <<sources, scene, answers, pictureEdits, painterFaults>>

\* The scheduler kills a run, or a call of it fails.
KillPainter ==
  /\ painter # Resting
  /\ painterFaults < MaxPainterFaults /\ painterFaults' = painterFaults + 1
  /\ painter' = Resting
  /\ UNCHANGED <<sources, kept, pictureEdits>>

-----------------------------------------------------------------------------
\* An edit of the event, somebody joining, leaving or choosing an avatar, and
\* the switch of the page.
Edit ==
  /\ pictureEdits < MaxPictureEdits /\ pictureEdits' = pictureEdits + 1
  /\ \/ details' \in {"d0", "d1"} \ {details} /\ UNCHANGED <<sitters, picturesOff>>
     \/ \E u \in Sitters : /\ sitters' = IF u \in sitters THEN sitters \ {u} ELSE sitters \cup {u}
                           /\ UNCHANGED <<details, picturesOff>>
     \/ picturesOff' = ~picturesOff /\ UNCHANGED <<details, sitters>>
  /\ UNCHANGED <<kept, painter, painterFaults>>

\* Mutant of RequestEventScene: one that waits already is kept.
RequestEventSceneOnce ==
  /\ scene.asked < MaxSceneRequests /\ ~picturesOff
  /\ scene' = [scene EXCEPT !.request = IF @ = 0 THEN scene.asked + 1 ELSE @, !.asked = @ + 1]
  /\ UNCHANGED <<sources, prints, answers, painter, pictureEdits, painterFaults>>

\* handleWebEventSceneRequest: a new one replaces the one that waits.
RequestEventScene ==
  /\ scene.asked < MaxSceneRequests /\ ~picturesOff
  /\ scene' = [scene EXCEPT !.request = scene.asked + 1, !.asked = @ + 1]
  /\ UNCHANGED <<sources, prints, answers, painter, pictureEdits, painterFaults>>

PaintDue == ListDue \/ SaveScene \/ FailScene \/ SavePicture

Next == PaintDue \/ RetryPasses \/ KillPainter \/ Edit \/ RequestEventScene

\* The scheduler runs the painter, and a run ends.
Fairness == WF_vars(PaintDue)

Spec == Init /\ [][Next]_vars /\ Fairness
-----------------------------------------------------------------------------
TypeOK ==
  /\ details \in {"d0", "d1"} /\ sitters \subseteq Sitters /\ picturesOff \in BOOLEAN
  /\ scene.version \in Nat /\ scene.asked \in 0..MaxSceneRequests
  /\ scene.request \in {0, scene.asked}
  /\ scene.details \in {"none", "d0", "d1"} /\ scene.failed \in {"none", "d0", "d1"}
  /\ \A p \in prints : p.shows \subseteq Sitters
  /\ painter.at \in {"resting", "writing", "printing"} /\ painter.people \subseteq Sitters
  /\ answers \subseteq 0..MaxSceneRequests

\* eventpictures.go:297-299: a scene asked for again is written for that very
\* request, or fails for it, however many edits and killed runs there are
\* meanwhile: one made while an older one is being written still waits.  The
\* exceptions are a later request, pictures turned off, and nobody to show.
RequestsAreAnswered ==
  (scene.asked \in 1..MaxSceneRequests /\ scene.asked \notin answers)
    ~> (scene.asked \in answers \/ picturesOff \/ sitters = {})

=============================================================================
