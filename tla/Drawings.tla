------------------------------ MODULE Drawings ------------------------------
(***************************************************************************)
(* Drawings people and servers ask for (avatars.go, mascots.go,            *)
(* mascotsweb.go, filestore.go) and the drawer that makes them             *)
(* (cmd/discord-character-drawer).  A person's avatars and a server's      *)
(* mascots go through one life of a request: waiting, drawing, done or     *)
(* failed.                                                                 *)
(*                                                                         *)
(* A form's upload, its transaction and the purge of a photo are steps of  *)
(* their own, and so are the drawer's calls; between them the others move, *)
(* a call to file-store fails, or a drawer is killed.                      *)
(***************************************************************************)
EXTENDS Integers

CONSTANTS
  Drawers,           \* drawer runs
  MaxAsked,          \* bound: requests, and photos
  MaxDrawn,          \* bound: drawings
  MaxDrawingFaults   \* bound: calls that fail, and drawers killed

VARIABLES
  asked,     \* the newest request of the person and of the server
  gallery,   \* the drawings each has
  chosen,    \* the drawing the person shows beside their name
  mascot,    \* the drawing the server shows
  photo,     \* the person's kept photo
  files,     \* the photos in file-store
  orphans,   \* photos whose purge failed
  form,      \* a form of the web pages being handled
  drawing,   \* each drawer's request
  saves,     \* how many drawings each request saved
  drawn, uploaded, drawingFaults

rows == <<asked, gallery, chosen, mascot, photo, saves, drawn>>
vars == <<rows, files, orphans, form, drawing, uploaded, drawingFaults>>

None  == 0
Owner == {"person", "server"}
Kinds == [person |-> {"new_photo", "redraw_photo", "edit_drawing"},
          server |-> {"from_photo", "describe", "edit_drawing"}]
NoRequest == [no |-> 0, state |-> "none", kind |-> "none", base |-> None, photo |-> None, stale |-> FALSE]
NoForm    == [at |-> "none", owner |-> "person", kind |-> "none", photo |-> None]
NoDrawing == [at |-> "idle", owner |-> "person", no |-> 0, hasPhoto |-> FALSE, photo |-> None]

Init ==
  /\ asked = [o \in Owner |-> NoRequest]
  /\ gallery = [o \in Owner |-> {}] /\ chosen = None /\ mascot = None
  /\ photo = None /\ files = {} /\ orphans = {}
  /\ form = NoForm /\ drawing = [d \in Drawers |-> NoDrawing]
  /\ saves = [n \in 1..MaxAsked |-> 0]
  /\ drawn = 0 /\ uploaded = 0 /\ drawingFaults = 0

Open(r)   == r.state \in {"waiting", "drawing"}
Newest    == IF asked["person"].no > asked["server"].no THEN asked["person"].no ELSE asked["server"].no
Fails     == drawingFaults < MaxDrawingFaults /\ drawingFaults' = drawingFaults + 1
Works     == UNCHANGED drawingFaults

-----------------------------------------------------------------------------
\* The web pages.

\* A form is read, and its photo kept in file-store.
UploadPhoto ==
  /\ form = NoForm /\ uploaded < MaxAsked
  /\ \E o \in Owner, k \in {"new_photo", "from_photo"} :
       /\ k \in Kinds[o]
       /\ form' = [at |-> "request", owner |-> o, kind |-> k, photo |-> uploaded + 1]
  /\ uploaded' = uploaded + 1 /\ files' = files \cup {uploaded + 1}
  /\ UNCHANGED <<rows, orphans, drawing, drawingFaults>>

\* Recorded unless one is under way; a new photo takes the kept one's place,
\* and whichever is not kept is purged after.
Ask(o, k, b, p) ==
  /\ Newest < MaxAsked
  /\ asked' = [asked EXCEPT ![o] = [no |-> Newest + 1, state |-> "waiting", kind |-> k, base |-> b,
                                    photo |-> IF o = "server" THEN p ELSE None, stale |-> FALSE]]
  /\ UNCHANGED <<gallery, chosen, mascot, saves, drawn>>

RequestFromPhoto ==
  /\ form.at = "request"
  /\ LET o == form.owner
     IN  \/ /\ ~Open(asked[o]) /\ Ask(o, form.kind, None, form.photo)
            /\ photo' = IF o = "person" THEN form.photo ELSE photo
            /\ form' = IF o = "person" /\ photo # None
                       THEN [form EXCEPT !.at = "purge", !.photo = photo] ELSE NoForm
         \/ /\ Open(asked[o]) \/ Newest = MaxAsked
            /\ form' = [form EXCEPT !.at = "purge"] /\ UNCHANGED rows
  /\ UNCHANGED <<files, orphans, drawing, uploaded, drawingFaults>>

\* The kinds that upload nothing; an operator may ask for the person's too.
RequestDrawing ==
  /\ form = NoForm
  /\ \E o \in Owner, k \in {"redraw_photo", "describe", "edit_drawing"} :
       /\ k \in Kinds[o] /\ ~Open(asked[o])
       /\ k = "redraw_photo" => photo # None
       /\ \E b \in IF k = "edit_drawing" THEN gallery[o] ELSE {None} : Ask(o, k, b, None)
  /\ UNCHANGED <<photo, files, orphans, form, drawing, uploaded, drawingFaults>>

\* A photo that could not be purged is logged.
PurgePhoto(p) ==
  \/ files' = files \ {p} /\ UNCHANGED orphans /\ Works
  \/ UNCHANGED files /\ orphans' = orphans \cup {p} /\ Fails

\* Mutant of PurgeUnkept: a form refused leaves its upload where it is.
PurgeUnkeptNot ==
  /\ form.at = "purge" /\ form' = NoForm
  /\ UNCHANGED <<rows, files, orphans, drawing, uploaded, drawingFaults>>

PurgeUnkept ==
  /\ form.at = "purge"
  /\ PurgePhoto(form.photo) /\ form' = NoForm
  /\ UNCHANGED <<rows, drawing, uploaded>>

shownElse == <<asked, gallery, photo, saves, drawn, files, orphans, form, drawing, uploaded, drawingFaults>>

\* One of the person's drawings, or none.
ChooseAvatarDrawing ==
  /\ chosen' \in (gallery["person"] \cup {None}) \ {chosen}
  /\ UNCHANGED mascot /\ UNCHANGED shownElse

SetGuildMascotToMascotDrawing ==
  /\ mascot' \in gallery["server"] \ {mascot}
  /\ UNCHANGED chosen /\ UNCHANGED shownElse

\* A drawing the person keeps to themselves is not the server's to show.
SetGuildMascotToAvatar ==
  /\ chosen \notin {None, mascot} /\ mascot' = chosen
  /\ UNCHANGED chosen /\ UNCHANGED shownElse

ClearGuildMascot ==
  /\ mascot # None /\ mascot' = None
  /\ UNCHANGED chosen /\ UNCHANGED shownElse

\* A drawing made outside the requests, shown at once.
SetAvatarByOperator ==
  /\ drawn < MaxDrawn /\ drawn' = drawn + 1
  /\ gallery' = [gallery EXCEPT !["person"] = @ \cup {drawn + 1}]
  /\ chosen' = drawn + 1
  /\ UNCHANGED <<asked, mascot, photo, saves, files, orphans, form, drawing, uploaded, drawingFaults>>

\* Deleted drawings are shown by nobody: the person's, and every server's
\* mascot that was one of them.
DropShown(gone) ==
  /\ chosen' = (IF chosen \in gone THEN None ELSE chosen)
  /\ mascot' = (IF mascot \in gone THEN None ELSE mascot)

DeleteDrawing(o, g) ==
  /\ gallery' = [gallery EXCEPT ![o] = @ \ {g}]
  /\ DropShown({g})
  /\ UNCHANGED <<asked, photo, saves, drawn, files, orphans, form, drawing, uploaded, drawingFaults>>

DeleteAvatarDrawing == \E g \in gallery["person"] : DeleteDrawing("person", g)
DeleteMascotDrawing == \E g \in gallery["server"] : DeleteDrawing("server", g)

\* The photo is purged first, and nothing else is done if that fails.
PurgeKept ==
  /\ form = NoForm
  /\ \/ /\ \E at \in {"forget", "remove"} :
             (at = "forget" => photo # None) /\ form' = [NoForm EXCEPT !.at = at]
        /\ files' = files \ {photo} /\ Works
     \/ photo # None /\ UNCHANGED <<form, files>> /\ Fails
  /\ UNCHANGED <<rows, orphans, drawing, uploaded>>

\* Refused while a drawing from the photo is under way.
ForgetPhoto ==
  /\ form.at = "forget"
  /\ photo' = IF Open(asked["person"]) /\ asked["person"].kind # "edit_drawing" THEN photo ELSE None
  /\ form' = NoForm
  /\ UNCHANGED <<asked, gallery, chosen, mascot, saves, drawn, files, orphans, drawing, uploaded, drawingFaults>>

RemoveEverything ==
  /\ form.at = "remove"
  /\ asked' = [asked EXCEPT !["person"] = [NoRequest EXCEPT !.no = asked["person"].no]]
  /\ DropShown(gallery["person"])
  /\ gallery' = [gallery EXCEPT !["person"] = {}]
  /\ photo' = None /\ form' = NoForm
  /\ UNCHANGED <<saves, drawn, files, orphans, drawing, uploaded, drawingFaults>>

-----------------------------------------------------------------------------
\* The drawer.

\* Waiting, or under way for so long that its drawer is gone; one whose base
\* was deleted is left out.
ToDraw(o) ==
  LET r == asked[o]
  IN  /\ r.state = "waiting" \/ (r.state = "drawing" /\ r.stale)
      /\ r.base # None => r.base \in gallery[o]

NextRequest(d) ==
  /\ drawing[d].at = "idle"
  /\ \E o \in Owner :
       /\ ToDraw(o)
       /\ drawing' = [drawing EXCEPT ![d] =
            [at |-> "start", owner |-> o, no |-> asked[o].no,
             hasPhoto |-> IF o = "person" THEN photo # None ELSE asked[o].photo # None,
             photo |-> asked[o].photo]]
  /\ UNCHANGED <<rows, files, orphans, form, uploaded, drawingFaults>>

\* The request a drawer holds, in the state a call needs it in.
Holds(d, states) ==
  LET r == asked[drawing[d].owner]
  IN  r.no = drawing[d].no /\ r.state \in states

Start(d) ==
  /\ drawing[d].at = "start"
  /\ LET o == drawing[d].owner
         mayStart == Holds(d, {"waiting"}) \/ (Holds(d, {"drawing"}) /\ asked[o].stale)
     IN  /\ asked' = IF mayStart THEN [asked EXCEPT ![o].state = "drawing", ![o].stale = FALSE] ELSE asked
         /\ drawing' = [drawing EXCEPT ![d] = IF mayStart THEN [@ EXCEPT !.at = "draw"] ELSE NoDrawing]
  /\ UNCHANGED <<gallery, chosen, mascot, photo, saves, drawn, files, orphans, form, uploaded, drawingFaults>>

\* The photo is read only while the request is under way.
MayReadPhoto(d) ==
  LET o == drawing[d].owner
      kept == IF o = "person" THEN photo ELSE asked[o].photo
  IN  Holds(d, {"drawing"}) /\ kept \in files

\* The drawing is drawn from the photo, and fails without one it needs or was
\* promised, or when its last print does.
Draw(d) ==
  /\ drawing[d].at = "draw"
  /\ LET needs == asked[drawing[d].owner].kind \notin {"edit_drawing", "describe"}
         ready == IF drawing[d].hasPhoto THEN MayReadPhoto(d) ELSE ~needs
     IN  \/ ready /\ Works /\ drawing' = [drawing EXCEPT ![d].at = "save"]
         \/ /\ IF ready THEN Fails ELSE Works
            /\ drawing' = [drawing EXCEPT ![d].at = "fail"]
  /\ UNCHANGED <<rows, files, orphans, form, uploaded>>

\* Only a request under way is moved, so a drawer whose request another took
\* and finished saves nothing.
Move(d, state) == asked' = [asked EXCEPT ![drawing[d].owner].state = state]
Left(d) == drawing' = [drawing EXCEPT ![d] =
             IF @.photo # None THEN [@ EXCEPT !.at = "purge"] ELSE NoDrawing]

\* A server without a mascot shows its new drawing.
FinishRequest(d) ==
  LET o == drawing[d].owner
  IN  /\ drawn < MaxDrawn /\ drawn' = drawn + 1
      /\ gallery' = [gallery EXCEPT ![o] = @ \cup {drawn + 1}]
      /\ saves' = [saves EXCEPT ![drawing[d].no] = @ + 1]
      /\ mascot' = IF o = "server" /\ mascot = None THEN drawn + 1 ELSE mascot
      /\ Move(d, "done") /\ Left(d)

SaveDrawing(d) ==
  /\ drawing[d].at = "save"
  /\ \/ Holds(d, {"drawing"}) /\ FinishRequest(d)
     \/ /\ ~Holds(d, {"drawing"})
        /\ drawing' = [drawing EXCEPT ![d] = NoDrawing]
        /\ UNCHANGED <<asked, gallery, mascot, saves, drawn>>
  /\ UNCHANGED <<chosen, photo, files, orphans, form, uploaded, drawingFaults>>

ReportFailed(d) ==
  /\ drawing[d].at = "fail"
  /\ IF Holds(d, {"drawing"})
     THEN Move(d, "failed") /\ Left(d)
     ELSE drawing' = [drawing EXCEPT ![d] = NoDrawing] /\ UNCHANGED asked
  /\ UNCHANGED <<gallery, chosen, mascot, photo, saves, drawn, files, orphans, form, uploaded, drawingFaults>>

\* A mascot's photo goes once its request is settled, and then its name.
PurgeMascotPhoto(d) ==
  /\ drawing[d].at = "purge"
  /\ PurgePhoto(drawing[d].photo)
  /\ asked' = IF drawing[d].photo \in files' THEN asked
              ELSE [o \in Owner |-> IF asked[o].photo = drawing[d].photo
                                    THEN [asked[o] EXCEPT !.photo = None] ELSE asked[o]]
  /\ drawing' = [drawing EXCEPT ![d] = NoDrawing]
  /\ UNCHANGED <<gallery, chosen, mascot, photo, saves, drawn, form, uploaded>>

Killed(d) ==
  /\ drawing[d].at \in {"start", "draw", "save", "fail"} /\ Fails
  /\ drawing' = [drawing EXCEPT ![d] = NoDrawing]
  /\ UNCHANGED <<rows, files, orphans, form, uploaded>>

\* The service restarts while a form's photo is recorded nowhere.
Restart ==
  /\ form # NoForm /\ Fails
  /\ orphans' = IF form.photo # None THEN orphans \cup {form.photo} ELSE orphans
  /\ form' = NoForm
  /\ UNCHANGED <<rows, files, drawing, uploaded>>

\* avatarRequestStaleAfter.
HourPasses(o) ==
  /\ asked[o].state = "drawing" /\ ~asked[o].stale
  /\ asked' = [asked EXCEPT ![o].stale = TRUE]
  /\ UNCHANGED <<gallery, chosen, mascot, photo, saves, drawn, files, orphans, form, drawing, uploaded, drawingFaults>>

-----------------------------------------------------------------------------
Page ==
  \/ UploadPhoto \/ RequestFromPhoto \/ RequestDrawing \/ PurgeUnkept
  \/ ChooseAvatarDrawing \/ DeleteAvatarDrawing \/ SetAvatarByOperator
  \/ SetGuildMascotToMascotDrawing \/ SetGuildMascotToAvatar \/ ClearGuildMascot
  \/ DeleteMascotDrawing
  \/ PurgeKept \/ ForgetPhoto \/ RemoveEverything

DrawerStep(d) ==
  NextRequest(d) \/ Start(d) \/ Draw(d) \/ SaveDrawing(d) \/ ReportFailed(d) \/ PurgeMascotPhoto(d)

Next ==
  \/ Page \/ Restart
  \/ \E d \in Drawers : DrawerStep(d) \/ Killed(d)
  \/ \E o \in Owner : HourPasses(o)

Spec == Init /\ [][Next]_vars
-----------------------------------------------------------------------------
TypeOK ==
  /\ \A o \in Owner : /\ asked[o].state \in {"none", "waiting", "drawing", "done", "failed"}
                      /\ asked[o].no \in Nat /\ asked[o].photo \in Nat /\ asked[o].base \in Nat
                      /\ gallery[o] \subseteq 1..drawn
  /\ chosen \in Nat /\ mascot \in Nat /\ photo \in Nat
  /\ files \subseteq 1..uploaded /\ orphans \subseteq 1..uploaded
  /\ form.at \in {"none", "request", "purge", "forget", "remove"}
  /\ \A d \in Drawers : drawing[d].at \in {"idle", "start", "draw", "save", "fail", "purge"}
  /\ drawn \in Nat /\ uploaded \in Nat /\ drawingFaults \in Nat

\* avatars.go and mascots.go on photos: each one in file-store is the person's
\* kept one, a mascot request's, or in the hands of a form or a drawer that is
\* about to keep or purge it; the only others are those whose purge failed.
PhotosAreAccountedFor ==
  files \ orphans \subseteq
    {photo, asked["server"].photo, form.photo} \cup {drawing[d].photo : d \in {d \in Drawers : drawing[d].at = "purge"}}

\* What is shown beside a name or as a server's mascot is a drawing still in a
\* gallery, whatever is deleted and chosen in between; and a request saves one
\* drawing at most, however many drawers take it.
ShownDrawingsExist ==
  /\ chosen \in gallery["person"] \cup {None}
  /\ mascot \in gallery["person"] \cup gallery["server"] \cup {None}
  /\ \A n \in DOMAIN saves : saves[n] <= 1

=============================================================================
