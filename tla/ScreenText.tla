----------------------------- MODULE ScreenText -----------------------------
(***************************************************************************)
(* Commands that read the framebuffer: screenshot, locate (and the CLI's   *)
(* click on what it found) and click-at.  Each takes what it needs under   *)
(* the session lock and lets go of it before the slow part, so the screen  *)
(* may be repainted, and the session replaced, before the answer is out.   *)
(*                                                                         *)
(* The recogniser is external: of a crop it detects each text box the crop *)
(* touches, cut to the crop and in the crop's coordinates.  It reads a box *)
(* that shows whole; one that is cut it reads as something else, or as     *)
(* nothing, and what reads as nothing is no box to the commands.           *)
(***************************************************************************)
EXTENDS Integers, FiniteSets

CONSTANTS
  ScreenAsks,         \* the commands a behaviour may be given
  Pictures,     \* what the remote side may paint: sets of text boxes
  DesktopSize,  \* [w, h] of the framebuffer
  MaxPaints,    \* bound: pictures painted after the first
  MaxLogins,    \* bound: sessions put into the slot
  MaxPasses     \* bound: recognition passes of one waiting locate

ASSUME ScreenAssumption ==
  /\ DesktopSize.w \in Nat \ {0} /\ DesktopSize.h \in Nat \ {0}
  /\ MaxPaints \in Nat /\ MaxLogins \in Nat \ {0} /\ MaxPasses \in Nat \ {0}

None == [none |-> TRUE]
NoLogin == 0
Unread == "?"

(* A picture is finitely many boxes of readable text, each on the desktop. *)
ASSUME PicturesAssumption ==
  \A boxes \in Pictures :
    /\ IsFiniteSet(boxes)
    /\ \A b \in boxes :
         /\ b.x \in Nat /\ b.w \in Nat \ {0} /\ b.x + b.w <= DesktopSize.w
         /\ b.y \in Nat /\ b.h \in Nat \ {0} /\ b.y + b.h <= DesktopSize.h
         /\ b.text # Unread

(* A request carries unsigned numbers, and nobody asks for the unreadable. *)
(* The gap is below half the window, as with the defaults (10 px of        *)
(* 400x160): a wider gap asks about boxes the window does not show.        *)
ASSUME AsksAssumption ==
  \A a \in ScreenAsks :
    /\ a.kind \in {"shot", "locate", "clickAt"}
    /\ a.kind # "clickAt" /\ a.region # None =>
         a.region.x \in Nat /\ a.region.y \in Nat /\ a.region.w \in Nat /\ a.region.h \in Nat
    /\ a.kind = "locate" => a.text # Unread /\ Unread \notin a.near /\ a.nearDistance \in Nat
    /\ a.kind = "clickAt" =>
         /\ a.at.x \in Nat /\ a.at.y \in Nat /\ a.maxDivergence \in Nat /\ a.gap \in Nat
         /\ a.confirm # None => a.confirm.x \in Nat /\ a.confirm.y \in Nat
         /\ a.window.w \in Nat /\ a.gap < a.window.w \div 2
         /\ a.window.h \in Nat /\ a.gap < a.window.h \div 2

VARIABLES
  login,    \* the session in the slot, or NoLogin; its drop is seen as it happens
  dropped,  \* that session's frame processor has stopped
  screen,   \* [seq, boxes]: its framebuffer and frame generation
  ask,      \* the command of this behaviour
  look,     \* how far it is: phase, what it read, what it knows
  clicks    \* history: the clicks delivered, each with the picture it was judged on

screenVars == <<login, dropped, screen, ask, look, clicks>>

-----------------------------------------------------------------------------
(* Geometry                                                                *)

Larger(a, b) == IF a >= b THEN a ELSE b
Smaller(a, b) == IF a <= b THEN a ELSE b
Apart(a, b) == Larger(a - b, b - a)

(* 0 for a point inside the box, else the larger of the gaps to its edges. *)
RectDistance(b, p) ==
  Larger(Larger(0, Larger(b.x - p.x, p.x - (b.x + b.w))),
         Larger(0, Larger(b.y - p.y, p.y - (b.y + b.h))))

PointDistance(p, q) == Larger(Apart(p.x, q.x), Apart(p.y, q.y))

Midpoint(p, q) == [x |-> (p.x + q.x) \div 2, y |-> (p.y + q.y) \div 2]

Center(b) == [x |-> b.x + b.w \div 2, y |-> b.y + b.h \div 2]

Less(a, b) == Larger(0, a - b)

(* The part of a region on the desktop, None when there is none of it.     *)
ClampTo(r, size) ==
  LET x == Smaller(r.x, size.w)
      y == Smaller(r.y, size.h)
      right == Smaller(r.x + r.w, size.w)
      bottom == Smaller(r.y + r.h, size.h)
  IN IF right <= x \/ bottom <= y THEN None
     ELSE [x |-> x, y |-> y, w |-> right - x, h |-> bottom - y]

WholeDesktop == [x |-> 0, y |-> 0, w |-> DesktopSize.w, h |-> DesktopSize.h]

WindowAround(p, window) ==
  [x |-> Less(p.x, window.w \div 2), y |-> Less(p.y, window.h \div 2),
   w |-> window.w, h |-> window.h]

-----------------------------------------------------------------------------
(* Recognition                                                             *)

(* What the recogniser makes of one box, in the crop's coordinates: Unread *)
(* stands for any other text than its own.  Its answer is a list: two      *)
(* boxes that come out alike (of) are still two.                           *)
CutTo(b, crop) ==
  LET left == Larger(b.x, crop.x)
      top == Larger(b.y, crop.y)
      right == Smaller(b.x + b.w, crop.x + crop.w)
      bottom == Smaller(b.y + b.h, crop.y + crop.h)
      whole == right - left = b.w /\ bottom - top = b.h
  IN [x |-> left - crop.x, y |-> top - crop.y, w |-> right - left, h |-> bottom - top,
      text |-> IF whole THEN b.text ELSE Unread, of |-> b]

Detects(boxes, crop) ==
  {b \in {CutTo(c, crop) : c \in boxes} : b.w > 0 /\ b.h > 0}

(* The boxes that show in part: each may read as nothing.                  *)
ShowInPart(boxes, crop) == {b.of : b \in {c \in Detects(boxes, crop) : c.text = Unread}}

(* Lines with no text, or blank text, are left out of a pass's answer.     *)
TextLines(boxes, blank, crop) == Detects(boxes \ blank, crop)

UnshiftedMatches(found, region) == found

(* Back to the desktop's coordinates.                                      *)
OffsetMatches(found, region) ==
  {[b EXCEPT !.x = @ + region.x, !.y = @ + region.y] : b \in found}

FilterNear(found, anchors, distance) ==
  {b \in found : \E a \in anchors : RectDistance(a, Center(b)) <= distance}

(* The boxes too close to the point to tell which of them is meant; a      *)
(* single one is the target.                                               *)
Ambiguous(boxes, p, gap) ==
  LET nearby == {b \in boxes : RectDistance(b, p) <= gap}
  IN IF Cardinality(nearby) <= 1 THEN {} ELSE nearby

-----------------------------------------------------------------------------
(* The session under the commands                                          *)

Blank == [seq |-> 0, boxes |-> {}]

(* A decoded update: the processor takes the image lock, never the lock of *)
(* the slot, so it paints whatever the commands are doing.                 *)
Repaints ==
  /\ login # NoLogin /\ ~dropped /\ screen.seq < MaxPaints
  /\ \E boxes \in Pictures :
       screen' = [seq |-> screen.seq + 1, boxes |-> boxes]
  /\ UNCHANGED <<login, dropped, ask, look, clicks>>

SlotFree == look.phase # "numbered"  \* a screenshot holds the slot between its two reads

Drops ==
  /\ login # NoLogin /\ ~dropped
  /\ dropped' = TRUE
  /\ UNCHANGED <<login, screen, ask, look, clicks>>

(* The daemon takes a dropped session, or one the user disconnects, out of *)
(* the slot; connect puts the next one there, blank.                       *)
SlotChanges ==
  /\ SlotFree /\ login # NoLogin /\ login < MaxLogins
  /\ \E next \in {NoLogin, login + 1} :
       /\ login' = next /\ dropped' = FALSE /\ screen' = Blank
  /\ UNCHANGED <<ask, look, clicks>>

-----------------------------------------------------------------------------
(* The commands                                                            *)

Concludes(verdict) == look' = [look EXCEPT !.phase = "done", !.verdict = verdict]

Reads(crop) ==
  \E blank \in SUBSET ShowInPart(screen.boxes, crop) :
    look' = [look EXCEPT !.phase = "read", !.crop = crop, !.frame = screen.boxes,
                         !.blank = blank, !.seq = screen.seq, !.from = login]

SettlesOn(p) == look' = [look EXCEPT !.phase = "judged", !.point = p]

RefusedAtSlot(reason) ==
  /\ look.phase = "asked" /\ SlotFree
  /\ reason
  /\ Concludes("notConnected")
  /\ UNCHANGED <<login, dropped, screen, ask, clicks>>

NothingInSlot == RefusedAtSlot(login = NoLogin)

(* get_or_init_ocr_service: the models are not installed, or do not load.  *)
(* The failure is not kept: the next command tries again.                  *)
NoRecogniser ==
  /\ look.phase = "asked" /\ ask.kind # "shot" /\ look.passes = 1
  /\ Concludes("unavailable")
  /\ UNCHANGED <<login, dropped, screen, ask, clicks>>

RecogniserFails ==
  /\ look.phase = "read"
  /\ Concludes("failed")
  /\ UNCHANGED <<login, dropped, screen, ask, clicks>>

(* screenshot and locate refuse a session that has dropped but is not torn *)
(* down yet; click-at does not ask.                                        *)
RefuseIfDropped ==
  ask.kind \in {"shot", "locate"} /\ RefusedAtSlot(login # NoLogin /\ dropped)

Open == login # NoLogin /\ (dropped => ask.kind = "clickAt")

RegionOf(a) == IF a.region = None THEN WholeDesktop ELSE ClampTo(a.region, DesktopSize)

RegionRefused ==
  /\ look.phase = "asked" /\ Open /\ ask.kind \in {"shot", "locate"}
  /\ RegionOf(ask) = None
  /\ Concludes("invalid")
  /\ UNCHANGED <<login, dropped, screen, ask, clicks>>

(* screenshot, first half: the frame's number, under a read lock of its own. *)
Numbers ==
  /\ look.phase = "asked" /\ Open /\ ask.kind = "shot" /\ RegionOf(ask) # None
  /\ look' = [look EXCEPT !.phase = "numbered", !.seq = screen.seq, !.from = login]
  /\ UNCHANGED <<login, dropped, screen, ask, clicks>>

(* screenshot, second half: the pixels, under another.                     *)
Copies ==
  /\ look.phase = "numbered"
  /\ look' = [look EXCEPT !.phase = "done", !.verdict = "shot", !.crop = RegionOf(ask),
                          !.frame = screen.boxes, !.pixels = screen.seq]
  /\ UNCHANGED <<login, dropped, screen, ask, clicks>>

OnePass ==
  /\ look.phase = "asked" /\ Open /\ ask.kind = "locate" /\ RegionOf(ask) # None
  /\ Reads(RegionOf(ask))
  /\ UNCHANGED <<login, dropped, screen, ask, clicks>>

Diverges(a) == a.confirm # None /\ PointDistance(a.at, a.confirm) > a.maxDivergence
Target(a) == IF a.confirm = None THEN a.at ELSE Midpoint(a.at, a.confirm)
OffDesktop(p) == p.x >= DesktopSize.w \/ p.y >= DesktopSize.h

(* Two measurements of one target that do not agree: no click, whatever    *)
(* the session is doing.                                                   *)
MeasurementsDiverge ==
  /\ look.phase = "asked" /\ ask.kind = "clickAt" /\ Diverges(ask)
  /\ Concludes("diverged")
  /\ UNCHANGED <<login, dropped, screen, ask, clicks>>

PointRefused ==
  /\ look.phase = "asked" /\ Open /\ ask.kind = "clickAt" /\ ~Diverges(ask)
  /\ OffDesktop(Target(ask))
  /\ Concludes("invalid")
  /\ UNCHANGED <<login, dropped, screen, ask, clicks>>

LooksAround ==
  /\ look.phase = "asked" /\ Open /\ ask.kind = "clickAt" /\ ~Diverges(ask)
  /\ ~OffDesktop(Target(ask))
  /\ Reads(ClampTo(WindowAround(Target(ask), ask.window), DesktopSize))
  /\ UNCHANGED <<login, dropped, screen, ask, clicks>>

(* The boxes a pass comes back with, in desktop coordinates.               *)
Seen == OffsetMatches(TextLines(look.frame, look.blank, look.crop), look.crop)

Matching(seen) ==
  LET named == {b \in seen : ask.all \/ b.text = ask.text}
      anchors == {b \in seen : b.text \in ask.near}
  IN IF ask.near = {} THEN named ELSE FilterNear(named, anchors, ask.nearDistance)

(* The pass found something, or locate does not wait for it.               *)
Locates ==
  /\ look.phase = "read" /\ ask.kind = "locate"
  /\ ask.all \/ Matching(Seen) # {} \/ ~ask.wait
  /\ look' = [look EXCEPT !.phase = "located", !.matches = Matching(Seen)]
  /\ UNCHANGED <<login, dropped, screen, ask, clicks>>

(* Nothing yet, and the wait is not over: another pass after the poll      *)
(* interval; or it is over.                                                *)
WaitsOn ==
  /\ look.phase = "read" /\ ask.kind = "locate" /\ ~ask.all /\ ask.wait
  /\ Matching(Seen) = {}
  /\ \/ /\ look.passes < MaxPasses
        /\ look' = [look EXCEPT !.phase = "asked", !.passes = @ + 1]
     \/ Concludes("timeout")
  /\ UNCHANGED <<login, dropped, screen, ask, clicks>>

(* The CLI's choice: the only match, or the one its index names.           *)
Chosen(matches, index) ==
  IF index THEN matches ELSE {b \in matches : matches = {b}}

NotChosen ==
  /\ look.phase = "located"
  /\ ~ask.click \/ Chosen(look.matches, ask.index) = {}
  /\ Concludes(IF ask.click THEN "ambiguous" ELSE "found")
  /\ UNCHANGED <<login, dropped, screen, ask, clicks>>

Chooses ==
  /\ look.phase = "located" /\ ask.click
  /\ \E b \in Chosen(look.matches, ask.index) : SettlesOn(Center(b))
  /\ UNCHANGED <<login, dropped, screen, ask, clicks>>

ClickRefused ==
  /\ look.phase = "read" /\ ask.kind = "clickAt"
  /\ Ambiguous(Seen, Target(ask), ask.gap) # {}
  /\ Concludes("ambiguous")
  /\ UNCHANGED <<login, dropped, screen, ask, clicks>>

JudgedSafe ==
  /\ look.phase = "read" /\ ask.kind = "clickAt"
  /\ Ambiguous(Seen, Target(ask), ask.gap) = {}
  /\ SettlesOn(Target(ask))
  /\ UNCHANGED <<login, dropped, screen, ask, clicks>>

(* The click is a mouse request of its own: it takes the slot again and    *)
(* goes to the session found there, if it still runs.                      *)
Clicks ==
  /\ look.phase = "judged"
  /\ \/ /\ login # NoLogin /\ ~dropped
        /\ clicks' = clicks \union {[at |-> look.point, judged |-> look.frame,
                                     blank |-> look.blank, crop |-> look.crop,
                                     on |-> look.from, into |-> login]}
        /\ Concludes("clicked")
     \/ /\ login = NoLogin \/ dropped
        /\ Concludes("notConnected") /\ UNCHANGED clicks
  /\ UNCHANGED <<login, dropped, screen, ask>>

-----------------------------------------------------------------------------
NotLooking ==
  [phase |-> "asked", verdict |-> "none", crop |-> None, frame |-> {}, blank |-> {}, seq |-> 0,
   pixels |-> 0, from |-> NoLogin, matches |-> {}, point |-> None, passes |-> 1]

ScreenInit ==
  /\ login = 1 /\ dropped = FALSE /\ screen = Blank
  /\ ask \in ScreenAsks /\ look = NotLooking /\ clicks = {}

ScreenNext ==
  \/ Repaints \/ Drops \/ SlotChanges
  \/ NoRecogniser \/ RecogniserFails \/ NothingInSlot \/ RefuseIfDropped \/ RegionRefused
  \/ Numbers \/ Copies
  \/ OnePass \/ Locates \/ WaitsOn \/ NotChosen \/ Chooses
  \/ MeasurementsDiverge \/ PointRefused \/ LooksAround \/ ClickRefused \/ JudgedSafe
  \/ Clicks

ScreenSpec == ScreenInit /\ [][ScreenNext]_screenVars

-----------------------------------------------------------------------------
(* Commands end with a verdict and only a command that ended has one; a    *)
(* crop that was read lies on the desktop.                                 *)
ScreenTypeOK ==
  /\ login \in 0..MaxLogins /\ dropped \in BOOLEAN
  /\ screen.seq \in 0..MaxPaints /\ screen.boxes \in Pictures \union {{}}
  /\ look.passes \in 1..MaxPasses
  /\ look.phase \in {"asked", "numbered", "read", "located", "judged", "done"}
  /\ (look.phase = "done") = (look.verdict # "none")
  /\ look.crop # None => look.crop.x + look.crop.w <= DesktopSize.w
                         /\ look.crop.y + look.crop.h <= DesktopSize.h

(* A click-at has at most one of these text boxes within the gap and is    *)
(* within the divergence of both measurements; a located click is inside   *)
(* one that reads as asked, near an anchor if one was named.               *)
WellJudged(at, boxes) ==
  IF ask.kind = "clickAt"
  THEN /\ Cardinality({b \in boxes : RectDistance(b, at) <= ask.gap}) <= 1
       /\ ask.confirm # None => /\ PointDistance(at, ask.at) <= ask.maxDivergence
                                /\ PointDistance(at, ask.confirm) <= ask.maxDivergence
  ELSE \E b \in boxes :
         /\ RectDistance(b, at) = 0 /\ (ask.all \/ b.text = ask.text)
         /\ ask.near # {} =>
              \E a \in boxes : a.text \in ask.near /\ RectDistance(a, at) <= ask.nearDistance

(* Whatever was cropped and translated on the way, a click lands where the *)
(* whole picture it was judged on says: no box of it that shows whole goes *)
(* uncounted, and of those the crop cuts only the ones with no text do.    *)
ClicksJudged ==
  \A c \in clicks :
    /\ c.blank \subseteq ShowInPart(c.judged, c.crop)
    /\ WellJudged(c.at, c.judged \ c.blank)

(* Known not to hold, and in no run: a click is judged on every text box   *)
(* that was detected, whatever recognition made of it.  A neighbour at the *)
(* edge of the window that reads as nothing is not counted.                *)
JudgedOnDetection == \A c \in clicks : WellJudged(c.at, c.judged)

(* Known not to hold, and in no run: a screenshot's sequence number names  *)
(* the picture it carries.  The number and the pixels are read under two   *)
(* read locks, and an update decoded between them makes the pixels newer.  *)
SeqNamesPixels == look.verdict = "shot" => look.pixels = look.seq

(* Known not to hold, and in no run: a click goes into the session whose   *)
(* picture it was judged on.                                               *)
ClicksJudgedSession == \A c \in clicks : c.on = c.into

=============================================================================
