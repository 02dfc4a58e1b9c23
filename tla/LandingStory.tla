---------------------------- MODULE LandingStory ----------------------------
(***************************************************************************)
(* The landing page as a scroll story (components/landing, components/     *)
(* canvas of src/dashboard): the intro loader, the headlines that turn     *)
(* sharp and the chapters that appear once they are scrolled into view,    *)
(* and three canvases behind the text, one of them redrawn for the chapter *)
(* in view.  What tells the browser's callbacks apart is kept: observers,  *)
(* animation frames, timers, scroll events and React effects each arrive   *)
(* on their own, in any order.  The live demo is in ScenarioDemo, the      *)
(* graph of chapter 5 in EntityCanvas.                                     *)
(***************************************************************************)
EXTENDS Browser

CONSTANTS Chapters,  \* the sections of the page
          First      \* the one in view when the page opens (hero)

ASSUME ChaptersAssumption == First \in Chapters

VARIABLE frames  \* <<canvas, chapter>>: the animation loops that ask for frames

Stills == {"circuit", "mesh"}  \* canvases whose effect has no dependency
OnLanding == On("landing")

(* State of the components.                                                *)
StoryState ==
  [intro : BOOLEAN,             \* the loader hides the page
   scroll : Chapters,           \* the chapter in the viewport
   heard : BOOLEAN,             \* its scroll event has been handled
   active : Chapters,           \* activeStorySection
   drawn : Chapters,            \* activeSection of the last effect
   sharp : SUBSET Chapters,     \* headlines revealed
   seen : SUBSET Chapters,      \* sections whose content is not hidden
   raf : BOOLEAN,               \* the double frame of the first headline
   failsafe : BOOLEAN]          \* its timer of 1200 ms is armed

(* The loops that run while chapter c is the backdrop.                     *)
LoopsFor(c) == {<<s, First>> : s \in Stills} \cup {<<"story", c>>}

(* Mounted state.  calm: the browser asks for reduced motion.              *)
FreshStory(calm) ==
  [intro |-> TRUE, scroll |-> First, heard |-> TRUE,
   active |-> First, drawn |-> First,
   sharp |-> IF calm THEN Chapters ELSE {},
   seen |-> IF calm THEN Chapters ELSE {},
   raf |-> ~calm,
   failsafe |-> ~calm]

(* Variant: the frame is not cancelled.                                    *)
CleanupForgets(loops) == frames

(* The cleanup of an effect cancels the frames its loops wait for.         *)
Cleanup(loops) == frames \ loops

(* The loops of the page, if it is the one that is mounted.                *)
Running == IF OnLanding THEN LoopsFor(local.drawn) ELSE {}

(* The last of the loader's timers; the others change its text.            *)
IntroElapses == /\ OnLanding /\ local.intro
                /\ Set([local EXCEPT !.intro = FALSE])
                /\ UNCHANGED frames

(* The user scrolls, or the hero button does.                              *)
Scroll(c) == /\ OnLanding /\ c # local.scroll
             /\ Set([local EXCEPT !.scroll = c, !.heard = FALSE])
             /\ UNCHANGED frames

(* Variant: the listener compares with the section it was made with.       *)
TrackSectionOnce ==
  /\ OnLanding /\ ~local.heard
  /\ Set([local EXCEPT !.active = IF @ = First THEN local.scroll ELSE @,
                       !.heard = TRUE])
  /\ UNCHANGED frames

(* handleScroll.                                                           *)
TrackSection == /\ OnLanding /\ ~local.heard
                /\ Set([local EXCEPT !.active = local.scroll, !.heard = TRUE])
                /\ UNCHANGED frames

(* The effect on [activeSection]: cleanup of the old loop, a new one.      *)
Redraw == /\ OnLanding /\ local.drawn # local.active
          /\ frames' = Cleanup({<<"story", local.drawn>>})
                          \cup {<<"story", local.active>>}
          /\ Set([local EXCEPT !.drawn = local.active])

(* reveal(), from the observer, the second of two frames or the failsafe.  *)
Revealed(c) == [local EXCEPT !.sharp = @ \cup {c}]

ObserveHeadline(c) == /\ OnLanding /\ local.scroll = c /\ c \notin local.sharp
                      /\ Set(Revealed(c)) /\ UNCHANGED frames

FrameOfHeadline == /\ OnLanding /\ local.raf
                   /\ Set([Revealed(First) EXCEPT !.raf = FALSE])
                   /\ UNCHANGED frames

Failsafe == /\ OnLanding /\ local.failsafe
            /\ Set([Revealed(First) EXCEPT !.failsafe = FALSE])
            /\ UNCHANGED frames

(* The observer of a section plays its entrance once and disconnects.      *)
ObserveSection(c) == /\ OnLanding /\ local.scroll = c /\ c \notin local.seen
                     /\ Set([local EXCEPT !.seen = @ \cup {c}])
                     /\ UNCHANGED frames

StoryNext == \/ IntroElapses \/ TrackSection \/ Redraw
             \/ FrameOfHeadline \/ Failsafe
             \/ \E c \in Chapters : \/ Scroll(c)
                                    \/ ObserveHeadline(c)
                                    \/ ObserveSection(c)

-----------------------------------------------------------------------------
(* Nothing left behind: the landing page runs one loop per canvas, however *)
(* often the backdrop is exchanged, and no other page runs any.            *)
NoFrameLeftBehind == frames = Running

(* "text stays sharp and never re-blurs", and a section, once resolved,    *)
(* stays resolved, until the page is left or mounted anew.                 *)
Mounted == OnLanding /\ \E calm \in BOOLEAN : local = FreshStory(calm)
StaysSharp ==
  [][OnLanding /\ OnLanding' /\ ~Mounted'
       => /\ local.sharp \subseteq local'.sharp
          /\ local.seen \subseteq local'.seen]_<<page, local>>

(* The words of the opening headline turn sharp and the loader goes, also  *)
(* if no observer calls back for what is in view from the start, unless    *)
(* the page is left or mounted anew first (ScrollytellingSection.tsx:60-71)*)
Stays == OnLanding /\ ~Mounted
HeadlineSharpens ==
  Stays ~> ~Stays \/ (First \in local.sharp /\ ~local.intro)

(* What is revealed can be read: the words of the headline are sharp, and  *)
(* the section they are in, hidden at first as all sections are, has been  *)
(* resolved.                                                               *)
Readable(c) == c \in local.sharp \cap local.seen
Backdrop(c) == <<"story", c>> \in frames

(* A chapter that is scrolled to and stayed with can be read and gets its  *)
(* backdrop.  The one the page opens with gets its backdrop back: whether  *)
(* it can be read is the subject of HeadlineReadable.                      *)
StaysAt(c) == Stays /\ local.scroll = c
ChapterAppears ==
  /\ \A c \in Chapters \ {First} :
       StaysAt(c) ~> ~StaysAt(c) \/ (Readable(c) /\ Backdrop(c))
  /\ StaysAt(First) ~> ~StaysAt(First) \/ Backdrop(First)

(* Every reveal arrives: of the words in view from the start by a frame or *)
(* a timer, of a chapter scrolled to by its observers; and none of the     *)
(* callbacks that come late takes one back.                                *)
RevealsArrive == HeadlineSharpens /\ ChapterAppears /\ StaysSharp

(* "Absolute backstop - in-view text can never stay stuck blurred"         *)
(* (ScrollytellingSection.tsx:69), whose reason is that an observer need   *)
(* not call back for what is in view from the start (51-54): not so for    *)
(* the opening headline, since the section around it has an observer only. *)
HeadlineReadable == StaysAt(First) ~> ~StaysAt(First) \/ Readable(First)

=============================================================================
