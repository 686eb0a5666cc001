----------------------------- MODULE MobileDraw -----------------------------
(***************************************************************************)
(* The draw pages of the Flutter app (src/mobile/lib/features): from the   *)
(* home page a person opens the result page directly (level 1), the        *)
(* animated page (level 2) or the shuffle page (levels 3 and 4); the last  *)
(* two deal the cards, leave them in shuffleStateProvider and replace      *)
(* themselves by the result page, which shows what it finds there, or      *)
(* deals for itself when it finds nothing, and saves a reading.            *)
(*                                                                         *)
(* A draw is a Dart future: it clears the shared state, waits for the      *)
(* database, and goes on later, when its page may have been left.  A page  *)
(* that is replaced stays mounted until the transition ends.  A shuffle is *)
(* named by the call that dealt it, a reading by the page that saved it    *)
(* and that page's call it shows, 0 for the shuffle it found.              *)
(*                                                                         *)
(* Abstracted: a button acts on the state as it is, not on the frame last  *)
(* drawn; a page a person leaves is unmounted at once, and a person acts   *)
(* after a transition, not during it; the seeding of the decks has ended   *)
(* before home enables the draw button, so a later seedAllDecks only       *)
(* waits; a save that is issued arrives.  Questions are left out.          *)
(***************************************************************************)
EXTENDS Integers

CONSTANTS
  MaxPages,   \* bound: draw pages opened in one run of the app
  MaxTaps,    \* bound: draws one page starts
  None

ASSUME BoundsAssumption == MaxPages \in Nat /\ MaxTaps \in Nat \ {0}

Pages      == 1..MaxPages
Calls      == Pages \X (1..MaxTaps)
Shuffles   == Calls
ReadingIds == Pages \X (0..MaxTaps)

ASSUME NoneAssumption == None \notin Shuffles \cup ReadingIds

VARIABLES
  state,      \* shuffleStateProvider, kept alive for the life of the app
  pages,      \* the draw pages opened so far
  opened,     \* how many
  calls,      \* the draws that wait for the database
  readings    \* the readings table: the shuffle each holds

vars == <<state, pages, opened, calls, readings>>

Kinds == {"animated", "shuffle", "result"}

(* "new": pushed, its first frame not built; "up": mounted and on screen;  *)
(* "leaving": replaced, still mounted; "gone": unmounted.                  *)
Lives == {"none", "new", "up", "leaving", "gone"}

(* shown is _shuffleResult (of the shuffle page: what it has dealt), saved *)
(* is _savedReadingId, with which _autoSaved is set and reset, complete is *)
(* _animationComplete, revealed that _revealedPositions holds every card.  *)
(* asks and faceUp are the settings the animated page acts on.  from is    *)
(* the page this one replaced, 0 for home, and kept, which the code does   *)
(* not have, what that page was showing when this one took over.           *)
Page ==
  [kind: Kinds \cup {"none"}, life: Lives, from: 0..MaxPages,
   kept: Shuffles \cup {None}, shown: Shuffles \cup {None},
   taps: 0..MaxTaps, asks: BOOLEAN, faceUp: BOOLEAN, complete: BOOLEAN,
   revealed: BOOLEAN, loading: BOOLEAN, saved: ReadingIds \cup {None}]

(* The fields of a State object before initState.                          *)
Blank ==
  [kind |-> "none", life |-> "none", from |-> 0, kept |-> None,
   shown |-> None, taps |-> 0, asks |-> FALSE, faceUp |-> FALSE,
   complete |-> FALSE, revealed |-> FALSE, loading |-> FALSE, saved |-> None]

(* The state, the pages, the calls and the readings have the shape the     *)
(* code gives them, and only the page pushed last is on screen: a draw     *)
(* page left below its result could deal again (app_router.dart:122-162,   *)
(* animated_draw_page.dart:137, shuffle_page.dart:70).                     *)
DrawTypeOK ==
  /\ state \in Shuffles \cup {None}
  /\ pages \in [Pages -> Page]
  /\ opened \in 0..MaxPages
  /\ calls \subseteq Calls
  /\ readings \in [ReadingIds -> Shuffles \cup {None}]
  /\ \A v \in Pages : pages[v].life \in {"new", "up"} => v = opened

Init ==
  /\ state = None
  /\ pages = [v \in Pages |-> Blank]
  /\ opened = 0
  /\ calls = {}
  /\ readings = [r \in ReadingIds |-> None]

-----------------------------------------------------------------------------
(* mounted, as the framework answers it.                                   *)
Mounted(v) == pages[v].life \in {"up", "leaving"}

Up(v, kind) == pages[v].kind = kind /\ pages[v].life = "up"

(* No transition is running.                                               *)
Settled == \A v \in Pages : pages[v].life # "leaving"

AtHome == Settled /\ \A v \in Pages : pages[v].life \notin {"new", "up"}

(* ShuffleState.clear and setResult.                                       *)
Clear        == state' = None
SetResult(s) == state' = s

-----------------------------------------------------------------------------
(* A result page on the stack, not built yet.                              *)
Pushed(from) ==
  [Blank EXCEPT !.kind = "result", !.life = "new", !.from = from,
                !.loading = TRUE]

(* HomePage._startDraw, by the experience level in the settings.           *)

OpenResult ==
  /\ AtHome
  /\ opened < MaxPages
  /\ opened' = opened + 1
  /\ pages' = [pages EXCEPT ![opened + 1] = Pushed(0)]
  /\ UNCHANGED <<state, calls, readings>>

(* Room is left for the result pages this page may open: the animated page *)
(* one, the shuffle page one for each draw.                                *)
OpenDrawPage(kind) ==
  /\ AtHome
  /\ opened + 1 + (IF kind = "animated" THEN 1 ELSE MaxTaps) <= MaxPages
  /\ opened' = opened + 1
  /\ \E asks, faceUp \in BOOLEAN :
       /\ kind = "shuffle" => ~asks /\ ~faceUp
       /\ pages' = [pages EXCEPT ![opened + 1] =
                      [Blank EXCEPT !.kind = kind, !.life = "up",
                                    !.asks = asks, !.faceUp = faceUp]]
  /\ UNCHANGED <<state, calls, readings>>

OpenAnimated == OpenDrawPage("animated")

OpenShuffle == OpenDrawPage("shuffle")

(* A change of the layout or of the card count on the home page.           *)
ChangeLayout ==
  /\ AtHome
  /\ state # None
  /\ Clear
  /\ UNCHANGED <<pages, opened, calls, readings>>

-----------------------------------------------------------------------------
(* Page v begins a draw of its own, up to its first await.                 *)
Begin(v, page) ==
  /\ page.taps < MaxTaps
  /\ Clear
  /\ pages' = [pages EXCEPT ![v] = [page EXCEPT !.taps = @ + 1]]
  /\ calls' = calls \cup {<<v, page.taps + 1>>}
  /\ UNCHANGED <<opened, readings>>

(* The result page's setState with shuffle s, and _autoSave: nothing is    *)
(* saved when this round has saved already.                                *)
Showing(page, s, id) ==
  [page EXCEPT !.shown = s, !.loading = FALSE,
               !.saved = IF @ = None THEN id ELSE @]

AutoSave(page, s, id) ==
  readings' = IF page.saved = None
              THEN [readings EXCEPT ![id] = s]
              ELSE readings

(* initState finds a shuffle or none, and _executeDraw, a microtask of the *)
(* same frame, shows the one it found or begins a draw.                    *)
FindsNothing(v) == FALSE

Found(v) == state # None

Mount(v) ==
  /\ pages[v].life = "new"
  /\ LET from == pages[v].from
         page == [pages[v] EXCEPT !.life = "up",
                    !.kept = IF from = 0 THEN None ELSE pages[from].shown]
     IN \/ /\ Found(v)
           /\ pages' = [pages EXCEPT ![v] = Showing(page, state, <<v, 0>>)]
           /\ AutoSave(page, state, <<v, 0>>)
           /\ UNCHANGED <<state, opened, calls>>
        \/ /\ ~Found(v)
           /\ Begin(v, page)

(* AnimatedDrawPage._startDraw: from either button as long as the question *)
(* is on screen, or once, after the first frame, when none is asked.       *)
StartDraw(v) ==
  /\ Up(v, "animated")
  /\ pages[v].shown = None
  /\ pages[v].asks \/ pages[v].taps = 0
  /\ Begin(v, pages[v])

(* ShufflePage._goToDrawResult up to its await.                            *)
GoToDrawResult(v) ==
  /\ Up(v, "shuffle")
  /\ Begin(v, pages[v])

(* The redraw button of the result page.                                   *)
RedrawnStillSaved(page) ==
  [page EXCEPT !.shown = None, !.loading = TRUE]

Redrawn(page) ==
  [page EXCEPT !.shown = None, !.saved = None, !.loading = TRUE]

RedrawIdle(v) ==
  /\ pages' = [pages EXCEPT ![v] = Redrawn(@)]
  /\ UNCHANGED <<state, opened, calls, readings>>

RedrawOf(v) == Begin(v, Redrawn(pages[v]))

Redraw(v) ==
  /\ Up(v, "result")
  /\ pages[v].shown # None
  /\ pages[v].taps < MaxTaps
  /\ Settled
  /\ RedrawOf(v)

-----------------------------------------------------------------------------
(* dispose: of the State only what the properties compare stays.           *)
Unmounted(page) ==
  [Blank EXCEPT !.kind = page.kind, !.life = "gone",
                !.from = page.from, !.kept = page.kept]

(* pushReplacementNamed('draw-result') by page v, which becomes page: the  *)
(* page on screen leaves, one without a frame yet is dropped.  The bound   *)
(* is never met: OpenDrawPage has left room.                               *)
Stacked(page) == page

Covered(page) ==
  IF page.life = "up" THEN [page EXCEPT !.life = "leaving"]
  ELSE IF page.life = "new" THEN Unmounted(page)
  ELSE page

Replace(v, page) ==
  /\ opened < MaxPages
  /\ opened' = opened + 1
  /\ pages' =
       [w \in Pages |->
          IF w = opened + 1
          THEN Pushed(v)
          ELSE Covered(IF w = v THEN page ELSE pages[w])]

(* context.go('/') takes every page off the stack.                         *)
WentHome ==
  [w \in Pages |-> IF pages[w].life = "none" THEN pages[w]
                   ELSE Unmounted(pages[w])]

(* A ref.read of a page that is unmounted throws.                          *)
RefAlways(v) == TRUE

RefAlive(v) == Mounted(v)

(* The cards arrive and the rest of the draw runs: setResult, and what the *)
(* page does with the shuffle.                                             *)
Deal(c) ==
  LET v    == c[1]
      page == [pages[v] EXCEPT !.shown = c]
  IN /\ c \in calls
     /\ RefAlive(v)
     /\ calls' = calls \ {c}
     /\ SetResult(c)
     /\ \/ /\ page.kind = "animated"
           /\ pages' = [pages EXCEPT ![v] = page]
           /\ UNCHANGED <<opened, readings>>
        \/ /\ page.kind = "shuffle"
           /\ Replace(v, page)
           /\ UNCHANGED readings
        \/ /\ page.kind = "result"
           /\ pages' = [pages EXCEPT ![v] = Showing(page, c, c)]
           /\ AutoSave(page, c, c)
           /\ UNCHANGED opened

(* A read of the database throws.  The result page catches it and stops    *)
(* loading, the shuffle page goes home, the animated page catches nothing. *)
StillLoading(v) ==
  IF pages[v].kind = "shuffle" THEN WentHome ELSE pages

Caught(v) ==
  IF pages[v].kind = "shuffle" THEN WentHome
  ELSE [pages EXCEPT ![v].loading = FALSE]

Fail(c) ==
  /\ c \in calls
  /\ Mounted(c[1])
  /\ calls' = calls \ {c}
  /\ pages' = Caught(c[1])
  /\ UNCHANGED <<state, opened, readings>>

(* The page was left: the first ref.read after the await throws, which the *)
(* result and shuffle pages catch and the animated page does not; nothing  *)
(* else happens.                                                           *)
Drop(c) ==
  /\ c \in calls
  /\ ~RefAlive(c[1])
  /\ calls' = calls \ {c}
  /\ UNCHANGED <<state, pages, opened, readings>>

-----------------------------------------------------------------------------
(* The animated page's way to the result page.                             *)

(* _maybeGoToResult for page v, which becomes page.                        *)
MaybeGoToResult(v, page) ==
  \/ /\ page.complete /\ page.revealed
     /\ Replace(v, page)
  \/ /\ ~(page.complete /\ page.revealed)
     /\ pages' = [pages EXCEPT ![v] = page]
     /\ UNCHANGED opened

(* _playAnimations ends: cards dealt face up are revealed by it.           *)
AnimationEnds(v) ==
  /\ Up(v, "animated")
  /\ pages[v].shown # None
  /\ ~pages[v].complete
  /\ \/ /\ pages[v].faceUp
        /\ MaybeGoToResult(v, [pages[v] EXCEPT !.revealed = TRUE,
                                               !.complete = TRUE])
     \/ /\ ~pages[v].faceUp
        /\ pages' = [pages EXCEPT ![v].complete = TRUE]
        /\ UNCHANGED opened
  /\ UNCHANGED <<state, calls, readings>>

(* _revealCard for the last card that lies face down.                      *)
Reveal(v) ==
  /\ Up(v, "animated")
  /\ pages[v].shown # None
  /\ ~pages[v].revealed
  /\ MaybeGoToResult(v, [pages[v] EXCEPT !.revealed = TRUE])
  /\ UNCHANGED <<state, calls, readings>>

(* context.go('/'), or the system's back gesture.                          *)
GoHome ==
  /\ Settled
  /\ \E v \in Pages : pages[v].life = "up"
  /\ pages' = WentHome
  /\ UNCHANGED <<state, opened, calls, readings>>

(* The transition ends, after the new page's first frame.                  *)
Dispose(v) ==
  /\ pages[v].life = "leaving"
  /\ \A w \in Pages : pages[w].life # "new"
  /\ pages' = [pages EXCEPT ![v] = Unmounted(@)]
  /\ UNCHANGED <<state, opened, calls, readings>>

-----------------------------------------------------------------------------
Person ==
  \/ OpenAnimated
  \/ OpenShuffle
  \/ OpenResult
  \/ ChangeLayout
  \/ GoHome
  \/ \E v \in Pages : Reveal(v) \/ GoToDrawResult(v) \/ Redraw(v)

Answer(c) == Deal(c) \/ Fail(c) \/ Drop(c)

Next ==
  \/ Person
  \/ \E v \in Pages : Mount(v) \/ StartDraw(v) \/ AnimationEnds(v) \/ Dispose(v)
  \/ \E c \in Calls : Answer(c)

Spec == Init /\ [][Next]_vars

(* Frames are drawn, animations and transitions end, and the database      *)
(* answers every read, with rows or an error; a person owes nothing.       *)
FairSpec ==
  /\ Spec
  /\ \A v \in Pages : WF_vars(Mount(v)) /\ WF_vars(AnimationEnds(v))
                                        /\ WF_vars(Dispose(v))
  /\ \A c \in Calls : WF_vars(Answer(c))

-----------------------------------------------------------------------------
(* A result page that replaced a draw page first saves the shuffle that    *)
(* page was showing (draw_result_page.dart:67-80): not one dealt by        *)
(* another call meanwhile, nor one of its own.                             *)
UpstreamKept ==
  \A v \in Pages :
    pages[v].kept # None => readings[<<v, 0>>] = pages[v].kept

(* The cards on a result page are those of the reading whose id the page   *)
(* holds, after any number of redraws (draw_result_page.dart:119-137,      *)
(* 251-260): that is the row the page's question goes to.                  *)
ShownIsSaved ==
  \A v \in Pages :
    pages[v].kind = "result" /\ pages[v].shown # None =>
      /\ pages[v].saved # None
      /\ readings[pages[v].saved] = pages[v].shown

(* A reading holds a shuffle that its page has dealt, or the draw page it  *)
(* replaced: whoever leaves a draw and comes in again, at any level, gets  *)
(* new cards, and no shuffle is saved twice.  065_Brief_unified_result_    *)
(* page.md:149 asks for it: after setResult and a way back, another mode   *)
(* does not use the stale result.                                          *)
StaleIsNotReused ==
  \A id \in ReadingIds :
    readings[id] # None => readings[id][1] \in {id[1], pages[id[1]].from}

(* A draw whose page was left puts nothing into the shared state, where    *)
(* the next page would find it (draw_result_page.dart:88-98,               *)
(* animated_draw_page.dart:68-78, shuffle_page.dart:63-67).                *)
LateDrawIsSilent ==
  [][state' # state /\ state' # None => Mounted(state'[1])]_vars

(* A result page that loads has a frame to come or its last draw pending:  *)
(* no draw that ends, by cards, an error or a page that was left, and no   *)
(* redraw leaves it with nothing to wait for (draw_result_page.dart:64-113,*)
(* 251-260).                                                               *)
LoadingAwaitsDraw ==
  \A v \in Pages :
    pages[v].loading =>
      pages[v].life = "new" \/ <<v, pages[v].taps>> \in calls

(* A result page does not load for ever: it shows cards, or that the draw  *)
(* failed, or is left (draw_result_page.dart:64-113).                      *)
ResultSettles ==
  \A v \in Pages :
    pages[v].loading ~> ~pages[v].loading \/ pages[v].life = "gone"

(* Once every card is revealed the animated page goes on to the result     *)
(* page, as docs/Explanation/mobile/lib/features/draw/presentation/pages/  *)
(* animated_draw_page.md:193 says.                                         *)
RevealedMovesOn ==
  \A v \in Pages :
    Up(v, "animated") /\ pages[v].revealed ~> pages[v].life # "up"
=============================================================================
