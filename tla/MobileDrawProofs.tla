-------------------------- MODULE MobileDrawProofs --------------------------
(***************************************************************************)
(* Theorems about MobileDraw for any number of pages and of draws.  The    *)
(* inductive invariant says which page a pending draw can belong to: the   *)
(* one on screen, or the draw page it replaced.  A result page without a   *)
(* frame therefore finds what that page last dealt, and nothing else can   *)
(* get between.                                                            *)
(***************************************************************************)
EXTENDS MobileDraw, TLAPS

(* Pages are opened in order, only a result page replaces another, and a   *)
(* page without a frame has shown and saved nothing.                       *)
StackInv ==
  \A v \in Pages :
    /\ pages[v].life = "none" <=> v > opened
    /\ pages[v].kind # "result" => pages[v].from = 0
    /\ pages[v].life = "new" => /\ pages[v].kind = "result"
                                /\ pages[v].shown = None
                                /\ pages[v].saved = None

(* A draw page that is leaving was replaced by the page on screen.         *)
LeavingInv ==
  \A v \in Pages :
    pages[v].life = "leaving" =>
      /\ v # opened
      /\ pages[v].kind # "result" => v = pages[opened].from

(* A pending draw belongs to a page that has had its frame; a result page  *)
(* has one at a time, shows nothing meanwhile, and no page is leaving.     *)
PendingInv ==
  \A c \in calls :
    /\ pages[c[1]].life \notin {"none", "new"}
    /\ pages[c[1]].kind = "result" /\ Mounted(c[1]) =>
         /\ Settled
         /\ pages[c[1]].saved = None
         /\ pages[c[1]].shown = None
         /\ c[2] = pages[c[1]].taps

(* A result page about to have its first frame finds what the page it      *)
(* replaces shows; opened from home it has no page to replace.             *)
FreshInv ==
  \A v \in Pages :
    pages[v].life = "new" =>
      /\ pages[v].from = 0 => Settled
      /\ pages[v].from # 0 => /\ state # None
                              /\ pages[pages[v].from].shown = state
                              /\ pages[pages[v].from].life = "leaving"

(* What the animated page shows is what it would hand over.                *)
AgreesInv ==
  \A v \in Pages :
    Up(v, "animated") /\ pages[v].shown # None => state = pages[v].shown

OwnInv ==
  \A v \in Pages : pages[v].saved # None => pages[v].saved[1] = v

DrawInv ==
  /\ DrawTypeOK
  /\ StackInv
  /\ LeavingInv
  /\ PendingInv
  /\ FreshInv
  /\ AgreesInv
  /\ OwnInv
  /\ UpstreamKept
  /\ ShownIsSaved

-----------------------------------------------------------------------------
LEMMA CallFacts ==
  ASSUME NEW c \in Calls
  PROVE  /\ c[1] \in Pages /\ c[2] \in 1..MaxTaps
         /\ c \in Shuffles /\ c \in ReadingIds /\ c # None
         /\ c = <<c[1], c[2]>>
         /\ \A v \in Pages : c # <<v, 0>>
<1>1. c[1] \in Pages /\ c[2] \in 1..MaxTaps /\ c = <<c[1], c[2]>>
  BY DEF Calls
<1>2. c \in Shuffles /\ c \in ReadingIds
  BY <1>1, BoundsAssumption DEF Shuffles, Calls, ReadingIds
<1>3. c # None
  BY <1>2, NoneAssumption
<1>4. \A v \in Pages : c # <<v, 0>>
  BY <1>1
<1> QED BY <1>1, <1>2, <1>3, <1>4

LEMMA FirstIdFacts ==
  ASSUME NEW v \in Pages
  PROVE  <<v, 0>> \in ReadingIds /\ <<v, 0>> # None
BY BoundsAssumption, NoneAssumption DEF ReadingIds

LEMMA BlankIsPage == Blank \in Page
BY BoundsAssumption, NoneAssumption DEF Blank, Page, Kinds, Lives

LEMMA PushedFacts ==
  ASSUME NEW v \in 0..MaxPages
  PROVE  /\ Pushed(v) \in Page
         /\ Pushed(v).kind = "result" /\ Pushed(v).life = "new"
         /\ Pushed(v).from = v /\ Pushed(v).kept = None
         /\ Pushed(v).shown = None /\ Pushed(v).saved = None
BY BlankIsPage DEF Pushed, Page, Blank, Kinds, Lives

LEMMA UnmountedFacts ==
  ASSUME NEW page \in Page
  PROVE  /\ Unmounted(page) \in Page
         /\ Unmounted(page).life = "gone"
         /\ Unmounted(page).kind = page.kind
         /\ Unmounted(page).from = page.from
         /\ Unmounted(page).kept = page.kept
         /\ Unmounted(page).shown = None /\ Unmounted(page).saved = None
BY ZenonT(40), BlankIsPage DEF Unmounted, Page, Blank, Lives

LEMMA InitEstablishes == Init => DrawInv
<1> SUFFICES ASSUME Init PROVE DrawInv
  OBVIOUS
<1>1. \A v \in Pages : pages[v] = Blank
  BY DEF Init
<1>2. DrawTypeOK
  BY <1>1, BlankIsPage, BoundsAssumption DEF Init, DrawTypeOK, Blank
<1>3. StackInv /\ LeavingInv /\ FreshInv /\ AgreesInv /\ OwnInv
  BY <1>1, BoundsAssumption
     DEF Init, StackInv, LeavingInv, FreshInv, AgreesInv, OwnInv, Up, Blank,
         Pages
<1>4. PendingInv /\ UpstreamKept /\ ShownIsSaved
  BY <1>1 DEF Init, PendingInv, UpstreamKept, ShownIsSaved, Blank
<1> QED BY <1>2, <1>3, <1>4 DEF DrawInv

-----------------------------------------------------------------------------
(* A change of one page that touches none of the fields the invariant      *)
(* speaks of, while draws may end.                                         *)
LEMMA UpdateKeeps ==
  ASSUME DrawInv, NEW v \in Pages, NEW page \in Page,
         page.kind = pages[v].kind, page.life = pages[v].life,
         page.from = pages[v].from, page.kept = pages[v].kept,
         page.shown = pages[v].shown, page.taps = pages[v].taps,
         page.saved = pages[v].saved,
         pages' = [pages EXCEPT ![v] = page],
         calls' \subseteq calls,
         state' = state, opened' = opened, readings' = readings
  PROVE  DrawInv'
<1> USE DEF DrawInv
<1>1. pages' \in [Pages -> Page]
  BY DEF DrawTypeOK
<1>2. \A w \in Pages :
        /\ pages'[w].kind = pages[w].kind /\ pages'[w].life = pages[w].life
        /\ pages'[w].from = pages[w].from /\ pages'[w].kept = pages[w].kept
        /\ pages'[w].shown = pages[w].shown /\ pages'[w].taps = pages[w].taps
        /\ pages'[w].saved = pages[w].saved
  BY DEF DrawTypeOK
<1>3. DrawTypeOK'
  BY <1>1, <1>2 DEF DrawTypeOK
<1>4. \A w \in Pages : pages[w].from # 0 => pages[w].from \in Pages
  BY DEF DrawTypeOK, Page, Pages
<1>5. opened # 0 => opened \in Pages
  BY DEF DrawTypeOK, Pages
<1>6. StackInv'
  BY <1>2 DEF StackInv
<1>7. LeavingInv'
  BY <1>2, <1>5, BoundsAssumption DEF LeavingInv, StackInv, DrawTypeOK, Pages
<1>8. \A c \in calls' : c \in calls /\ c[1] \in Pages
  BY CallFacts DEF DrawTypeOK
<1>9. PendingInv'
  BY <1>2, <1>8 DEF PendingInv, Mounted, Settled
<1>10. FreshInv'
  BY <1>2, <1>4 DEF FreshInv, Settled
<1>11. AgreesInv' /\ OwnInv' /\ UpstreamKept' /\ ShownIsSaved'
  BY <1>2 DEF AgreesInv, OwnInv, UpstreamKept, ShownIsSaved, Up
<1> QED BY <1>3, <1>6, <1>7, <1>9, <1>10, <1>11

(* Going home unmounts every page, while draws may end.                    *)
LEMMA HomeKeeps ==
  ASSUME DrawInv, pages' = WentHome, calls' \subseteq calls,
         state' = state, opened' = opened, readings' = readings
  PROVE  DrawInv'
<1> USE DEF DrawInv
<1>1. ASSUME NEW w \in Pages, pages[w].life # "none"
      PROVE  /\ pages'[w] \in Page
             /\ pages'[w].life = "gone"
             /\ pages'[w].kind = pages[w].kind
             /\ pages'[w].from = pages[w].from
             /\ pages'[w].kept = pages[w].kept
             /\ pages'[w].shown = None /\ pages'[w].saved = None
  <2>1. pages'[w] = Unmounted(pages[w])
    BY <1>1 DEF WentHome
  <2>2. pages[w] \in Page
    BY DEF DrawTypeOK
  <2> QED BY <2>1, <2>2, UnmountedFacts
<1>2. ASSUME NEW w \in Pages, pages[w].life = "none"
      PROVE  pages'[w] = pages[w]
  BY <1>2 DEF WentHome
<1>3. \A w \in Pages : pages'[w] \in Page
  BY <1>1, <1>2 DEF DrawTypeOK
<1>4. pages' \in [Pages -> Page]
  BY <1>3 DEF WentHome
<1>5. \A w \in Pages : pages'[w].life \in {"none", "gone"}
  BY <1>1, <1>2
<1>6. DrawTypeOK'
  BY <1>4, <1>5 DEF DrawTypeOK
<1>7. \A w \in Pages : /\ pages'[w].life = "none" <=> pages[w].life = "none"
                       /\ pages'[w].kind = pages[w].kind
                       /\ pages'[w].from = pages[w].from
                       /\ pages'[w].kept = pages[w].kept
                       /\ pages'[w].shown = None \/ pages'[w].shown = pages[w].shown
                       /\ pages'[w].saved = None \/ pages'[w].saved = pages[w].saved
  BY <1>1, <1>2
<1>8. StackInv' /\ LeavingInv' /\ FreshInv'
  BY <1>5, <1>7 DEF StackInv, LeavingInv, FreshInv
<1>9. PendingInv'
  BY <1>5, <1>7, CallFacts DEF PendingInv, Mounted, DrawTypeOK
<1>10. AgreesInv' /\ OwnInv' /\ UpstreamKept'
  BY <1>5, <1>7 DEF AgreesInv, OwnInv, UpstreamKept, Up
<1>11. ShownIsSaved'
  <2> SUFFICES ASSUME NEW w \in Pages, pages'[w].kind = "result",
                      pages'[w].shown # None
               PROVE  /\ pages'[w].saved # None
                      /\ readings'[pages'[w].saved] = pages'[w].shown
    BY DEF ShownIsSaved
  <2>1. pages'[w] = pages[w]
    BY <1>1, <1>2
  <2> QED BY <2>1 DEF ShownIsSaved
<1> QED BY <1>6, <1>8, <1>9, <1>10, <1>11

(* A page that is on screen, or comes on screen, begins a draw.            *)
LEMMA BeginKeeps ==
  ASSUME DrawInv, NEW v \in Pages, NEW page \in Page,
         pages[v].life \in {"new", "up"}, page.life = "up",
         page.kind = pages[v].kind, page.from = pages[v].from,
         page.kind # "shuffle" => page.shown = None,
         page.kind = "result" =>
           Settled /\ page.saved = None /\ \A c \in calls : c[1] # v,
         page.kept # None => readings[<<v, 0>>] = page.kept,
         page.saved # None => page.saved[1] = v,
         Begin(v, page)
  PROVE  DrawInv'
<1> USE DEF DrawInv
<1> DEFINE call == <<v, page.taps + 1>>
<1>1. /\ state' = None /\ opened' = opened /\ readings' = readings
      /\ calls' = calls \cup {call}
      /\ page.taps < MaxTaps
      /\ pages' = [pages EXCEPT ![v] = [page EXCEPT !.taps = @ + 1]]
  BY DEF Begin, Clear
<1>2. /\ [page EXCEPT !.taps = @ + 1] \in Page
      /\ page.taps + 1 \in 1..MaxTaps
  BY <1>1, BoundsAssumption DEF Page
<1>3. /\ pages'[v] = [page EXCEPT !.taps = @ + 1]
      /\ \A w \in Pages : w # v => pages'[w] = pages[w]
      /\ pages' \in [Pages -> Page]
  BY <1>1, <1>2 DEF DrawTypeOK
<1>4. /\ pages'[v].kind = page.kind /\ pages'[v].life = "up"
      /\ pages'[v].from = page.from /\ pages'[v].kept = page.kept
      /\ pages'[v].shown = page.shown /\ pages'[v].saved = page.saved
      /\ pages'[v].taps = page.taps + 1
  BY <1>3 DEF Page
<1> HIDE DEF call
<1>5. v = opened
  BY DEF DrawTypeOK
<1>6. call \in Calls /\ call[1] = v /\ call[2] = page.taps + 1
  BY <1>2 DEF call, Calls
<1>7. DrawTypeOK'
  BY <1>1, <1>3, <1>5, <1>6 DEF DrawTypeOK
<1>8. StackInv'
  BY <1>1, <1>3, <1>4 DEF StackInv
<1>9. \A w \in Pages : pages'[w].from = pages[w].from
                     /\ pages'[w].kind = pages[w].kind
  BY <1>3, <1>4
<1>10. LeavingInv'
  BY <1>1, <1>3, <1>4, <1>5, <1>9 DEF LeavingInv
<1>11. Settled => Settled'
  BY <1>3, <1>4 DEF Settled
<1>12. PendingInv'
  <2> SUFFICES ASSUME NEW c \in calls'
               PROVE  /\ pages'[c[1]].life \notin {"none", "new"}
                      /\ pages'[c[1]].kind = "result" /\ Mounted(c[1])' =>
                           /\ Settled'
                           /\ pages'[c[1]].saved = None
                           /\ pages'[c[1]].shown = None
                           /\ c[2] = pages'[c[1]].taps
    BY DEF PendingInv
  <2>1. CASE c = call
    BY <2>1, <1>4, <1>6, <1>11
  <2>2. CASE c # call /\ c[1] = v
    <3>1. c \in calls
      BY <2>2, <1>1
    <3> QED BY <2>2, <3>1, <1>4
  <2>3. CASE c # call /\ c[1] # v
    <3>1. c \in calls /\ c[1] \in Pages
      BY <2>3, <1>1, CallFacts DEF DrawTypeOK
    <3> QED BY <2>3, <3>1, <1>3, <1>11 DEF PendingInv, Mounted
  <2> QED BY <2>1, <2>2, <2>3
<1>13. FreshInv'
  BY ZenonT(40), <1>3, <1>4, <1>5 DEF FreshInv, DrawTypeOK
<1>14. AgreesInv'
  BY ZenonT(40), <1>3, <1>4, <1>5 DEF AgreesInv, Up, DrawTypeOK
<1>15. OwnInv'
  BY <1>3, <1>4 DEF OwnInv
<1>16. UpstreamKept'
  BY <1>1, <1>3, <1>4 DEF UpstreamKept
<1>17. ShownIsSaved'
  BY <1>1, <1>3, <1>4 DEF ShownIsSaved
<1> QED BY <1>7, <1>8, <1>10, <1>12, <1>13, <1>14, <1>15, <1>16, <1>17

(* A draw page that has dealt replaces itself by a result page.            *)
LEMMA ReplaceKeeps ==
  ASSUME DrawInv, NEW v \in Pages, NEW page \in Page, Mounted(v),
         page.life = pages[v].life, page.kind = pages[v].kind,
         page.kind # "result", page.from = pages[v].from,
         page.kept = pages[v].kept, page.saved = pages[v].saved,
         page.shown # None, state' = page.shown,
         calls' \subseteq calls, readings' = readings, Replace(v, page)
  PROVE  DrawInv'
<1> USE DEF DrawInv
<1> DEFINE new == opened + 1
           fresh == Pushed(v)
           was(w) == IF w = v THEN page ELSE pages[w]
<1>1. /\ opened \in 0..MaxPages /\ opened < MaxPages /\ opened' = new
      /\ pages' = [w \in Pages |-> IF w = new THEN fresh ELSE Covered(was(w))]
  BY DEF Replace, DrawTypeOK
<1>2. new \in Pages /\ opened \in Pages /\ new # v /\ v <= opened
  BY <1>1, BoundsAssumption DEF Mounted, StackInv, Pages
<1>3. /\ fresh \in Page /\ fresh.kind = "result" /\ fresh.life = "new"
      /\ fresh.from = v /\ fresh.kept = None /\ fresh.shown = None
      /\ fresh.saved = None
  BY PushedFacts DEF Pages
<1>4. ASSUME NEW w \in Pages, w # new
      PROVE  /\ was(w) \in Page /\ was(w).life = pages[w].life
             /\ was(w).kind = pages[w].kind /\ was(w).from = pages[w].from
             /\ was(w).kept = pages[w].kept /\ was(w).saved = pages[w].saved
             /\ w # v => was(w).shown = pages[w].shown
             /\ w = v => was(w).shown = page.shown
  BY DEF DrawTypeOK
<1> HIDE DEF was, fresh
<1>5. pages'[new] = fresh /\ \A w \in Pages : w # new => pages'[w] = Covered(was(w))
  BY <1>1, <1>2
<1>6. ASSUME NEW w \in Pages, w # new
      PROVE  /\ pages'[w] \in Page
             /\ pages'[w].kind = pages[w].kind
             /\ pages'[w].from = pages[w].from
             /\ pages'[w].kept = pages[w].kept
             /\ pages'[w].life = IF pages[w].life = "up" THEN "leaving"
                                 ELSE IF pages[w].life = "new" THEN "gone"
                                 ELSE pages[w].life
             /\ pages[w].life # "new" =>
                  /\ pages'[w].saved = pages[w].saved
                  /\ pages'[w].shown = IF w = v THEN page.shown
                                       ELSE pages[w].shown
             /\ pages[w].life = "new" =>
                  pages'[w].saved = None /\ pages'[w].shown = None
  <2>1. pages'[w] = Covered(was(w))
    BY <1>5, <1>6
  <2>2. CASE pages[w].life = "up"
    <3>1. pages'[w] = [was(w) EXCEPT !.life = "leaving"]
      BY <2>1, <2>2, <1>4, <1>6 DEF Covered
    <3> QED BY <3>1, <2>2, <1>4, <1>6 DEF Page, Lives
  <2>3. CASE pages[w].life = "new"
    <3>1. pages'[w] = Unmounted(was(w))
      BY <2>1, <2>3, <1>4, <1>6 DEF Covered
    <3> QED BY <3>1, <2>3, <1>4, <1>6, UnmountedFacts
  <2>4. CASE pages[w].life \notin {"up", "new"}
    <3>1. pages'[w] = was(w)
      BY <2>1, <2>4, <1>4, <1>6 DEF Covered
    <3> QED BY <3>1, <2>4, <1>4, <1>6
  <2> QED BY <2>2, <2>3, <2>4
<1> HIDE DEF new
<1>7. pages[new].life = "none" /\ pages'[new].life = "new"
  BY <1>1, <1>2, <1>3, <1>5 DEF StackInv, new
<1>8. \A w \in Pages : w # new => pages'[w].life \notin {"new", "up"}
  BY <1>6
<1>9. DrawTypeOK'
  <2>1. \A w \in Pages : pages'[w] \in Page
    BY <1>3, <1>5, <1>6
  <2>2. pages' \in [Pages -> Page]
    BY <2>1, <1>1
  <2>3. opened' \in 0..MaxPages /\ state' \in Shuffles \cup {None}
    BY <1>1, BoundsAssumption DEF new, Page
  <2> QED BY <2>2, <2>3, <1>1, <1>8 DEF DrawTypeOK
<1>10. StackInv'
  <2> SUFFICES ASSUME NEW w \in Pages
               PROVE  /\ pages'[w].life = "none" <=> w > opened'
                      /\ pages'[w].kind # "result" => pages'[w].from = 0
                      /\ pages'[w].life = "new" =>
                           /\ pages'[w].kind = "result"
                           /\ pages'[w].shown = None
                           /\ pages'[w].saved = None
    BY DEF StackInv
  <2>1. CASE w = new
    BY <2>1, <1>1, <1>2, <1>3, <1>5 DEF Pages
  <2>2. CASE w # new
    <3>1. w > opened' <=> w > opened
      BY <2>2, <1>1, <1>2 DEF new, Pages
    <3> QED BY <2>2, <3>1, <1>6 DEF StackInv
  <2> QED BY <2>1, <2>2
<1>11. \A w \in Pages : pages[w].life = "leaving" /\ pages[w].kind # "result" => w = v
  <2> SUFFICES ASSUME NEW w \in Pages, pages[w].life = "leaving",
                      pages[w].kind # "result"
               PROVE  w = v
    OBVIOUS
  <2>1. w = pages[opened].from
    BY DEF LeavingInv
  <2>2. CASE pages[v].life = "up"
    <3>1. v = opened
      BY <2>2 DEF DrawTypeOK
    <3>2. pages[v].from = 0
      BY DEF StackInv
    <3> QED BY <2>1, <3>1, <3>2 DEF Pages
  <2>3. CASE pages[v].life = "leaving"
    BY <2>1, <2>3 DEF LeavingInv
  <2> QED BY <2>2, <2>3 DEF Mounted
<1>12. \A w \in Pages : pages[w].life = "up" => w = v \/ pages[w].kind = "result"
  <2> SUFFICES ASSUME NEW w \in Pages, pages[w].life = "up", w # v,
                      pages[w].kind # "result"
               PROVE  FALSE
    OBVIOUS
  <2>1. w = opened
    BY DEF DrawTypeOK
  <2>2. pages[v].life = "leaving"
    BY <2>1 DEF Mounted, DrawTypeOK
  <2>3. v = pages[opened].from
    BY <2>2 DEF LeavingInv
  <2>4. pages[w].from = 0
    BY DEF StackInv
  <2> QED BY <2>1, <2>3, <2>4 DEF Pages
<1>13. LeavingInv'
  <2> SUFFICES ASSUME NEW w \in Pages, pages'[w].life = "leaving"
               PROVE  /\ w # opened'
                      /\ pages'[w].kind # "result" => w = pages'[opened'].from
    BY DEF LeavingInv
  <2>1. w # new
    BY <1>7
  <2>2. pages'[new].from = v
    BY <1>3, <1>5
  <2>3. pages[w].life \in {"up", "leaving"} /\ pages'[w].kind = pages[w].kind
    BY <2>1, <1>6
  <2> QED BY <2>1, <2>2, <2>3, <1>1, <1>11, <1>12
<1>14. \A c \in calls : c[1] \in Pages /\ c[1] # new
  BY <1>7, CallFacts DEF DrawTypeOK, PendingInv
<1>15. PendingInv'
  <2> SUFFICES ASSUME NEW c \in calls
               PROVE  /\ pages'[c[1]].life \notin {"none", "new"}
                      /\ ~(pages'[c[1]].kind = "result" /\ Mounted(c[1])')
    BY DEF PendingInv
  <2>1. pages[c[1]].life \notin {"none", "new"}
    BY DEF PendingInv
  <2>2. pages'[c[1]].life \notin {"none", "new"}
    BY <2>1, <1>6, <1>14
  <2>3. ASSUME pages'[c[1]].kind = "result", Mounted(c[1])'
        PROVE  FALSE
    <3>1. pages[c[1]].kind = "result" /\ Mounted(c[1])
      BY <2>3, <1>6, <1>14 DEF Mounted
    <3>2. Settled
      BY <3>1 DEF PendingInv
    <3>3. pages[v].life = "up" /\ pages[c[1]].life = "up"
      BY <3>1, <3>2, <1>14 DEF Settled, Mounted
    <3>4. v = c[1]
      BY <3>3, <1>14 DEF DrawTypeOK
    <3> QED BY <3>1, <3>4
  <2> QED BY <2>2, <2>3
<1>16. FreshInv'
  <2> SUFFICES ASSUME NEW w \in Pages, pages'[w].life = "new"
               PROVE  /\ pages'[w].from = 0 => Settled'
                      /\ pages'[w].from # 0 =>
                           /\ state' # None
                           /\ pages'[pages'[w].from].shown = state'
                           /\ pages'[pages'[w].from].life = "leaving"
    BY DEF FreshInv
  <2>1. w = new /\ pages'[w].from = v
    BY <1>3, <1>5, <1>8
  <2>2. pages'[v].shown = page.shown /\ pages'[v].life = "leaving"
    BY <1>2, <1>6 DEF Mounted
  <2> QED BY <2>1, <2>2 DEF Pages
<1>17. AgreesInv'
  BY <1>5, <1>3, <1>8 DEF AgreesInv, Up
<1>18. OwnInv'
  BY <1>3, <1>5, <1>6 DEF OwnInv
<1>19. UpstreamKept'
  BY <1>3, <1>5, <1>6 DEF UpstreamKept
<1>20. ShownIsSaved'
  BY <1>3, <1>5, <1>6 DEF ShownIsSaved
<1> QED BY <1>9, <1>10, <1>13, <1>15, <1>16, <1>17, <1>18, <1>19, <1>20

-----------------------------------------------------------------------------
(* What a person does.                                                     *)

(* Nobody is on screen, about to be, or leaving.                           *)
LEMMA AtHomeFacts ==
  ASSUME DrawInv, AtHome, NEW v \in Pages
  PROVE  pages[v].life \in {"none", "gone"}
BY DEF DrawInv, AtHome, Settled, DrawTypeOK, Page, Lives

(* A page opened from home.                                                *)
LEMMA OpenKeeps ==
  ASSUME DrawInv, AtHome, opened < MaxPages, NEW page \in Page,
         \/ page.kind = "result" /\ page.life = "new"
         \/ page.kind \in {"animated", "shuffle"} /\ page.life = "up",
         page.from = 0, page.kept = None, page.shown = None,
         page.saved = None,
         pages' = [pages EXCEPT ![opened + 1] = page], opened' = opened + 1,
         state' = state, calls' = calls, readings' = readings
  PROVE  DrawInv'
<1> USE DEF DrawInv
<1>1. PICK new \in Pages : new = opened + 1
  BY BoundsAssumption DEF DrawTypeOK, Pages
<1>2. /\ pages'[new] = page /\ pages' \in [Pages -> Page]
      /\ \A w \in Pages : w # new => pages'[w] = pages[w]
  BY <1>1 DEF DrawTypeOK
<1>3. pages[new].life = "none"
  BY <1>1, BoundsAssumption DEF StackInv, DrawTypeOK, Pages
<1>4. \A w \in Pages : w # new => pages'[w].life \in {"none", "gone"}
  BY <1>2, AtHomeFacts
<1>5. Settled'
  BY <1>2, <1>4 DEF Settled
<1>6. DrawTypeOK'
  BY <1>1, <1>2, <1>4 DEF DrawTypeOK, Pages
<1>7. StackInv'
  <2> SUFFICES ASSUME NEW w \in Pages
               PROVE  /\ pages'[w].life = "none" <=> w > opened'
                      /\ pages'[w].kind # "result" => pages'[w].from = 0
                      /\ pages'[w].life = "new" =>
                           /\ pages'[w].kind = "result"
                           /\ pages'[w].shown = None
                           /\ pages'[w].saved = None
    BY DEF StackInv
  <2>1. CASE w = new
    BY <2>1, <1>1, <1>2 DEF Pages
  <2>2. CASE w # new
    <3>1. w > opened' <=> w > opened
      BY <2>2, <1>1 DEF Pages, DrawTypeOK
    <3> QED BY <2>2, <3>1, <1>2 DEF StackInv
  <2> QED BY <2>1, <2>2
<1>8. LeavingInv'
  BY <1>2, <1>4 DEF LeavingInv
<1>9. PendingInv'
  <2> SUFFICES ASSUME NEW c \in calls
               PROVE  /\ pages'[c[1]].life \notin {"none", "new"}
                      /\ ~Mounted(c[1])'
    BY DEF PendingInv
  <2>1. c[1] \in Pages
    BY CallFacts DEF DrawTypeOK
  <2>2. c[1] # new
    BY <2>1, <1>3 DEF PendingInv
  <2> QED BY <2>1, <2>2, <1>2, <1>4 DEF PendingInv, Mounted
<1>10. FreshInv'
  BY <1>2, <1>4, <1>5 DEF FreshInv
<1>11. AgreesInv' /\ OwnInv'
  BY <1>2, <1>4 DEF AgreesInv, OwnInv, Up
<1>12. UpstreamKept' /\ ShownIsSaved'
  BY <1>2 DEF UpstreamKept, ShownIsSaved
<1> QED BY <1>6, <1>7, <1>8, <1>9, <1>10, <1>11, <1>12

LEMMA OpenResultKeeps == DrawInv /\ OpenResult => DrawInv'
<1> SUFFICES ASSUME DrawInv, OpenResult PROVE DrawInv'
  OBVIOUS
<1>1. pages' = [pages EXCEPT ![opened + 1] = Pushed(0)]
  BY DEF OpenResult
<1>2. /\ Pushed(0) \in Page /\ Pushed(0).kind = "result"
      /\ Pushed(0).life = "new" /\ Pushed(0).from = 0 /\ Pushed(0).kept = None
      /\ Pushed(0).shown = None /\ Pushed(0).saved = None
  BY PushedFacts, BoundsAssumption
<1> QED BY <1>1, <1>2, OpenKeeps DEF OpenResult

LEMMA OpenDrawPageKeeps ==
  ASSUME NEW kind \in {"animated", "shuffle"}, DrawInv, OpenDrawPage(kind)
  PROVE  DrawInv'
<1>1. PICK asks, faceUp \in BOOLEAN :
        pages' = [pages EXCEPT ![opened + 1] =
                    [Blank EXCEPT !.kind = kind, !.life = "up",
                                  !.asks = asks, !.faceUp = faceUp]]
  BY DEF OpenDrawPage
<1>2. opened < MaxPages
  BY BoundsAssumption DEF OpenDrawPage, DrawInv, DrawTypeOK
<1> DEFINE page == [Blank EXCEPT !.kind = kind, !.life = "up",
                                 !.asks = asks, !.faceUp = faceUp]
<1>3. /\ page.kind = kind /\ page.life = "up" /\ page.from = 0
      /\ page.kept = None /\ page.shown = None /\ page.saved = None
  BY DEF Blank
<1>4. page \in Page
  BY BlankIsPage DEF Page, Blank, Kinds, Lives
<1>5. pages' = [pages EXCEPT ![opened + 1] = page]
  BY <1>1
<1> HIDE DEF page
<1> QED BY <1>2, <1>3, <1>4, <1>5, OpenKeeps DEF OpenDrawPage

LEMMA ChangeLayoutKeeps == DrawInv /\ ChangeLayout => DrawInv'
<1> SUFFICES ASSUME DrawInv, ChangeLayout PROVE DrawInv'
  OBVIOUS
<1>1. /\ state' = None
      /\ pages' = pages /\ opened' = opened /\ calls' = calls
      /\ readings' = readings
  BY DEF ChangeLayout, Clear
<1>2. \A v \in Pages : pages[v].life \in {"none", "gone"}
  BY AtHomeFacts DEF ChangeLayout
<1>3. DrawTypeOK' /\ StackInv' /\ LeavingInv' /\ OwnInv'
  BY <1>1 DEF DrawInv, DrawTypeOK, StackInv, LeavingInv, OwnInv
<1>4. FreshInv' /\ AgreesInv'
  BY <1>1, <1>2 DEF FreshInv, AgreesInv, Up
<1>5. PendingInv' /\ UpstreamKept' /\ ShownIsSaved'
  BY <1>1 DEF DrawInv, PendingInv, UpstreamKept, ShownIsSaved, Mounted, Settled
<1> QED BY <1>3, <1>4, <1>5 DEF DrawInv

LEMMA GoHomeKeeps == DrawInv /\ GoHome => DrawInv'
BY HomeKeeps DEF GoHome

LEMMA GoToDrawResultKeeps ==
  ASSUME DrawInv, NEW v \in Pages, GoToDrawResult(v) PROVE DrawInv'
<1>1. pages[v] \in Page /\ Up(v, "shuffle") /\ Begin(v, pages[v])
  BY DEF GoToDrawResult, DrawInv, DrawTypeOK
<1>2. pages[v].kept # None => readings[<<v, 0>>] = pages[v].kept
  BY DEF DrawInv, UpstreamKept
<1>3. pages[v].saved # None => pages[v].saved[1] = v
  BY DEF DrawInv, OwnInv
<1> QED BY <1>1, <1>2, <1>3, BeginKeeps DEF Up

LEMMA StartDrawKeeps ==
  ASSUME DrawInv, NEW v \in Pages, StartDraw(v) PROVE DrawInv'
<1>1. /\ pages[v] \in Page /\ Up(v, "animated") /\ Begin(v, pages[v])
      /\ pages[v].shown = None
  BY DEF StartDraw, DrawInv, DrawTypeOK
<1>2. pages[v].kept # None => readings[<<v, 0>>] = pages[v].kept
  BY DEF DrawInv, UpstreamKept
<1>3. pages[v].saved # None => pages[v].saved[1] = v
  BY DEF DrawInv, OwnInv
<1> QED BY <1>1, <1>2, <1>3, BeginKeeps DEF Up

LEMMA RedrawKeeps ==
  ASSUME DrawInv, NEW v \in Pages, Redraw(v) PROVE DrawInv'
<1>1. /\ pages[v] \in Page /\ Up(v, "result") /\ Settled
      /\ Begin(v, Redrawn(pages[v])) /\ pages[v].shown # None
  BY DEF Redraw, RedrawOf, DrawInv, DrawTypeOK
<1>2. /\ Redrawn(pages[v]) \in Page
      /\ Redrawn(pages[v]).kind = "result" /\ Redrawn(pages[v]).life = "up"
      /\ Redrawn(pages[v]).from = pages[v].from
      /\ Redrawn(pages[v]).kept = pages[v].kept
      /\ Redrawn(pages[v]).shown = None /\ Redrawn(pages[v]).saved = None
  BY <1>1 DEF Redrawn, Up, Page
<1>3. pages[v].kept # None => readings[<<v, 0>>] = pages[v].kept
  BY DEF DrawInv, UpstreamKept
<1>4. \A c \in calls : c[1] # v
  BY <1>1 DEF DrawInv, PendingInv, Up, Mounted
<1> QED BY <1>1, <1>2, <1>3, <1>4, BeginKeeps DEF Up

LEMMA UpFacts ==
  ASSUME DrawInv, NEW v \in Pages, Up(v, "animated"), pages[v].shown # None
  PROVE  state = pages[v].shown /\ Mounted(v) /\ pages[v] \in Page
BY DEF DrawInv, AgreesInv, Mounted, Up, DrawTypeOK

LEMMA MaybeKeeps ==
  ASSUME DrawInv, NEW v \in Pages, NEW page \in Page,
         Up(v, "animated"), pages[v].shown # None,
         page.kind = pages[v].kind, page.life = pages[v].life,
         page.from = pages[v].from, page.kept = pages[v].kept,
         page.shown = pages[v].shown, page.taps = pages[v].taps,
         page.saved = pages[v].saved, MaybeGoToResult(v, page),
         UNCHANGED <<state, calls, readings>>
  PROVE  DrawInv'
<1>1. state' = page.shown /\ page.shown # None /\ Mounted(v)
  BY UpFacts
<1>2. CASE Replace(v, page)
  BY <1>1, <1>2, ReplaceKeeps DEF Up
<1>3. CASE pages' = [pages EXCEPT ![v] = page] /\ UNCHANGED opened
  BY <1>3, UpdateKeeps
<1> QED BY <1>2, <1>3 DEF MaybeGoToResult

LEMMA RevealKeeps ==
  ASSUME DrawInv, NEW v \in Pages, Reveal(v) PROVE DrawInv'
<1> DEFINE page == [pages[v] EXCEPT !.revealed = TRUE]
<1>1. /\ Up(v, "animated") /\ pages[v].shown # None
      /\ MaybeGoToResult(v, page) /\ UNCHANGED <<state, calls, readings>>
  BY DEF Reveal
<1>2. /\ page \in Page
      /\ page.kind = pages[v].kind /\ page.life = pages[v].life
      /\ page.from = pages[v].from /\ page.kept = pages[v].kept
      /\ page.shown = pages[v].shown /\ page.taps = pages[v].taps
      /\ page.saved = pages[v].saved
  BY ZenonT(40) DEF DrawInv, DrawTypeOK, Page
<1> HIDE DEF page
<1> QED BY <1>1, <1>2, MaybeKeeps

LEMMA AnimationEndsKeeps ==
  ASSUME DrawInv, NEW v \in Pages, AnimationEnds(v) PROVE DrawInv'
<1>1. /\ Up(v, "animated") /\ pages[v].shown # None
      /\ UNCHANGED <<state, calls, readings>>
  BY DEF AnimationEnds
<1>2. CASE MaybeGoToResult(v, [pages[v] EXCEPT !.revealed = TRUE,
                                              !.complete = TRUE])
  <2> DEFINE page == [pages[v] EXCEPT !.revealed = TRUE, !.complete = TRUE]
  <2>1. /\ page \in Page
        /\ page.kind = pages[v].kind /\ page.life = pages[v].life
        /\ page.from = pages[v].from /\ page.kept = pages[v].kept
        /\ page.shown = pages[v].shown /\ page.taps = pages[v].taps
        /\ page.saved = pages[v].saved
    BY ZenonT(40) DEF DrawInv, DrawTypeOK, Page
  <2>2. MaybeGoToResult(v, page)
    BY <1>2
  <2> HIDE DEF page
  <2> QED BY <1>1, <2>1, <2>2, MaybeKeeps
<1>3. CASE pages' = [pages EXCEPT ![v].complete = TRUE] /\ UNCHANGED opened
  <2> DEFINE page == [pages[v] EXCEPT !.complete = TRUE]
  <2>1. /\ page \in Page
        /\ page.kind = pages[v].kind /\ page.life = pages[v].life
        /\ page.from = pages[v].from /\ page.kept = pages[v].kept
        /\ page.shown = pages[v].shown /\ page.taps = pages[v].taps
        /\ page.saved = pages[v].saved
    BY ZenonT(40) DEF DrawInv, DrawTypeOK, Page
  <2>2. pages' = [pages EXCEPT ![v] = page]
    BY <1>3
  <2> HIDE DEF page
  <2> QED BY <1>1, <1>3, <2>1, <2>2, UpdateKeeps
<1> QED BY <1>2, <1>3 DEF AnimationEnds

-----------------------------------------------------------------------------
(* What frames, transitions and the database do.                           *)

LEMMA FailKeeps ==
  ASSUME DrawInv, NEW c \in Calls, Fail(c) PROVE DrawInv'
<1>1. /\ c[1] \in Pages /\ calls' \subseteq calls
      /\ UNCHANGED <<state, opened, readings>>
  BY CallFacts DEF Fail
<1>2. CASE pages[c[1]].kind = "shuffle"
  BY <1>1, <1>2, HomeKeeps DEF Fail, Caught
<1>3. CASE pages[c[1]].kind # "shuffle"
  <2>1. PICK v \in Pages : v = c[1]
    BY <1>1
  <2> DEFINE page == [pages[v] EXCEPT !.loading = FALSE]
  <2>2. /\ page \in Page
        /\ page.kind = pages[v].kind /\ page.life = pages[v].life
        /\ page.from = pages[v].from /\ page.kept = pages[v].kept
        /\ page.shown = pages[v].shown /\ page.taps = pages[v].taps
        /\ page.saved = pages[v].saved
    BY ZenonT(40) DEF DrawInv, DrawTypeOK, Page
  <2>3. pages' = [pages EXCEPT ![v].loading = FALSE]
    BY <1>3, <2>1 DEF Fail, Caught
  <2>4. pages' = [pages EXCEPT ![v] = page]
    BY <2>3
  <2> HIDE DEF page
  <2> QED BY <1>1, <2>2, <2>4, UpdateKeeps
<1> QED BY <1>2, <1>3

LEMMA DropKeeps ==
  ASSUME DrawInv, NEW c \in Calls, Drop(c) PROVE DrawInv'
<1>1. /\ pages' = pages /\ calls' \subseteq calls
      /\ UNCHANGED <<state, opened, readings>>
  BY DEF Drop
<1>2. c[1] \in Pages
  BY CallFacts
<1>3. /\ pages[c[1]] \in Page
      /\ pages' = [pages EXCEPT ![c[1]] = pages[c[1]]]
  BY <1>1, <1>2 DEF DrawInv, DrawTypeOK
<1> QED BY <1>1, <1>2, <1>3, UpdateKeeps

LEMMA DisposeKeeps ==
  ASSUME DrawInv, NEW v \in Pages, Dispose(v) PROVE DrawInv'
<1> USE DEF DrawInv
<1>1. /\ pages[v].life = "leaving" /\ \A w \in Pages : pages[w].life # "new"
      /\ pages' = [pages EXCEPT ![v] = Unmounted(pages[v])]
      /\ UNCHANGED <<state, opened, calls, readings>>
  BY DEF Dispose
<1>2. /\ Unmounted(pages[v]) \in Page
      /\ pages'[v] = Unmounted(pages[v]) /\ pages' \in [Pages -> Page]
      /\ \A w \in Pages : w # v => pages'[w] = pages[w]
  BY <1>1, UnmountedFacts DEF DrawTypeOK
<1>3. /\ pages'[v].life = "gone" /\ pages'[v].kind = pages[v].kind
      /\ pages'[v].from = pages[v].from /\ pages'[v].kept = pages[v].kept
      /\ pages'[v].shown = None /\ pages'[v].saved = None
  BY <1>2, UnmountedFacts DEF DrawTypeOK
<1>4. \A w \in Pages : pages'[w].from = pages[w].from
                     /\ pages'[w].kept = pages[w].kept
                     /\ pages'[w].life # "new"
  BY <1>1, <1>2, <1>3
<1>5. DrawTypeOK'
  BY <1>1, <1>2, <1>3 DEF DrawTypeOK
<1>6. StackInv' /\ FreshInv'
  BY <1>1, <1>2, <1>3, <1>4 DEF StackInv, FreshInv
<1>7. opened \in Pages
  BY <1>1, BoundsAssumption DEF StackInv, DrawTypeOK, Pages
<1>8. LeavingInv'
  BY <1>1, <1>2, <1>3, <1>4, <1>7 DEF LeavingInv
<1>9. Settled => Settled'
  BY <1>1 DEF Settled
<1>10. PendingInv'
  <2> SUFFICES ASSUME NEW c \in calls
               PROVE  /\ pages'[c[1]].life \notin {"none", "new"}
                      /\ pages'[c[1]].kind = "result" /\ Mounted(c[1])' =>
                           /\ Settled'
                           /\ pages'[c[1]].saved = None
                           /\ pages'[c[1]].shown = None
                           /\ c[2] = pages'[c[1]].taps
    BY <1>1 DEF PendingInv
  <2>1. c[1] \in Pages
    BY CallFacts DEF DrawTypeOK
  <2>2. CASE c[1] = v
    BY <2>2, <1>3 DEF Mounted
  <2>3. CASE c[1] # v
    BY <2>1, <2>3, <1>2, <1>9 DEF PendingInv, Mounted
  <2> QED BY <2>2, <2>3
<1>11. AgreesInv' /\ OwnInv' /\ UpstreamKept' /\ ShownIsSaved'
  BY <1>1, <1>2, <1>3 DEF AgreesInv, OwnInv, UpstreamKept, ShownIsSaved, Up
<1> QED BY <1>5, <1>6, <1>8, <1>10, <1>11

(* The result page shows shuffle s and saves it under id, a number of its  *)
(* own that it has not used for another page's reading.                    *)
LEMMA ShowKeeps ==
  ASSUME DrawInv, NEW v \in Pages, NEW page \in Page, NEW s \in Shuffles,
         NEW id \in ReadingIds, id[1] = v, id # None, s # None,
         pages[v].life \in {"new", "up"}, page.life = "up",
         page.kind = "result", pages[v].kind = "result",
         page.from = pages[v].from, page.saved = None,
         id # <<v, 0>> => page.kept = pages[v].kept,
         id = <<v, 0>> => page.kept = None \/ page.kept = s,
         pages' = [pages EXCEPT ![v] = Showing(page, s, id)],
         AutoSave(page, s, id),
         state' \in Shuffles \cup {None}, opened' = opened,
         calls' \subseteq calls, \A c \in calls' : c[1] # v
  PROVE  DrawInv'
<1> USE DEF DrawInv
<1>1. /\ Showing(page, s, id) \in Page
      /\ Showing(page, s, id).kind = "result"
      /\ Showing(page, s, id).life = "up"
      /\ Showing(page, s, id).from = page.from
      /\ Showing(page, s, id).kept = page.kept
      /\ Showing(page, s, id).shown = s
      /\ Showing(page, s, id).saved = id
  BY ZenonT(40) DEF Showing, Page
<1>2. /\ pages'[v] = Showing(page, s, id) /\ pages' \in [Pages -> Page]
      /\ \A w \in Pages : w # v => pages'[w] = pages[w]
  BY <1>1 DEF DrawTypeOK
<1>3. /\ readings'[id] = s /\ readings' \in [ReadingIds -> Shuffles \cup {None}]
      /\ \A r \in ReadingIds : r # id => readings'[r] = readings[r]
  BY DEF AutoSave, DrawTypeOK
<1>4. v = opened
  BY DEF DrawTypeOK
<1>5. DrawTypeOK'
  BY <1>1, <1>2, <1>3, <1>4 DEF DrawTypeOK
<1>6. StackInv'
  BY <1>1, <1>2 DEF StackInv
<1>7. LeavingInv'
  BY <1>1, <1>2, <1>4 DEF LeavingInv
<1>8. Settled => Settled'
  BY <1>1, <1>2 DEF Settled
<1>9. PendingInv'
  <2>1. \A c \in calls' : c \in calls /\ c[1] \in Pages /\ c[1] # v
    BY CallFacts DEF DrawTypeOK
  <2> QED BY <2>1, <1>2, <1>8 DEF PendingInv, Mounted
<1>10. FreshInv' /\ AgreesInv'
  BY <1>1, <1>2, <1>4 DEF FreshInv, AgreesInv, Up, DrawTypeOK
<1>11. OwnInv'
  BY <1>1, <1>2 DEF OwnInv
<1>12. UpstreamKept'
  <2> SUFFICES ASSUME NEW w \in Pages, pages'[w].kept # None
               PROVE  readings'[<<w, 0>>] = pages'[w].kept
    BY DEF UpstreamKept
  <2>1. <<w, 0>> \in ReadingIds
    BY FirstIdFacts
  <2>2. CASE w # v
    BY <2>1, <2>2, <1>2, <1>3 DEF UpstreamKept
  <2>3. CASE w = v /\ id = <<v, 0>>
    BY <2>3, <1>1, <1>2, <1>3
  <2>4. CASE w = v /\ id # <<v, 0>>
    BY <2>1, <2>4, <1>1, <1>2, <1>3 DEF UpstreamKept
  <2> QED BY <2>2, <2>3, <2>4
<1>13. ShownIsSaved'
  <2> SUFFICES ASSUME NEW w \in Pages, pages'[w].kind = "result",
                      pages'[w].shown # None
               PROVE  /\ pages'[w].saved # None
                      /\ readings'[pages'[w].saved] = pages'[w].shown
    BY DEF ShownIsSaved
  <2>1. CASE w = v
    BY <2>1, <1>1, <1>2, <1>3
  <2>2. CASE w # v
    <3>1. pages'[w] = pages[w]
      BY <2>2, <1>2
    <3>2. pages[w].saved # None /\ readings[pages[w].saved] = pages[w].shown
      BY <3>1 DEF ShownIsSaved
    <3>3. pages[w].saved \in ReadingIds /\ pages[w].saved # id
      BY <2>2, <3>2 DEF OwnInv, DrawTypeOK, Page
    <3> QED BY <3>1, <3>2, <3>3, <1>3
  <2> QED BY <2>1, <2>2
<1> QED BY <1>5, <1>6, <1>7, <1>9, <1>10, <1>11, <1>12, <1>13

LEMMA MountKeeps ==
  ASSUME DrawInv, NEW v \in Pages, Mount(v) PROVE DrawInv'
<1> USE DEF DrawInv
<1> DEFINE kept == IF pages[v].from = 0 THEN None
                   ELSE pages[pages[v].from].shown
           page == [pages[v] EXCEPT !.life = "up", !.kept = kept]
<1>1. /\ pages[v].life = "new" /\ pages[v].kind = "result"
      /\ pages[v].shown = None /\ pages[v].saved = None
      /\ pages[v] \in Page
  BY DEF Mount, StackInv, DrawTypeOK
<1>2. kept \in Shuffles \cup {None}
  BY <1>1 DEF DrawTypeOK, Page, Pages
<1>3. /\ page \in Page /\ page.life = "up" /\ page.kind = "result"
      /\ page.from = pages[v].from /\ page.kept = kept
      /\ page.shown = None /\ page.saved = None
  BY <1>1, <1>2 DEF Page, Lives
<1>4. /\ pages[v].from = 0 => Settled /\ kept = None
      /\ pages[v].from # 0 => state # None /\ kept = state
  BY <1>1 DEF FreshInv
<1>5. \A c \in calls : c[1] # v
  BY <1>1 DEF PendingInv
<1>6. \/ /\ Found(v)
         /\ pages' = [pages EXCEPT ![v] = Showing(page, state, <<v, 0>>)]
         /\ AutoSave(page, state, <<v, 0>>)
         /\ UNCHANGED <<state, opened, calls>>
      \/ ~Found(v) /\ Begin(v, page)
  BY DEF Mount
<1> HIDE DEF kept, page
<1>7. CASE Found(v)
  <2>1. state \in Shuffles /\ state # None
    BY <1>7 DEF Found, DrawTypeOK
  <2>2. <<v, 0>> \in ReadingIds /\ <<v, 0>> # None /\ <<v, 0>>[1] = v
    BY FirstIdFacts
  <2>3. kept = None \/ kept = state
    BY <1>4
  <2> QED BY <2>1, <2>2, <2>3, <1>1, <1>3, <1>5, <1>6, <1>7, ShowKeeps
          DEF DrawTypeOK
<1>8. CASE ~Found(v)
  <2>1. pages[v].from = 0 /\ Settled /\ kept = None
    BY <1>4, <1>8 DEF Found
  <2> QED BY <2>1, <1>1, <1>3, <1>5, <1>6, <1>8, BeginKeeps
<1> QED BY <1>7, <1>8

LEMMA DealKeeps ==
  ASSUME DrawInv, NEW c \in Calls, Deal(c) PROVE DrawInv'
<1> USE DEF DrawInv
<1>1. PICK v \in Pages : v = c[1]
  BY CallFacts
<1> DEFINE page == [pages[v] EXCEPT !.shown = c]
<1>2. /\ c \in calls /\ Mounted(v) /\ calls' = calls \ {c} /\ state' = c
      /\ \/ /\ page.kind = "animated"
            /\ pages' = [pages EXCEPT ![v] = page]
            /\ UNCHANGED <<opened, readings>>
         \/ /\ page.kind = "shuffle"
            /\ Replace(v, page)
            /\ UNCHANGED readings
         \/ /\ page.kind = "result"
            /\ pages' = [pages EXCEPT ![v] = Showing(page, c, c)]
            /\ AutoSave(page, c, c)
            /\ UNCHANGED opened
  BY <1>1 DEF Deal, RefAlive, SetResult
<1>3. /\ c \in Shuffles /\ c \in ReadingIds /\ c # None /\ c # <<v, 0>>
      /\ c[1] = v
  BY <1>1, CallFacts
<1>4. /\ page \in Page /\ page.shown = c
      /\ page.kind = pages[v].kind /\ page.life = pages[v].life
      /\ page.from = pages[v].from /\ page.kept = pages[v].kept
      /\ page.taps = pages[v].taps /\ page.saved = pages[v].saved
  BY <1>3 DEF DrawTypeOK, Page
<1> HIDE DEF page
<1>5. CASE page.kind = "shuffle"
  BY <1>2, <1>3, <1>4, <1>5, ReplaceKeeps
<1>6. CASE page.kind = "result"
  <2>1. /\ Settled /\ pages[v].saved = None /\ c[2] = pages[v].taps
    BY ZenonT(40), <1>1, <1>2, <1>4, <1>6 DEF PendingInv
  <2>2. pages[v].life = "up"
    BY <1>2, <2>1 DEF Settled, Mounted
  <2>3. \A d \in calls' : d[1] # v
    <3> SUFFICES ASSUME NEW d \in calls', d[1] = v
                 PROVE  FALSE
      OBVIOUS
    <3>1. d \in calls /\ d # c
      BY <1>2
    <3>2. d[2] = pages[v].taps
      BY <3>1, <1>2, <1>4, <1>6 DEF PendingInv
    <3>3. d = <<d[1], d[2]>> /\ c = <<c[1], c[2]>>
      BY <3>1, CallFacts DEF DrawTypeOK
    <3> QED BY <3>1, <3>2, <3>3, <2>1, <1>3
  <2>4. /\ pages' = [pages EXCEPT ![v] = Showing(page, c, c)]
        /\ AutoSave(page, c, c)
        /\ opened' = opened /\ state' \in Shuffles \cup {None}
        /\ calls' \subseteq calls
    BY <1>2, <1>3, <1>6
  <2>5. /\ pages[v].life = "up" /\ page.life = "up"
        /\ page.kind = "result" /\ pages[v].kind = "result"
        /\ page.from = pages[v].from /\ page.saved = None
        /\ page.kept = pages[v].kept
    BY <1>4, <1>6, <2>1, <2>2
  <2> QED BY <1>3, <1>4, <2>3, <2>4, <2>5, ShowKeeps
<1>7. CASE page.kind = "animated"
  <2>1. /\ pages' = [pages EXCEPT ![v] = page]
        /\ UNCHANGED <<opened, readings>>
    BY <1>2, <1>7
  <2>2. /\ pages'[v] = page /\ pages' \in [Pages -> Page]
        /\ \A w \in Pages : w # v => pages'[w] = pages[w]
    BY <1>4, <2>1 DEF DrawTypeOK
  <2>3. \A w \in Pages : /\ pages'[w].kind = pages[w].kind
                         /\ pages'[w].life = pages[w].life
                         /\ pages'[w].from = pages[w].from
                         /\ pages'[w].kept = pages[w].kept
                         /\ pages'[w].taps = pages[w].taps
                         /\ pages'[w].saved = pages[w].saved
                         /\ w # v => pages'[w].shown = pages[w].shown
    BY <1>4, <2>2
  <2>4. pages'[v].shown = c
    BY <1>4, <2>2
  <2>5. /\ pages[v].life = "up" => v = opened
        /\ pages[v].life = "leaving" => v = pages[opened].from
    BY <1>4, <1>7 DEF DrawTypeOK, LeavingInv
  <2>6. pages[v].from = 0
    BY <1>4, <1>7 DEF StackInv
  <2>7. DrawTypeOK'
    BY <1>2, <1>3, <2>1, <2>2, <2>3 DEF DrawTypeOK
  <2>8. StackInv'
    BY <1>2, <1>4, <1>7, <2>1, <2>3 DEF StackInv, Mounted
  <2>9. opened \in Pages
    BY <1>2, BoundsAssumption DEF StackInv, Mounted, DrawTypeOK, Pages
  <2>10. LeavingInv'
    BY <2>1, <2>3, <2>9 DEF LeavingInv
  <2>11. PendingInv'
    <3>1. \A d \in calls' : d \in calls /\ d[1] \in Pages
      BY <1>2, CallFacts DEF DrawTypeOK
    <3> QED BY ZenonT(40), <3>1, <1>4, <1>7, <2>3 DEF PendingInv, Mounted, Settled
  <2>12. FreshInv'
    <3> SUFFICES ASSUME NEW w \in Pages, pages'[w].life = "new"
                 PROVE  /\ pages'[w].from = 0 => Settled'
                        /\ pages'[w].from # 0 =>
                             /\ state' # None
                             /\ pages'[pages'[w].from].shown = state'
                             /\ pages'[pages'[w].from].life = "leaving"
      BY DEF FreshInv
    <3>1. pages[w].life = "new" /\ pages'[w].from = pages[w].from
      BY <2>3
    <3>2. w = opened
      BY <3>1 DEF DrawTypeOK
    <3>3. pages[v].life = "leaving"
      BY <3>1, <3>2, <1>2, <2>5 DEF Mounted
    <3>4. v = pages[w].from /\ pages[w].from # 0
      BY <3>2, <3>3, <2>5 DEF Pages
    <3> QED BY <3>1, <3>3, <3>4, <1>2, <1>3, <2>3, <2>4
  <2>13. AgreesInv'
    <3> SUFFICES ASSUME NEW w \in Pages, Up(w, "animated")',
                        pages'[w].shown # None
                 PROVE  state' = pages'[w].shown
      BY DEF AgreesInv
    <3>1. CASE w = v
      BY <3>1, <1>2, <2>4
    <3>2. CASE w # v
      <4>1. pages[w].kind = "animated" /\ pages[w].life = "up"
        BY <2>3 DEF Up
      <4>2. w = opened /\ pages[w].from = 0
        BY <4>1 DEF DrawTypeOK, StackInv
      <4>3. v = pages[opened].from
        BY <3>2, <4>2, <1>2, <2>5 DEF Mounted
      <4> QED BY <4>2, <4>3 DEF Pages
    <3> QED BY <3>1, <3>2
  <2>14. OwnInv' /\ UpstreamKept' /\ ShownIsSaved'
    BY <1>4, <1>7, <2>1, <2>3 DEF OwnInv, UpstreamKept, ShownIsSaved
  <2> QED BY <2>7, <2>8, <2>10, <2>11, <2>12, <2>13, <2>14
<1> QED BY <1>2, <1>5, <1>6, <1>7

-----------------------------------------------------------------------------
LEMMA StutterKeeps == DrawInv /\ UNCHANGED vars => DrawInv'
BY DEF vars, DrawInv, DrawTypeOK, StackInv, LeavingInv, PendingInv, FreshInv,
       AgreesInv, OwnInv, UpstreamKept, ShownIsSaved, Mounted, Settled, Up

LEMMA NextKeeps == DrawInv /\ [Next]_vars => DrawInv'
<1> SUFFICES ASSUME DrawInv, [Next]_vars PROVE DrawInv'
  OBVIOUS
<1>1. CASE OpenResult
  BY <1>1, OpenResultKeeps
<1>2. CASE OpenAnimated \/ OpenShuffle
  BY <1>2, OpenDrawPageKeeps DEF OpenAnimated, OpenShuffle
<1>3. CASE ChangeLayout
  BY <1>3, ChangeLayoutKeeps
<1>4. CASE GoHome
  BY <1>4, GoHomeKeeps
<1>5. ASSUME NEW v \in Pages, Reveal(v) \/ GoToDrawResult(v) \/ Redraw(v)
      PROVE  DrawInv'
  BY <1>5, RevealKeeps, GoToDrawResultKeeps, RedrawKeeps
<1>6. ASSUME NEW v \in Pages,
             Mount(v) \/ StartDraw(v) \/ AnimationEnds(v) \/ Dispose(v)
      PROVE  DrawInv'
  BY <1>6, MountKeeps, StartDrawKeeps, AnimationEndsKeeps, DisposeKeeps
<1>7. ASSUME NEW c \in Calls, Answer(c)
      PROVE  DrawInv'
  BY <1>7, DealKeeps, FailKeeps, DropKeeps DEF Answer
<1>8. CASE UNCHANGED vars
  BY <1>8, StutterKeeps
<1> QED BY <1>1, <1>2, <1>3, <1>4, <1>5, <1>6, <1>7, <1>8 DEF Next, Person

(* The inductive invariant of the draws: no page of the past acts again,   *)
(* and each page's answer is what its own draw left (draw_result_page.dart *)
(* and animated_draw_page.dart, _executeDraw).                             *)
THEOREM DrawInvariant == Spec => []DrawInv
<1> QED BY InitEstablishes, NextKeeps, PTL DEF Spec

(* Every reachable state has the shape the code gives it, and only the     *)
(* page pushed last is on screen (app_router.dart:122-162).                *)
THEOREM DrawTypeCorrect == Spec => []DrawTypeOK
<1>1. DrawInv => DrawTypeOK
  BY DEF DrawInv
<1> QED BY <1>1, DrawInvariant, PTL

(* A result page that replaced a draw page saves the very shuffle that     *)
(* page was showing, for any number of draws and taps                      *)
(* (draw_result_page.dart:67-80).                                          *)
THEOREM UpstreamKeptAlways == Spec => []UpstreamKept
<1>1. DrawInv => UpstreamKept
  BY DEF DrawInv
<1> QED BY <1>1, DrawInvariant, PTL

(* The cards on a result page are those of the reading its question goes   *)
(* to (draw_result_page.dart:119-146).                                     *)
THEOREM ShownIsSavedAlways == Spec => []ShownIsSaved
<1>1. DrawInv => ShownIsSaved
  BY DEF DrawInv
<1> QED BY <1>1, DrawInvariant, PTL

LEMMA LateStep ==
  [Next]_vars => (state' # state /\ state' # None => Mounted(state'[1]))
<1> SUFFICES ASSUME [Next]_vars, state' # state, state' # None
             PROVE  Mounted(state'[1])
  OBVIOUS
<1>1. ASSUME NEW c \in Calls, Answer(c) PROVE Mounted(state'[1])
  <2>1. CASE Deal(c)
    BY <2>1 DEF Deal, RefAlive, SetResult
  <2>2. CASE Fail(c) \/ Drop(c)
    BY <2>2 DEF Fail, Drop
  <2> QED BY <1>1, <2>1, <2>2 DEF Answer
<1>2. CASE Person
  <2>1. CASE OpenResult \/ OpenAnimated \/ OpenShuffle \/ ChangeLayout \/ GoHome
    BY <2>1 DEF OpenResult, OpenAnimated, OpenShuffle, OpenDrawPage,
                ChangeLayout, Clear, GoHome
  <2>2. ASSUME NEW v \in Pages, Reveal(v) \/ GoToDrawResult(v) \/ Redraw(v)
        PROVE  FALSE
    BY <2>2 DEF Reveal, GoToDrawResult, Redraw, RedrawOf, Begin, Clear
  <2> QED BY <1>2, <2>1, <2>2 DEF Person
<1>3. ASSUME NEW v \in Pages,
             Mount(v) \/ StartDraw(v) \/ AnimationEnds(v) \/ Dispose(v)
      PROVE  FALSE
  BY <1>3 DEF Mount, StartDraw, AnimationEnds, Dispose, Begin, Clear
<1>4. CASE UNCHANGED vars
  BY <1>4 DEF vars
<1> QED BY <1>1, <1>2, <1>3, <1>4 DEF Next

(* A draw whose page was left puts nothing into the shared state.          *)
THEOREM LateDrawIsSilentAlways == Spec => LateDrawIsSilent
BY LateStep, PTL DEF Spec, LateDrawIsSilent

-----------------------------------------------------------------------------
(* The pages that load: result pages still mounted, each with its first    *)
(* frame to come or its last draw pending.                                 *)
LoadingInv ==
  \A v \in Pages :
    pages[v].loading =>
      /\ pages[v].kind = "result"
      /\ pages[v].life \notin {"none", "gone"}
      /\ pages[v].life = "new" \/ <<v, pages[v].taps>> \in calls

(* What the pages that are not built or left do not do.                    *)
LEMMA BlankLoads ==
  /\ ~Blank.loading
  /\ \A v : Pushed(v).kind = "result" /\ Pushed(v).life = "new"
  /\ \A page : ~Unmounted(page).loading
BY DEF Blank, Pushed, Unmounted

(* A step after which every page loads no longer, or loads as before.      *)
LEMMA LoadingKept ==
  ASSUME LoadingInv,
         \A w \in Pages :
           \/ ~pages'[w].loading
           \/ /\ pages[w].loading
              /\ pages'[w].kind = pages[w].kind
              /\ pages'[w].taps = pages[w].taps
              /\ \/ pages'[w].life = pages[w].life
                 \/ pages[w].life = "up" /\ pages'[w].life = "leaving"
              /\ <<w, pages[w].taps>> \in calls => <<w, pages[w].taps>> \in calls'
  PROVE  LoadingInv'
BY DEF LoadingInv

(* A draw begun is awaited.                                                *)
LEMMA LoadingBegun ==
  ASSUME DrawTypeOK, LoadingInv, NEW v \in Pages, NEW page, Begin(v, page),
         page.kind = "result" \/ ~page.loading,
         page.life = "up", page \in Page
  PROVE  LoadingInv'
<1>1. /\ pages' = [pages EXCEPT ![v] = [page EXCEPT !.taps = @ + 1]]
      /\ calls' = calls \cup {<<v, page.taps + 1>>}
  BY DEF Begin
<1>2. /\ pages'[v].kind = page.kind /\ pages'[v].life = "up"
      /\ pages'[v].taps = page.taps + 1
      /\ pages'[v].loading = page.loading
  BY <1>1 DEF DrawTypeOK, Page
<1>3. \A w \in Pages \ {v} : pages'[w] = pages[w]
  BY <1>1 DEF DrawTypeOK
<1> QED BY <1>1, <1>2, <1>3 DEF LoadingInv

LEMMA LoadingHome == DrawTypeOK /\ LoadingInv /\ pages' = WentHome => LoadingInv'
<1> SUFFICES ASSUME DrawTypeOK, LoadingInv, pages' = WentHome PROVE LoadingInv'
  OBVIOUS
<1>1. \A w \in Pages : pages'[w] = IF pages[w].life = "none" THEN pages[w]
                                   ELSE Unmounted(pages[w])
  BY DEF WentHome
<1>2. \A w \in Pages : ~pages'[w].loading
  BY <1>1, BlankLoads DEF LoadingInv
<1> QED BY <1>2 DEF LoadingInv

(* The page that is replaced is a draw page; a result page below it waits  *)
(* on.                                                                     *)
LEMMA LoadingReplaced ==
  ASSUME DrawTypeOK, LoadingInv, NEW v \in Pages, NEW page, Replace(v, page),
         ~page.loading,
         \A w \in Pages \ {v} : <<w, pages[w].taps>> \in calls => <<w, pages[w].taps>> \in calls'
  PROVE  LoadingInv'
<1> DEFINE was(w) == IF w = v THEN page ELSE pages[w]
<1>1. \A w \in Pages : pages'[w] = IF w = opened + 1 THEN Pushed(v) ELSE Covered(was(w))
  BY DEF Replace
<1> SUFFICES ASSUME NEW w \in Pages, pages'[w].loading
             PROVE  /\ pages'[w].kind = "result"
                    /\ pages'[w].life \notin {"none", "gone"}
                    /\ \/ pages'[w].life = "new"
                       \/ <<w, pages'[w].taps>> \in calls'
  BY DEF LoadingInv
<1>2. CASE w = opened + 1
  BY <1>1, <1>2, BlankLoads
<1>3. CASE w # opened + 1 /\ w = v
  <2>1. pages'[w] = Covered(page)
    BY <1>1, <1>3
  <2>2. ~Covered(page).loading
    <3>1. CASE page.life = "up"
      BY <3>1 DEF Covered
    <3>2. CASE page.life = "new"
      BY <3>2, BlankLoads DEF Covered
    <3>3. CASE page.life \notin {"up", "new"}
      BY <3>3 DEF Covered
    <3> QED BY <3>1, <3>2, <3>3
  <2> QED BY <2>1, <2>2
<1>4. CASE w # opened + 1 /\ w # v
  <2>1. pages'[w] = Covered(pages[w])
    BY <1>1, <1>4
  <2>2. pages[w].life # "new"
    BY <2>1, BlankLoads DEF Covered
  <2>3. /\ pages[w].loading /\ pages'[w].kind = pages[w].kind
        /\ pages'[w].taps = pages[w].taps
        /\ pages'[w].life = IF pages[w].life = "up" THEN "leaving" ELSE pages[w].life
    <3>1. CASE pages[w].life = "up"
      <4>1. pages[w] \in Page /\ pages'[w] = [pages[w] EXCEPT !.life = "leaving"]
        BY <2>1, <3>1 DEF Covered, DrawTypeOK
      <4>2. /\ pages'[w].kind = pages[w].kind /\ pages'[w].taps = pages[w].taps
            /\ pages'[w].life = "leaving"
        BY <4>1 DEF Page
      <4>3. pages[w].loading
        BY <4>1 DEF Page
      <4> QED BY <3>1, <4>2, <4>3
    <3>2. CASE pages[w].life # "up"
      <4>1. pages'[w] = pages[w]
        BY <2>1, <2>2, <3>2 DEF Covered
      <4> QED BY <3>2, <4>1
    <3> QED BY <3>1, <3>2
  <2> QED BY <1>4, <2>2, <2>3 DEF LoadingInv
<1> QED BY <1>2, <1>3, <1>4

LEMMA LoadingDeals ==
  ASSUME DrawInv, LoadingInv, NEW c \in Calls, Deal(c)
  PROVE  LoadingInv'
<1> DEFINE v == c[1]
           page == [pages[v] EXCEPT !.shown = c]
<1>1. v \in Pages /\ c = <<v, c[2]>>
  BY CallFacts
<1>2. /\ page.kind = pages[v].kind /\ page.loading = pages[v].loading
      /\ page.life = pages[v].life /\ page.taps = pages[v].taps
  BY <1>1 DEF DrawInv, DrawTypeOK, Page
<1>3. calls' = calls \ {c}
  BY DEF Deal
<1>4. \A w \in Pages \ {v} : <<w, pages[w].taps>> \in calls => <<w, pages[w].taps>> \in calls'
  BY <1>1, <1>3
<1>5. CASE page.kind = "animated" /\ pages' = [pages EXCEPT ![v] = page]
  <2>1. ~pages[v].loading
    BY <1>1, <1>2, <1>5 DEF LoadingInv
  <2>2. ~pages'[v].loading /\ \A w \in Pages \ {v} : pages'[w] = pages[w]
    BY <1>1, <1>2, <1>5, <2>1 DEF DrawInv, DrawTypeOK
  <2> QED BY <1>4, <2>2, LoadingKept
<1>6. CASE page.kind = "shuffle" /\ Replace(v, page)
  <2>1. ~page.loading
    BY <1>1, <1>2, <1>6 DEF LoadingInv
  <2> QED BY <1>1, <1>4, <1>6, <2>1, LoadingReplaced DEF DrawInv
<1>7. CASE page.kind = "result" /\ pages' = [pages EXCEPT ![v] = Showing(page, c, c)]
  <2>1. ~Showing(page, c, c).loading
    BY <1>1 DEF Showing, DrawInv, DrawTypeOK, Page
  <2>2. ~pages'[v].loading /\ \A w \in Pages \ {v} : pages'[w] = pages[w]
    BY <1>1, <1>7, <2>1 DEF DrawInv, DrawTypeOK
  <2> QED BY <1>4, <2>2, LoadingKept
<1> QED BY <1>5, <1>6, <1>7 DEF Deal

LEMMA LoadingEnds ==
  ASSUME DrawInv, LoadingInv, NEW c \in Calls, Fail(c) \/ Drop(c)
  PROVE  LoadingInv'
<1>1. c[1] \in Pages /\ c = <<c[1], c[2]>> /\ calls' = calls \ {c} /\ c \in calls
  BY CallFacts DEF Fail, Drop
<1>2. \A w \in Pages \ {c[1]} : <<w, pages[w].taps>> \in calls => <<w, pages[w].taps>> \in calls'
  BY <1>1
<1>3. CASE Fail(c)
  <2>1. CASE pages[c[1]].kind = "shuffle"
    BY <1>3, <2>1, LoadingHome DEF Fail, Caught, DrawInv
  <2>2. CASE pages[c[1]].kind # "shuffle"
    <3>1. pages' = [pages EXCEPT ![c[1]].loading = FALSE]
      BY <1>3, <2>2 DEF Fail, Caught
    <3>2. /\ ~pages'[c[1]].loading
          /\ \A w \in Pages \ {c[1]} : pages'[w] = pages[w]
      BY <1>1, <3>1 DEF DrawInv, DrawTypeOK, Page
    <3> QED BY <1>2, <3>2, LoadingKept
  <2> QED BY <2>1, <2>2
<1>4. CASE Drop(c)
  <2>1. pages' = pages /\ ~Mounted(c[1])
    BY <1>4 DEF Drop, RefAlive
  <2>2. pages[c[1]].life \notin {"up", "leaving", "new", "none"}
    BY <1>1, <2>1 DEF Mounted, DrawInv, PendingInv
  <2>3. ~pages[c[1]].loading
    BY <1>1, <2>2 DEF LoadingInv, DrawInv, DrawTypeOK, Page, Lives
  <2> QED BY <1>2, <2>1, <2>3, LoadingKept
<1> QED BY <1>3, <1>4

(* The steps of a page.                                                    *)
LEMMA LoadingPage ==
  ASSUME DrawInv, LoadingInv, NEW v \in Pages,
         \/ Reveal(v) \/ GoToDrawResult(v) \/ Redraw(v)
         \/ Mount(v) \/ StartDraw(v) \/ AnimationEnds(v) \/ Dispose(v)
  PROVE  LoadingInv'
<1>1. pages \in [Pages -> Page] /\ pages[v] \in Page
  BY DEF DrawInv, DrawTypeOK
<1>2. CASE GoToDrawResult(v) \/ StartDraw(v)
  <2>1. ~pages[v].loading /\ pages[v].life = "up" /\ Begin(v, pages[v])
    BY <1>2 DEF GoToDrawResult, StartDraw, Up, LoadingInv
  <2> QED BY <1>1, <2>1, LoadingBegun DEF DrawInv
<1>3. CASE Redraw(v)
  <2>1. /\ Redrawn(pages[v]) \in Page /\ Redrawn(pages[v]).kind = "result"
        /\ Redrawn(pages[v]).life = "up" /\ Begin(v, Redrawn(pages[v]))
    BY <1>1, <1>3 DEF Redraw, RedrawOf, Redrawn, Up, Page
  <2> QED BY <2>1, LoadingBegun DEF DrawInv
<1>4. CASE Mount(v)
  <2> DEFINE from == pages[v].from
             page == [pages[v] EXCEPT !.life = "up",
                        !.kept = IF from = 0 THEN None ELSE pages[from].shown]
  <2>1. pages[v].kind = "result" /\ pages[v].life = "new"
    BY <1>4 DEF Mount, DrawInv, StackInv
  <2>2. (IF from = 0 THEN None ELSE pages[from].shown) \in Shuffles \cup {None}
    <3>1. from = 0 \/ from \in Pages
      BY <1>1, BoundsAssumption DEF Page, Pages
    <3>2. CASE from \in Pages
      BY <1>1, <3>2 DEF Page
    <3> QED BY <3>1, <3>2
  <2>3. page \in Page /\ page.kind = "result" /\ page.life = "up"
    BY <1>1, <2>1, <2>2 DEF Page, Lives
  <2>4. CASE Begin(v, page)
    <3> HIDE DEF page
    <3> QED BY <2>3, <2>4, LoadingBegun DEF DrawInv
  <2>5. CASE pages' = [pages EXCEPT ![v] = Showing(page, state, <<v, 0>>)] /\ calls' = calls
    <3>1. ~Showing(page, state, <<v, 0>>).loading
      BY <2>3 DEF Showing, Page
    <3>2. ~pages'[v].loading /\ \A w \in Pages \ {v} : pages'[w] = pages[w]
      BY <1>1, <2>5, <3>1
    <3> QED BY <2>5, <3>2, LoadingKept
  <2> QED BY <1>4, <2>4, <2>5 DEF Mount
<1>5. ASSUME Up(v, "animated"), NEW page, MaybeGoToResult(v, page), calls' = calls,
             page.loading = pages[v].loading
      PROVE  LoadingInv'
  <2>1. ~page.loading
    BY <1>5 DEF Up, LoadingInv
  <2>2. CASE Replace(v, page)
    BY <1>5, <2>1, <2>2, LoadingReplaced DEF DrawInv
  <2>3. CASE pages' = [pages EXCEPT ![v] = page]
    <3>1. ~pages'[v].loading /\ \A w \in Pages \ {v} : pages'[w] = pages[w]
      BY <1>1, <2>1, <2>3
    <3> QED BY <1>5, <3>1, LoadingKept
  <2> QED BY <1>5, <2>2, <2>3 DEF MaybeGoToResult
<1>6. CASE Reveal(v)
  <2>1. [pages[v] EXCEPT !.revealed = TRUE].loading = pages[v].loading
    BY <1>1 DEF Page
  <2> QED BY <1>5, <1>6, <2>1 DEF Reveal
<1>7. CASE AnimationEnds(v)
  <2>1. CASE MaybeGoToResult(v, [pages[v] EXCEPT !.revealed = TRUE, !.complete = TRUE])
    <3>1. [pages[v] EXCEPT !.revealed = TRUE, !.complete = TRUE].loading = pages[v].loading
      BY <1>1 DEF Page
    <3> QED BY <1>5, <1>7, <2>1, <3>1 DEF AnimationEnds
  <2>2. CASE pages' = [pages EXCEPT ![v].complete = TRUE]
    <3>1. ~pages[v].loading
      BY <1>7 DEF AnimationEnds, Up, LoadingInv
    <3>2. ~pages'[v].loading /\ \A w \in Pages \ {v} : pages'[w] = pages[w]
      BY <1>1, <2>2, <3>1 DEF Page
    <3> QED BY <1>7, <3>2, LoadingKept DEF AnimationEnds
  <2> QED BY <1>7, <2>1, <2>2 DEF AnimationEnds
<1>8. CASE Dispose(v)
  <2>1. ~pages'[v].loading /\ \A w \in Pages \ {v} : pages'[w] = pages[w]
    BY <1>1, <1>8, BlankLoads DEF Dispose
  <2> QED BY <1>8, <2>1, LoadingKept DEF Dispose
<1> QED BY <1>2, <1>3, <1>4, <1>6, <1>7, <1>8

(* The steps of the home page.                                             *)
LEMMA LoadingOpens ==
  ASSUME DrawTypeOK, LoadingInv,
         OpenResult \/ OpenAnimated \/ OpenShuffle \/ ChangeLayout \/ GoHome
  PROVE  LoadingInv'
<1>1. CASE OpenResult
  <2>1. \A w \in Pages : pages'[w] = IF w = opened + 1 THEN Pushed(0) ELSE pages[w]
    BY <1>1 DEF OpenResult, DrawTypeOK
  <2>2. calls' = calls
    BY <1>1 DEF OpenResult
  <2> QED BY <2>1, <2>2, BlankLoads DEF LoadingInv
<1>2. CASE OpenAnimated \/ OpenShuffle
  <2>1. \A w \in Pages : pages'[w] = pages[w] \/ ~pages'[w].loading
    <3>1. PICK kind, asks, faceUp :
            pages' = [pages EXCEPT ![opened + 1] =
                        [Blank EXCEPT !.kind = kind, !.life = "up",
                                      !.asks = asks, !.faceUp = faceUp]]
      BY <1>2 DEF OpenAnimated, OpenShuffle, OpenDrawPage
    <3>2. ~[Blank EXCEPT !.kind = kind, !.life = "up",
                         !.asks = asks, !.faceUp = faceUp].loading
      BY DEF Blank
    <3> QED BY <3>1, <3>2 DEF DrawTypeOK
  <2>2. calls' = calls
    BY <1>2 DEF OpenAnimated, OpenShuffle, OpenDrawPage
  <2> QED BY <2>1, <2>2 DEF LoadingInv
<1>3. CASE ChangeLayout
  BY <1>3 DEF ChangeLayout, LoadingInv
<1>4. CASE GoHome
  BY <1>4, LoadingHome DEF GoHome
<1> QED BY <1>1, <1>2, <1>3, <1>4

LEMMA LoadingStep == DrawInv /\ LoadingInv /\ [Next]_vars => LoadingInv'
<1> SUFFICES ASSUME DrawInv, LoadingInv, [Next]_vars PROVE LoadingInv'
  OBVIOUS
<1>1. CASE OpenResult \/ OpenAnimated \/ OpenShuffle \/ ChangeLayout \/ GoHome
  BY <1>1, LoadingOpens DEF DrawInv
<1>2. ASSUME NEW v \in Pages,
             \/ Reveal(v) \/ GoToDrawResult(v) \/ Redraw(v)
             \/ Mount(v) \/ StartDraw(v) \/ AnimationEnds(v) \/ Dispose(v)
      PROVE  LoadingInv'
  BY <1>2, LoadingPage
<1>3. ASSUME NEW c \in Calls, Answer(c) PROVE LoadingInv'
  BY <1>3, LoadingDeals, LoadingEnds DEF Answer
<1>4. CASE UNCHANGED vars
  BY <1>4 DEF vars, LoadingInv
<1> QED BY <1>1, <1>2, <1>3, <1>4 DEF Next, Person

(* A result page never loads with nothing to wait for, however draws end,  *)
(* pages are left and redraws are asked for (draw_result_page.dart:64-113).*)
THEOREM LoadingAwaitsDrawAlways == Spec => []LoadingAwaitsDraw
<1>1. Init => LoadingInv
  BY DEF Init, LoadingInv, Blank
<1>2. LoadingInv => LoadingAwaitsDraw
  BY DEF LoadingInv, LoadingAwaitsDraw
<1> QED BY <1>1, <1>2, LoadingStep, DrawInvariant, PTL DEF Spec
=============================================================================
