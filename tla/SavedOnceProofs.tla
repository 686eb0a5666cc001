--------------------------- MODULE SavedOnceProofs ---------------------------
(***************************************************************************)
(* The run mobile_stale shows a stale shuffle saved by a result page that  *)
(* was opened from home.  Here: there is no other way, for any number of   *)
(* pages and of draws.  A draw hands its shuffle to one page: a page that  *)
(* was replaced is not replaced again with the same shuffle, and what a    *)
(* later page takes over is no longer a pending draw's.                    *)
(***************************************************************************)
EXTENDS MobileDrawProofs

(* The page a result page replaced is a draw page, and off the screen.     *)
FromInv ==
  \A w \in Pages :
    /\ pages[w].from <= opened
    /\ pages[w].from # 0 => /\ pages[pages[w].from].kind # "result"
                            /\ pages[pages[w].from].life \notin {"new", "up"}

(* What a result page took over was dealt by the page it replaced, is not  *)
(* pending, and was taken over by no other.                                *)
KeptInv ==
  \A w \in Pages :
    /\ pages[w].life \in {"none", "new"} => pages[w].kept = None
    /\ pages[w].kept # None =>
         /\ pages[w].from # 0 /\ pages[w].kept[1] = pages[w].from
         /\ pages[w].kept \notin calls
         /\ \A v \in Pages : pages[v].kept = pages[w].kept => v = w

(* The same of what is still to be taken over.                             *)
DealtInv ==
  \A v \in Pages :
    /\ pages[v].kind # "result" /\ pages[v].shown # None => pages[v].shown[1] = v
    /\ Up(v, "animated") => pages[v].shown \notin calls
    /\ pages[v].life = "new" /\ pages[v].from # 0 =>
         /\ state \notin calls
         /\ \A w \in Pages : pages[w].kept # state

(* A reading under a draw's name holds what that draw of a result page     *)
(* dealt; the first reading of a page that replaced another, what it took  *)
(* over.                                                                   *)
RowsInv ==
  /\ \A c \in Calls :
       readings[c] # None => /\ readings[c] = c
                             /\ pages[c[1]].kind = "result"
                             /\ pages[c[1]].life # "none"
  /\ \A v \in Pages :
       readings[<<v, 0>>] # None =>
         /\ pages[v].life \notin {"none", "new"}
         /\ pages[v].from # 0 => pages[v].kept # None

OnceInv == FromInv /\ KeptInv /\ DealtInv /\ RowsInv

(* The first reading of a result page opened from home, which holds the    *)
(* shuffle it found.                                                       *)
OfLeftOver(id) == id[2] = 0 /\ pages[id[1]].from = 0

(* Every other reading is of its page's own draw or of the page it         *)
(* replaced, and no two of them are of the same shuffle.                   *)
StaleOnlyFromHome ==
  /\ \A id \in ReadingIds :
       readings[id] # None /\ ~OfLeftOver(id) =>
         readings[id][1] \in {id[1], pages[id[1]].from}
  /\ \A r, q \in ReadingIds :
       r # q /\ readings[r] = readings[q] /\ readings[r] # None =>
         OfLeftOver(r) \/ OfLeftOver(q)

-----------------------------------------------------------------------------
LEMMA PageFacts ==
  ASSUME DrawTypeOK, NEW w \in Pages
  PROVE  /\ pages[w].from \in 0..MaxPages
         /\ pages[w].from # 0 => pages[w].from \in Pages
         /\ pages[w].kept \in Shuffles \cup {None}
         /\ pages[w].shown \in Shuffles \cup {None}
         /\ pages[w].life \in Lives
         /\ None \notin calls
         /\ calls \subseteq Calls
         /\ w \in Nat /\ opened \in Nat
<1>1. pages[w] \in Page /\ calls \subseteq Calls
  BY DEF DrawTypeOK
<1>2. None \notin calls
  BY <1>1, NoneAssumption DEF Shuffles
<1> QED BY <1>1, <1>2, BoundsAssumption DEF Page, Pages, DrawTypeOK

(* A step that gives no page a shuffle, and takes pages off at most.       *)
LEMMA QuietOnce ==
  ASSUME DrawInv, OnceInv,
         \A w \in Pages :
           /\ pages'[w].kind = pages[w].kind
           /\ pages'[w].from = pages[w].from
           /\ pages'[w].kept = pages[w].kept
           /\ pages'[w].shown \in {None, pages[w].shown}
           /\ \/ pages'[w].life = pages[w].life
              \/ pages'[w].life = "gone" /\ pages[w].life # "none",
         opened' = opened, calls' \subseteq calls, readings' = readings,
         state' = state \/ \A w \in Pages : pages[w].life # "new"
  PROVE  OnceInv'
<1> USE DEF OnceInv
<1>1. \A w \in Pages : /\ pages[w].from # 0 => pages[w].from \in Pages
                       /\ None \notin calls
  BY PageFacts DEF DrawInv
<1>2. FromInv'
  BY <1>1 DEF FromInv
<1>3. KeptInv'
  BY DEF KeptInv
<1>4. DealtInv'
  BY <1>1 DEF DealtInv, Up
<1>5. RowsInv'
  BY CallFacts DEF RowsInv
<1> QED BY <1>2, <1>3, <1>4, <1>5

(* A draw begins: its name is new to everyone.                             *)
LEMMA BeginOnce ==
  ASSUME DrawInv, OnceInv, NEW v \in Pages, NEW page \in Page,
         pages[v].life \in {"new", "up"}, page.life = "up",
         page.kind = pages[v].kind, page.from = pages[v].from,
         page.kept = pages[v].kept,
         page.shown \in {None, pages[v].shown},
         page.kind = "animated" => page.shown = None,
         Begin(v, page)
  PROVE  OnceInv'
<1> USE DEF OnceInv
<1> DEFINE call == <<v, page.taps + 1>>
<1>1. /\ state' = None /\ opened' = opened /\ readings' = readings
      /\ calls' = calls \cup {call}
      /\ pages' = [pages EXCEPT ![v] = [page EXCEPT !.taps = @ + 1]]
  BY DEF Begin, Clear
<1>2. call[1] = v /\ call # None
  <2>1. page.taps + 1 \in 1..MaxTaps
    BY BoundsAssumption DEF Begin, Page
  <2> QED BY <2>1, NoneAssumption DEF Shuffles, Calls
<1> HIDE DEF call
<1>3. v = opened /\ \A w \in Pages : w # v => pages[w].life \notin {"new", "up"}
  BY DEF DrawInv, DrawTypeOK
<1>4. /\ pages'[v] = [page EXCEPT !.taps = @ + 1]
      /\ \A w \in Pages : w # v => pages'[w] = pages[w]
  BY <1>1 DEF DrawInv, DrawTypeOK
<1>5. /\ pages'[v].kind = page.kind /\ pages'[v].life = "up"
      /\ pages'[v].from = page.from /\ pages'[v].kept = page.kept
      /\ pages'[v].shown = page.shown
  BY <1>4 DEF Page
<1>6. \A w \in Pages : /\ pages'[w].kind = pages[w].kind
                       /\ pages'[w].from = pages[w].from
                       /\ pages'[w].kept = pages[w].kept
                       /\ pages'[w].life = IF w = v THEN "up" ELSE pages[w].life
                       /\ pages'[w].shown \in {None, pages[w].shown}
                       /\ pages[w].from # 0 => pages[w].from \in Pages
                       /\ None \notin calls
  BY <1>4, <1>5, PageFacts DEF DrawInv
<1>7. \A w \in Pages : pages[w].from # v
  BY <1>3, BoundsAssumption DEF FromInv, Pages
<1>8. FromInv'
  BY <1>1, <1>6, <1>7 DEF FromInv
<1>9. KeptInv'
  BY <1>1, <1>2, <1>6, <1>7 DEF KeptInv
<1>10. DealtInv'
  BY <1>1, <1>2, <1>3, <1>5, <1>6 DEF DealtInv, Up
<1>11. RowsInv'
  BY <1>1, <1>6, CallFacts DEF RowsInv
<1> QED BY <1>8, <1>9, <1>10, <1>11

(* A page opened from home has taken over nothing.                         *)
LEMMA OpenOnce ==
  ASSUME DrawInv, OnceInv, AtHome, opened < MaxPages, NEW page \in Page,
         page.life # "none", page.from = 0, page.kept = None, page.shown = None,
         pages' = [pages EXCEPT ![opened + 1] = page], opened' = opened + 1,
         state' = state, calls' = calls, readings' = readings
  PROVE  OnceInv'
<1> USE DEF OnceInv
<1>1. PICK new \in Pages : new = opened + 1
  BY BoundsAssumption DEF DrawInv, DrawTypeOK, Pages
<1>2. /\ pages'[new] = page
      /\ \A w \in Pages : w # new => pages'[w] = pages[w]
  BY <1>1 DEF DrawInv, DrawTypeOK
<1>3. pages[new].life = "none"
  BY <1>1, BoundsAssumption DEF DrawInv, StackInv, DrawTypeOK, Pages
<1>4. \A w \in Pages : /\ pages[w].life \in {"none", "gone"}
                       /\ pages[w].from # 0 => pages[w].from \in Pages
                       /\ pages[w].from \in Nat /\ opened \in Nat
                       /\ None \notin calls
  BY AtHomeFacts, PageFacts, BoundsAssumption DEF DrawInv
<1>5. \A w \in Pages : pages[w].from # new
  BY <1>1, <1>4 DEF FromInv
<1>6. \A w \in Pages : /\ pages'[w].kept \in {None, pages[w].kept}
                       /\ w # new => pages'[w].kept = pages[w].kept
  BY <1>2
<1>7. FromInv'
  BY <1>1, <1>2, <1>4, <1>5 DEF FromInv
<1>8. KeptInv'
  BY <1>2, <1>6 DEF KeptInv
<1>9. DealtInv'
  BY <1>2, <1>4 DEF DealtInv, Up
<1>10. RowsInv'
  <2>1. ASSUME NEW c \in Calls, readings[c] # None
        PROVE  c[1] \in Pages /\ c[1] # new
    BY <2>1, <1>3, CallFacts DEF RowsInv
  <2> QED BY <2>1, <1>2, <1>3 DEF RowsInv
<1> QED BY <1>7, <1>8, <1>9, <1>10

(* A draw page hands over what it shows.                                   *)
LEMMA ReplaceOnce ==
  ASSUME DrawInv, OnceInv, NEW v \in Pages, NEW page \in Page, Mounted(v),
         page.life = pages[v].life, page.kind = pages[v].kind,
         page.kind # "result", page.from = pages[v].from,
         page.kept = pages[v].kept, page.shown[1] = v,
         state' = page.shown, page.shown \notin calls',
         \A w \in Pages : pages[w].kept # page.shown,
         calls' \subseteq calls, readings' = readings, Replace(v, page)
  PROVE  OnceInv'
<1> USE DEF OnceInv
<1> DEFINE was(w) == IF w = v THEN page ELSE pages[w]
<1>1. PICK new \in Pages : new = opened + 1
  BY BoundsAssumption DEF Replace, DrawInv, DrawTypeOK, Pages
<1>2. /\ opened' = new
      /\ pages' = [w \in Pages |-> IF w = new THEN Pushed(v) ELSE Covered(was(w))]
  BY <1>1 DEF Replace
<1>3. /\ pages'[new].kind = "result" /\ pages'[new].life = "new"
      /\ pages'[new].from = v /\ pages'[new].kept = None
      /\ pages'[new].shown = None
  BY <1>2, PushedFacts DEF Pages
<1>4. ASSUME NEW w \in Pages, w # new
      PROVE  /\ pages'[w].kind = pages[w].kind
             /\ pages'[w].from = pages[w].from
             /\ pages'[w].kept = pages[w].kept
             /\ pages'[w].life = IF pages[w].life = "up" THEN "leaving"
                                 ELSE IF pages[w].life = "new" THEN "gone"
                                 ELSE pages[w].life
             /\ pages'[w].shown \in {None, was(w).shown}
  <2>1. /\ pages'[w] = Covered(was(w)) /\ was(w) \in Page
        /\ was(w).life = pages[w].life
        /\ was(w).kind = pages[w].kind /\ was(w).from = pages[w].from
        /\ was(w).kept = pages[w].kept
    BY <1>2, <1>4 DEF DrawInv, DrawTypeOK
  <2> HIDE DEF was
  <2>2. CASE pages[w].life = "up"
    BY <2>1, <2>2 DEF Covered, Page
  <2>3. CASE pages[w].life = "new"
    BY <2>1, <2>3, UnmountedFacts DEF Covered
  <2>4. CASE pages[w].life \notin {"up", "new"}
    BY <2>1, <2>4 DEF Covered
  <2> QED BY <2>2, <2>3, <2>4
<1>5. /\ pages[new].life = "none" /\ v # new
      /\ v <= opened /\ opened \in Nat
  BY <1>1, BoundsAssumption DEF DrawInv, StackInv, DrawTypeOK, Pages, Mounted
<1>6. \A w \in Pages : /\ pages[w].from # 0 => pages[w].from \in Pages
                       /\ pages[w].from \in Nat
                       /\ pages[w].from # new
                       /\ None \notin calls
  BY <1>1, <1>5, PageFacts, BoundsAssumption DEF DrawInv, FromInv
<1>7. FromInv'
  <2> SUFFICES ASSUME NEW w \in Pages
               PROVE  /\ pages'[w].from <= opened'
                      /\ pages'[w].from # 0 =>
                           /\ pages'[pages'[w].from].kind # "result"
                           /\ pages'[pages'[w].from].life \notin {"new", "up"}
    BY DEF FromInv
  <2>1. CASE w = new
    BY <2>1, <1>1, <1>2, <1>3, <1>4, <1>5 DEF Mounted, Pages
  <2>2. CASE w # new
    BY <2>2, <1>1, <1>2, <1>4, <1>5, <1>6 DEF FromInv
  <2> QED BY <2>1, <2>2
<1>8. KeptInv'
  BY <1>3, <1>4 DEF KeptInv
<1>9. DealtInv'
  <2> SUFFICES ASSUME NEW w \in Pages
               PROVE  /\ pages'[w].kind # "result" /\ pages'[w].shown # None =>
                           pages'[w].shown[1] = w
                      /\ pages'[w].life # "up"
                      /\ pages'[w].life = "new" =>
                           /\ state' \notin calls'
                           /\ \A u \in Pages : pages'[u].kept # state'
    BY DEF DealtInv, Up
  <2>1. page.shown # None /\ \A u \in Pages : pages'[u].kept # page.shown
    <3>1. pages[v].kept \in Shuffles \cup {None} /\ pages[new].kept = None
      BY <1>5, PageFacts DEF DrawInv, KeptInv
    <3> QED BY <3>1, <1>3, <1>4
  <2>2. CASE w = new
    BY <2>1, <2>2, <1>3
  <2>3. CASE w # new
    <3>1. pages'[w].life \notin {"up", "new"}
      BY <2>3, <1>4
    <3>2. ASSUME pages'[w].kind # "result", pages'[w].shown # None
          PROVE  pages'[w].shown[1] = w
      <4>1. CASE w = v
        BY <3>2, <4>1, <2>3, <1>4
      <4>2. CASE w # v
        BY <3>2, <4>2, <2>3, <1>4 DEF DealtInv
      <4> QED BY <4>1, <4>2
    <3> QED BY <3>1, <3>2
  <2> QED BY <2>2, <2>3
<1>10. RowsInv'
  <2>1. ASSUME NEW c \in Calls, readings[c] # None
        PROVE  c[1] \in Pages /\ c[1] # new
    BY <2>1, <1>5, CallFacts DEF RowsInv
  <2> QED BY <2>1, <1>3, <1>4, <1>5 DEF RowsInv
<1> QED BY <1>7, <1>8, <1>9, <1>10

-----------------------------------------------------------------------------
LEMMA OpenStepOnce ==
  ASSUME DrawInv, OnceInv, OpenResult \/ OpenAnimated \/ OpenShuffle
  PROVE  OnceInv'
<1>1. CASE OpenResult
  <2>1. /\ Pushed(0) \in Page /\ Pushed(0).life = "new" /\ Pushed(0).from = 0
        /\ Pushed(0).kept = None /\ Pushed(0).shown = None
    BY PushedFacts, BoundsAssumption
  <2> QED BY <1>1, <2>1, OpenOnce DEF OpenResult
<1>2. ASSUME NEW kind \in {"animated", "shuffle"}, OpenDrawPage(kind)
      PROVE  OnceInv'
  <2>1. PICK asks, faceUp \in BOOLEAN :
          pages' = [pages EXCEPT ![opened + 1] =
                      [Blank EXCEPT !.kind = kind, !.life = "up",
                                    !.asks = asks, !.faceUp = faceUp]]
    BY <1>2 DEF OpenDrawPage
  <2>2. opened < MaxPages
    BY <1>2, BoundsAssumption DEF OpenDrawPage, DrawInv, DrawTypeOK
  <2> DEFINE page == [Blank EXCEPT !.kind = kind, !.life = "up",
                                   !.asks = asks, !.faceUp = faceUp]
  <2>3. /\ page \in Page /\ page.life = "up" /\ page.from = 0
        /\ page.kept = None /\ page.shown = None
    BY ZenonT(40), BlankIsPage DEF Page, Blank, Kinds, Lives
  <2>4. pages' = [pages EXCEPT ![opened + 1] = page]
    BY <2>1
  <2> HIDE DEF page
  <2> QED BY <1>2, <2>2, <2>3, <2>4, OpenOnce DEF OpenDrawPage
<1> QED BY <1>1, <1>2 DEF OpenAnimated, OpenShuffle

LEMMA LeaveOnce ==
  ASSUME DrawInv, OnceInv,
         \/ ChangeLayout \/ GoHome
         \/ \E v \in Pages : Dispose(v)
         \/ \E c \in Calls : Fail(c) \/ Drop(c)
  PROVE  OnceInv'
<1>1. CASE ChangeLayout
  <2>1. \A w \in Pages : pages[w].life # "new"
    BY <1>1, AtHomeFacts DEF ChangeLayout
  <2> QED BY <1>1, <2>1, QuietOnce DEF ChangeLayout
<1>2. ASSUME pages' = WentHome, calls' \subseteq calls,
             UNCHANGED <<state, opened, readings>>
      PROVE  OnceInv'
  <2>1. ASSUME NEW w \in Pages
        PROVE  /\ pages'[w].kind = pages[w].kind
               /\ pages'[w].from = pages[w].from
               /\ pages'[w].kept = pages[w].kept
               /\ pages'[w].shown \in {None, pages[w].shown}
               /\ \/ pages'[w].life = pages[w].life
                  \/ pages'[w].life = "gone" /\ pages[w].life # "none"
    BY <1>2, UnmountedFacts DEF WentHome, DrawInv, DrawTypeOK
  <2> QED BY <1>2, <2>1, QuietOnce
<1>3. ASSUME NEW v \in Pages, Dispose(v) PROVE OnceInv'
  <2>1. ASSUME NEW w \in Pages
        PROVE  /\ pages'[w].kind = pages[w].kind
               /\ pages'[w].from = pages[w].from
               /\ pages'[w].kept = pages[w].kept
               /\ pages'[w].shown \in {None, pages[w].shown}
               /\ \/ pages'[w].life = pages[w].life
                  \/ pages'[w].life = "gone" /\ pages[w].life # "none"
    <3>1. pages'[w] = IF w = v THEN Unmounted(pages[w]) ELSE pages[w]
      BY <1>3 DEF Dispose, DrawInv, DrawTypeOK
    <3> QED BY <3>1, <1>3, UnmountedFacts DEF Dispose, DrawInv, DrawTypeOK
  <2> QED BY <1>3, <2>1, QuietOnce DEF Dispose
<1>4. ASSUME NEW c \in Calls, Fail(c), pages[c[1]].kind # "shuffle"
      PROVE  OnceInv'
  <2>1. pages' = [pages EXCEPT ![c[1]].loading = FALSE]
    BY <1>4 DEF Fail, Caught
  <2>2. ASSUME NEW w \in Pages
        PROVE  /\ pages'[w].kind = pages[w].kind
               /\ pages'[w].from = pages[w].from
               /\ pages'[w].kept = pages[w].kept
               /\ pages'[w].shown = pages[w].shown
               /\ pages'[w].life = pages[w].life
    BY <2>1 DEF DrawInv, DrawTypeOK, Page
  <2> QED BY <1>4, <2>2, QuietOnce DEF Fail
<1>5. ASSUME NEW c \in Calls, Drop(c) PROVE OnceInv'
  BY <1>5, QuietOnce DEF Drop
<1>6. ASSUME NEW c \in Calls, Fail(c), pages[c[1]].kind = "shuffle"
      PROVE  OnceInv'
  BY <1>6, <1>2 DEF Fail, Caught
<1>7. CASE GoHome
  BY <1>7, <1>2 DEF GoHome
<1> QED BY <1>1, <1>3, <1>4, <1>5, <1>6, <1>7

LEMMA BeginStepOnce ==
  ASSUME DrawInv, OnceInv, NEW v \in Pages,
         GoToDrawResult(v) \/ StartDraw(v) \/ Redraw(v)
  PROVE  OnceInv'
<1>1. pages[v] \in Page
  BY DEF DrawInv, DrawTypeOK
<1>2. CASE GoToDrawResult(v) \/ StartDraw(v)
  BY <1>1, <1>2, BeginOnce DEF GoToDrawResult, StartDraw, Up
<1>3. CASE Redraw(v)
  <2>1. Up(v, "result") /\ Begin(v, Redrawn(pages[v]))
    BY <1>3 DEF Redraw, RedrawOf
  <2>2. /\ Redrawn(pages[v]) \in Page
        /\ Redrawn(pages[v]).kind = "result" /\ Redrawn(pages[v]).life = "up"
        /\ Redrawn(pages[v]).from = pages[v].from
        /\ Redrawn(pages[v]).kept = pages[v].kept
        /\ Redrawn(pages[v]).shown = None
    BY <1>1, <2>1 DEF Redrawn, Up, Page
  <2> QED BY <2>1, <2>2, BeginOnce DEF Up
<1> QED BY <1>2, <1>3

LEMMA RevealStepOnce ==
  ASSUME DrawInv, OnceInv, NEW v \in Pages, Reveal(v) \/ AnimationEnds(v)
  PROVE  OnceInv'
<1>1. /\ Up(v, "animated") /\ pages[v].shown # None /\ pages[v] \in Page
      /\ UNCHANGED <<state, calls, readings>>
  BY DEF Reveal, AnimationEnds, DrawInv, DrawTypeOK
<1>2. PICK page \in Page :
        /\ page.kind = pages[v].kind /\ page.life = pages[v].life
        /\ page.from = pages[v].from /\ page.kept = pages[v].kept
        /\ page.shown = pages[v].shown
        /\ \/ Replace(v, page)
           \/ pages' = [pages EXCEPT ![v] = page] /\ UNCHANGED opened
  <2>1. CASE Reveal(v)
    <3> DEFINE p == [pages[v] EXCEPT !.revealed = TRUE]
    <3>1. /\ p \in Page
          /\ p.kind = pages[v].kind /\ p.life = pages[v].life
          /\ p.from = pages[v].from /\ p.kept = pages[v].kept
          /\ p.shown = pages[v].shown
      BY <1>1 DEF Page
    <3>2. MaybeGoToResult(v, p)
      BY <2>1 DEF Reveal
    <3> HIDE DEF p
    <3> QED BY <3>1, <3>2 DEF MaybeGoToResult
  <2>2. CASE AnimationEnds(v) /\ pages[v].faceUp
    <3> DEFINE p == [pages[v] EXCEPT !.revealed = TRUE, !.complete = TRUE]
    <3>1. /\ p \in Page
          /\ p.kind = pages[v].kind /\ p.life = pages[v].life
          /\ p.from = pages[v].from /\ p.kept = pages[v].kept
          /\ p.shown = pages[v].shown
      BY <1>1 DEF Page
    <3>2. MaybeGoToResult(v, p)
      BY <2>2 DEF AnimationEnds
    <3> HIDE DEF p
    <3> QED BY <3>1, <3>2 DEF MaybeGoToResult
  <2>3. CASE AnimationEnds(v) /\ ~pages[v].faceUp
    <3> DEFINE p == [pages[v] EXCEPT !.complete = TRUE]
    <3>1. /\ p \in Page
          /\ p.kind = pages[v].kind /\ p.life = pages[v].life
          /\ p.from = pages[v].from /\ p.kept = pages[v].kept
          /\ p.shown = pages[v].shown
      BY <1>1 DEF Page
    <3>2. pages' = [pages EXCEPT ![v] = p] /\ UNCHANGED opened
      BY <2>3 DEF AnimationEnds
    <3> HIDE DEF p
    <3> QED BY <3>1, <3>2
  <2> QED BY <2>1, <2>2, <2>3
<1>3. CASE Replace(v, page)
  <2>1. /\ state = page.shown /\ page.shown[1] = v /\ page.shown \notin calls
        /\ Mounted(v)
    BY <1>1, <1>2, UpFacts DEF OnceInv, DealtInv, Up
  <2>2. \A w \in Pages : pages[w].from # v
    BY <1>1 DEF OnceInv, FromInv, Up, Pages
  <2>3. \A w \in Pages : pages[w].kept # page.shown
    BY <1>1, <1>2, <2>1, <2>2 DEF OnceInv, KeptInv
  <2> QED BY <1>1, <1>2, <1>3, <2>1, <2>3, ReplaceOnce DEF Up
<1>4. CASE pages' = [pages EXCEPT ![v] = page] /\ UNCHANGED opened
  <2>1. ASSUME NEW w \in Pages
        PROVE  /\ pages'[w].kind = pages[w].kind
               /\ pages'[w].from = pages[w].from
               /\ pages'[w].kept = pages[w].kept
               /\ pages'[w].shown = pages[w].shown
               /\ pages'[w].life = pages[w].life
    BY <1>2, <1>4 DEF DrawInv, DrawTypeOK
  <2> QED BY <1>1, <1>4, <2>1, QuietOnce
<1> QED BY <1>2, <1>3, <1>4

(* The first frame of a result page.                                       *)
LEMMA MountOnce ==
  ASSUME DrawInv, OnceInv, NEW v \in Pages, Mount(v) PROVE OnceInv'
<1> USE DEF OnceInv
<1> DEFINE kept == IF pages[v].from = 0 THEN None
                   ELSE pages[pages[v].from].shown
           page == [pages[v] EXCEPT !.life = "up", !.kept = kept]
<1>1. /\ pages[v].life = "new" /\ pages[v].kind = "result"
      /\ pages[v].shown = None /\ pages[v].saved = None /\ pages[v].kept = None
      /\ pages[v] \in Page /\ v = opened
      /\ pages[v].from # 0 => pages[v].from \in Pages
  BY PageFacts DEF Mount, DrawInv, StackInv, DrawTypeOK, KeptInv
<1>2. /\ kept \in Shuffles \cup {None}
      /\ pages[v].from # 0 => /\ kept = state /\ state # None
                              /\ kept[1] = pages[v].from
                              /\ kept \notin calls
                              /\ \A w \in Pages : pages[w].kept # kept
      /\ pages[v].from = 0 => kept = None
  <2>1. pages[v].from # 0 =>
          /\ state # None /\ pages[pages[v].from].shown = state
          /\ pages[pages[v].from].kind # "result"
    BY <1>1 DEF DrawInv, FreshInv, FromInv
  <2> QED BY <1>1, <2>1 DEF DealtInv, DrawInv, DrawTypeOK
<1>3. /\ page \in Page /\ page.life = "up" /\ page.kind = "result"
      /\ page.from = pages[v].from /\ page.kept = kept
      /\ page.shown = None /\ page.saved = None
  BY ZenonT(40), <1>1, <1>2 DEF Page, Lives
<1>4. \/ /\ Found(v)
         /\ pages' = [pages EXCEPT ![v] = Showing(page, state, <<v, 0>>)]
         /\ AutoSave(page, state, <<v, 0>>)
         /\ UNCHANGED <<state, opened, calls>>
      \/ ~Found(v) /\ Begin(v, page)
  BY DEF Mount
<1> HIDE DEF kept, page
<1>5. CASE Found(v)
  <2>1. /\ pages'[v] = Showing(page, state, <<v, 0>>)
        /\ \A w \in Pages : w # v => pages'[w] = pages[w]
        /\ UNCHANGED <<state, opened, calls>>
    BY <1>4, <1>5 DEF Found, DrawInv, DrawTypeOK
  <2>2. /\ pages'[v].kind = "result" /\ pages'[v].life = "up"
        /\ pages'[v].from = pages[v].from /\ pages'[v].kept = kept
    BY <1>3, <2>1 DEF Showing, Page
  <2>3. /\ \A c \in Calls : readings'[c] = readings[c]
        /\ \A w \in Pages : w # v => readings'[<<w, 0>>] = readings[<<w, 0>>]
    <3>1. readings' = [readings EXCEPT ![<<v, 0>>] = state]
      BY <1>3, <1>4, <1>5 DEF AutoSave, Found
    <3> QED BY <3>1, CallFacts, FirstIdFacts DEF DrawInv, DrawTypeOK
  <2>4. \A w \in Pages : /\ pages[w].from # 0 => pages[w].from \in Pages
                         /\ pages[w].from # v
                         /\ None \notin calls
    BY <1>1, PageFacts DEF DrawInv, FromInv, Pages
  <2>5. FromInv'
    BY <1>1, <2>1, <2>2, <2>4 DEF FromInv
  <2>6. KeptInv'
    BY <1>2, <2>1, <2>2 DEF KeptInv
  <2>7. \A w \in Pages : w # v => pages[w].life \notin {"new", "up"}
    BY <1>1 DEF DrawInv, DrawTypeOK
  <2>8. DealtInv'
    BY <2>1, <2>2, <2>7 DEF DealtInv, Up
  <2>9. RowsInv'
    BY <1>1, <1>2, <2>1, <2>2, <2>3, CallFacts DEF RowsInv
  <2> QED BY <2>5, <2>6, <2>8, <2>9
<1>6. CASE ~Found(v)
  <2>1. kept = None
    BY <1>2, <1>6 DEF Found
  <2> QED BY <1>1, <1>3, <1>4, <1>6, <2>1, BeginOnce
<1> QED BY <1>5, <1>6

LEMMA DealOnce ==
  ASSUME DrawInv, OnceInv, NEW c \in Calls, Deal(c) PROVE OnceInv'
<1> USE DEF OnceInv
<1>1. PICK v \in Pages : v = c[1]
  BY CallFacts
<1> DEFINE page == [pages[v] EXCEPT !.shown = c]
<1>2. /\ c \in calls /\ Mounted(v) /\ calls' = calls \ {c} /\ state' = c
      /\ \/ /\ page.kind = "animated"
            /\ pages' = [pages EXCEPT ![v] = page]
            /\ UNCHANGED <<opened, readings>>
         \/ /\ page.kind = "shuffle"
            /\ Replace(v, page)
            /\ UNCHANGED readings
         \/ /\ page.kind = "result"
            /\ pages' = [pages EXCEPT ![v] = Showing(page, c, c)]
            /\ AutoSave(page, c, c)
            /\ UNCHANGED opened
  BY <1>1 DEF Deal, RefAlive, SetResult
<1>3. /\ c \in Shuffles /\ c \in ReadingIds /\ c # None
      /\ \A w \in Pages : c # <<w, 0>>
  BY CallFacts
<1>4. /\ page \in Page /\ page.shown = c
      /\ page.kind = pages[v].kind /\ page.life = pages[v].life
      /\ page.from = pages[v].from /\ page.kept = pages[v].kept
      /\ page.saved = pages[v].saved
  BY <1>3 DEF DrawInv, DrawTypeOK, Page
<1> HIDE DEF page
<1>5. \A w \in Pages : /\ pages[w].kept # c
                       /\ pages[w].from # 0 => pages[w].from \in Pages
                       /\ None \notin calls
  BY <1>2, <1>3, PageFacts DEF KeptInv, DrawInv
<1>6. CASE page.kind = "shuffle"
  <2>1. /\ Replace(v, page) /\ readings' = readings
        /\ page.shown[1] = v /\ page.shown \notin calls'
        /\ calls' \subseteq calls /\ state' = page.shown
    BY <1>1, <1>2, <1>4, <1>6
  <2> QED BY <1>2, <1>4, <1>5, <1>6, <2>1, ReplaceOnce
<1>7. CASE page.kind \in {"animated", "result"}
  <2>1. /\ \A w \in Pages : /\ pages'[w].kind = pages[w].kind
                            /\ pages'[w].life = pages[w].life
                            /\ pages'[w].from = pages[w].from
                            /\ pages'[w].kept = pages[w].kept
                            /\ w # v => pages'[w].shown = pages[w].shown
        /\ pages'[v].shown = c
        /\ opened' = opened
    <3>1. CASE page.kind = "animated"
      BY <1>2, <1>4, <3>1 DEF DrawInv, DrawTypeOK
    <3>2. CASE page.kind = "result"
      <4>1. /\ pages'[v] = Showing(page, c, c) /\ opened' = opened
            /\ \A w \in Pages : w # v => pages'[w] = pages[w]
        BY <1>2, <3>2 DEF DrawInv, DrawTypeOK
      <4>2. /\ pages'[v].kind = page.kind /\ pages'[v].life = page.life
            /\ pages'[v].from = page.from /\ pages'[v].kept = page.kept
            /\ pages'[v].shown = c
        BY <1>4, <4>1 DEF Showing, Page
      <4> QED BY <1>4, <4>1, <4>2
    <3> QED BY <1>7, <3>1, <3>2
  <2>2. FromInv'
    BY <1>5, <2>1 DEF FromInv
  <2>3. KeptInv'
    BY <1>2, <2>1 DEF KeptInv
  <2>4. DealtInv'
    BY <1>1, <1>2, <1>5, <2>1 DEF DealtInv, Up
  <2>5. \/ readings' = readings
        \/ readings' = [readings EXCEPT ![c] = c] /\ page.kind = "result"
    BY <1>2, <1>7 DEF AutoSave
  <2>6. /\ \A w \in Pages : readings'[<<w, 0>>] = readings[<<w, 0>>]
        /\ \A d \in Calls : \/ readings'[d] = readings[d]
                            \/ d = c /\ readings'[d] = c /\ page.kind = "result"
    BY <1>3, <2>5, CallFacts, FirstIdFacts DEF DrawInv, DrawTypeOK
  <2>7. RowsInv'
    BY <1>1, <1>2, <1>4, <2>1, <2>6, CallFacts DEF RowsInv, Mounted
  <2> QED BY <2>2, <2>3, <2>4, <2>7
<1> QED BY <1>2, <1>6, <1>7

-----------------------------------------------------------------------------
LEMMA OnceInit == Init => OnceInv
<1> SUFFICES ASSUME Init PROVE OnceInv
  OBVIOUS
<1>1. /\ opened = 0 /\ calls = {}
      /\ \A v \in Pages : pages[v] = Blank
      /\ \A r \in ReadingIds : readings[r] = None
  BY DEF Init
<1>2. FromInv /\ KeptInv /\ DealtInv
  BY <1>1 DEF FromInv, KeptInv, DealtInv, Blank, Up
<1>3. RowsInv
  BY <1>1, CallFacts, FirstIdFacts DEF RowsInv
<1> QED BY <1>2, <1>3 DEF OnceInv

LEMMA OnceStep == DrawInv /\ OnceInv /\ [Next]_vars => OnceInv'
<1> SUFFICES ASSUME DrawInv, OnceInv, [Next]_vars PROVE OnceInv'
  OBVIOUS
<1>1. CASE OpenResult \/ OpenAnimated \/ OpenShuffle
  BY <1>1, OpenStepOnce
<1>2. CASE ChangeLayout \/ GoHome
  BY <1>2, LeaveOnce
<1>3. ASSUME NEW v \in Pages,
             \/ Reveal(v) \/ GoToDrawResult(v) \/ Redraw(v)
             \/ Mount(v) \/ StartDraw(v) \/ AnimationEnds(v) \/ Dispose(v)
      PROVE  OnceInv'
  BY <1>3, RevealStepOnce, BeginStepOnce, MountOnce, LeaveOnce
<1>4. ASSUME NEW c \in Calls, Answer(c) PROVE OnceInv'
  BY <1>4, DealOnce, LeaveOnce DEF Answer
<1>5. CASE UNCHANGED vars
  BY <1>5, QuietOnce DEF vars
<1> QED BY <1>1, <1>2, <1>3, <1>4, <1>5 DEF Next, Person

(* Two readings with one shuffle have two names: of draws, whose readings  *)
(* differ; of a page that took it over and a draw, which was not pending;  *)
(* or of two pages that took it over, which are one.                       *)
LEMMA OnceSuffices ==
  ASSUME DrawInv, OnceInv PROVE StaleOnlyFromHome
<1> USE DEF OnceInv
<1>1. ASSUME NEW id \in ReadingIds
      PROVE  /\ id[1] \in Pages /\ id = <<id[1], id[2]>>
             /\ id \in Calls \/ id[2] = 0
  BY BoundsAssumption DEF ReadingIds, Calls
<1>2. ASSUME NEW id \in ReadingIds, id[2] = 0, pages[id[1]].from # 0,
             readings[id] # None
      PROVE  /\ pages[id[1]].kept = readings[id]
             /\ pages[pages[id[1]].from].kind # "result"
             /\ readings[id][1] = pages[id[1]].from
  <2>1. id[1] \in Pages /\ id = <<id[1], 0>>
    BY <1>1, <1>2
  <2>2. pages[id[1]].kept # None
    BY <1>2, <2>1 DEF RowsInv
  <2>3. readings[id] = pages[id[1]].kept
    BY <2>1, <2>2 DEF DrawInv, UpstreamKept
  <2> QED BY <1>2, <2>1, <2>2, <2>3 DEF FromInv, KeptInv
<1>3. ASSUME NEW id \in ReadingIds, id[2] # 0, readings[id] # None
      PROVE  readings[id] = id /\ pages[readings[id][1]].kind = "result"
  BY <1>1, <1>3 DEF RowsInv
<1>4. ASSUME NEW id \in ReadingIds, readings[id] # None, ~OfLeftOver(id)
      PROVE  readings[id][1] \in {id[1], pages[id[1]].from}
  BY <1>2, <1>3, <1>4 DEF OfLeftOver
<1>5. ASSUME NEW r \in ReadingIds, NEW q \in ReadingIds,
             readings[r] = readings[q], readings[r] # None,
             ~OfLeftOver(r), ~OfLeftOver(q)
      PROVE  r = q
  <2>1. CASE r[2] = 0 /\ q[2] = 0
    <3>1. pages[r[1]].kept = pages[q[1]].kept /\ pages[r[1]].kept # None
      BY <1>2, <1>5, <2>1 DEF OfLeftOver
    <3>2. r[1] = q[1]
      BY <1>1, <3>1 DEF KeptInv
    <3> QED BY <1>1, <2>1, <3>2
  <2>2. CASE r[2] # 0 /\ q[2] # 0
    BY <1>3, <1>5, <2>2
  <2>3. CASE (r[2] = 0) # (q[2] = 0)
    BY <1>2, <1>3, <1>5, <2>3 DEF OfLeftOver
  <2> QED BY <2>1, <2>2, <2>3
<1> QED BY <1>4, <1>5 DEF StaleOnlyFromHome

(* A reading of a stale shuffle, or a second one of the same, comes about  *)
(* only when a result page is opened from home over a shuffle that was     *)
(* left behind (home_page.dart:82): redraws, draws that overlap and pages  *)
(* that were left or replaced never make one, because the draw pages clear *)
(* the shared state before they deal (animated_draw_page.dart:65,          *)
(* shuffle_page.dart:59), for any number of pages and of draws.            *)
THEOREM SavedOnceElsewhere == Spec => []StaleOnlyFromHome
<1>1. Init => OnceInv
  BY OnceInit
<1>2. DrawInv /\ OnceInv /\ [Next]_vars => OnceInv'
  BY OnceStep
<1>3. DrawInv /\ OnceInv => StaleOnlyFromHome
  BY OnceSuffices
<1> QED BY <1>1, <1>2, <1>3, DrawInvariant, PTL DEF Spec
=============================================================================
