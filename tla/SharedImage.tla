----------------------------- MODULE SharedImage -----------------------------
(***************************************************************************)
(* Renders that share an image of the cache: EffectInstance::renderRoI()   *)
(* of several threads on one effect, frame and view.  The bitmap of the    *)
(* image says of each pixel whether it is missing (0), rendered (1) or     *)
(* being rendered (2, PIXEL_UNAVAILABLE): a render leaves the pixels that  *)
(* another one renders to it, and waits for them.                          *)
(*                                                                         *)
(* The image is one row of pixels, which keeps the search for rectangles:  *)
(* rows are stripped like columns.  A step is a critical section of the    *)
(* code: of the image's lock, of imagesBeingRenderedMutex, of ibr->lock.   *)
(* The plug-in takes no lock (eRenderSafetyFullySafe): the locks of other  *)
(* plug-ins only forbid some of these interleavings.                       *)
(***************************************************************************)
EXTENDS Naturals, FiniteSets

CONSTANTS
    Renders,        \* calls of renderRoI(), one by thread
    Abortable,      \* those whose frame may be aborted: they ignore the value 2
    Proxies,        \* those with renderFullScaleThenDownscale, on the full scale image
    Pixels,         \* the columns of the image
    RoIs,           \* regions asked for
    Tilings,        \* what the effect may say of tilesSupported
    Identities,     \* those whose rectangles are copied from an input
    MayFail         \* those whose plug-in, or input of the identity, may fail

(* A region is a rectangle: here an interval of the row.                   *)
Convex(S) == \A a, b \in S, p \in Pixels : a <= p /\ p <= b => p \in S

ASSUME SharedImageAssumption ==
    /\ IsFiniteSet(Renders)
    /\ Pixels \subseteq Nat /\ RoIs \subseteq SUBSET Pixels /\ \A S \in RoIs : Convex(S)
    /\ Abortable \subseteq Renders /\ Proxies \subseteq Renders /\ Tilings \subseteq BOOLEAN
    /\ Identities \subseteq Renders /\ MayFail \subseteq Renders

VARIABLES
    tiles,          \* tilesSupported
    bitmap,         \* of the image in the cache
    cached,         \* the image was created
    painted,        \* history: pixels whose data was written
    ibr,            \* ImageBeingRendered: its count of renders, and renderFailed
    pc, roi, result,    \* of each render
    call            \* its local variables:
                    \*   some: hasSomethingToRender
                    \*   todo: the rectangles left to render
                    \*   elsewhere: planesToRender->isBeingRenderedElsewhere
                    \*   claim, rect: what it marks of the rectangle it is at,
                    \*     and what it renders
                    \*   tile: isBeingRenderedElseWhere of that rectangle, then of the wait

imageVars == <<bitmap, cached, painted>>
vars == <<tiles, imageVars, ibr, pc, roi, result, call>>

Labels == {"idle", "found", "next", "shrunk", "render", "evaluated",
           "asleep", "woken", "conclude", "check", "done"}

(* Between the mark and the unmark of the image.                           *)
Inside(t) == /\ t \notin Abortable
             /\ pc[t] \notin {"idle", "found", "check", "done"}

Locals == [some : BOOLEAN, todo : SUBSET SUBSET Pixels, elsewhere : BOOLEAN,
           claim : SUBSET Pixels, rect : SUBSET Pixels, tile : BOOLEAN]

TypeOK ==
    /\ tiles \in BOOLEAN
    /\ bitmap \in [Pixels -> 0..2] /\ cached \in BOOLEAN /\ painted \subseteq Pixels
    /\ ibr \in [count : Nat, failed : BOOLEAN]
    /\ pc \in [Renders -> Labels] /\ roi \in [Renders -> SUBSET Pixels]
    /\ result \in [Renders -> {"none", "ok", "failed", "aborted"}]
    /\ call \in [Renders -> Locals]

NotInUse == [count |-> 0, failed |-> FALSE]

NoLocals == [some |-> FALSE, todo |-> {}, elsewhere |-> FALSE,
             claim |-> {}, rect |-> {}, tile |-> FALSE]

Init ==
    /\ tiles \in Tilings
    /\ bitmap = [p \in Pixels |-> 0] /\ cached = FALSE /\ painted = {}
    /\ ibr = NotInUse
    /\ pc = [t \in Renders |-> "idle"] /\ roi = [t \in Renders |-> {}]
    /\ result = [t \in Renders |-> "none"] /\ call = [t \in Renders |-> NoLocals]

-----------------------------------------------------------------------------
(* The search for what is left to render.  "lacking" holds the values that *)
(* stand for a missing pixel: 0, and 2 when the trimap is not used.        *)

Hull(S) == {p \in Pixels : \E a, b \in S : a <= p /\ p <= b}

Lacking(t) == IF t \in Abortable THEN {0, 2} ELSE {0}

(* minimalNonMarkedBbox                                                    *)
Bbox(S, lacking) == Hull({p \in S : bitmap[p] \in lacking})

(* What is between the outermost pixels of the box that are not missing.   *)
BoxX(S, lacking) == Hull({p \in Bbox(S, lacking) : bitmap[p] \notin lacking})

(* minimalNonMarkedRects: both ends of the box, and the box of the rest    *)
Rects(S, lacking) ==
    LET M == Bbox(S, lacking)
        X == BoxX(S, lacking)
        C == {p \in M : \A x \in X : p < x}
        D == {p \in M : \A x \in X : p > x}
    IN {C, D, Bbox(X, lacking)} \ {{}}

(* Only the pixels a box leaves out flag *isBeingRenderedElsewhere.        *)
BboxElsewhere(S, lacking) ==
    2 \notin lacking /\ \E p \in S \ Bbox(S, lacking) : bitmap[p] = 2

RectsElsewhere_RestOnly(S, lacking) == BboxElsewhere(BoxX(S, lacking), lacking)
RectsElsewhere(S, lacking) ==
    BboxElsewhere(S, lacking) \/ BboxElsewhere(BoxX(S, lacking), lacking)

Mark(S, v) == bitmap' = [p \in Pixels |-> IF p \in S THEN v ELSE bitmap[p]]

-----------------------------------------------------------------------------
(* renderRoI() *)

Go(t, l) == pc' = [pc EXCEPT ![t] = l]

(* ... and wakeAll()                                                       *)
GoAndWake_NoWake(t, l) == pc' = [pc EXCEPT ![t] = l]
GoAndWake(t, l) ==
    pc' = [u \in Renders |-> IF u = t THEN l
                             ELSE IF pc[u] = "asleep" THEN "woken" ELSE pc[u]]

Return(t, r) == result' = [result EXCEPT ![t] = r] /\ call' = [call EXCEPT ![t] = NoLocals]

(* The cache is looked up, then the bitmap; without tiles a render with    *)
(* something to do does the whole image.                                   *)
LookUp(t) ==
    /\ pc[t] = "idle" /\ Go(t, "found")
    /\ \E S \in (IF tiles THEN RoIs ELSE {Pixels}) :
         LET rest == IF cached THEN Rects(S, Lacking(t)) ELSE {S}
         IN /\ roi' = [roi EXCEPT ![t] = S]
            /\ call' = [call EXCEPT ![t].some = rest # {},
                          ![t].todo = IF tiles \/ rest = {} THEN rest ELSE {Pixels},
                          ![t].elsewhere = cached /\ RectsElsewhere(S, Lacking(t))]
    /\ UNCHANGED <<imageVars, ibr, result>>

(* markImageAsBeingRendered(), after the planes were allocated             *)
MarkImageAsBeingRendered(t) ==
    /\ pc[t] = "found" /\ (call[t].some \/ call[t].elsewhere) /\ Go(t, "next")
    /\ cached' = TRUE
    /\ ibr' = IF t \in Abortable THEN ibr ELSE [ibr EXCEPT !.count = @ + 1]
    /\ UNCHANGED <<bitmap, painted, roi, result, call>>

(* eRenderRoIStatusImageAlreadyRendered *)
AlreadyRendered(t) ==
    /\ pc[t] = "found" /\ ~call[t].some /\ ~call[t].elsewhere
    /\ Go(t, "done") /\ Return(t, "ok")
    /\ UNCHANGED <<imageVars, ibr, roi>>

(* tryShrinkRenderWindow() reads the box of the missing pixels under the   *)
(* read lock of the image.  With a proxy the rectangle becomes that box;   *)
(* else it is only replaced when it does not contain it: never.            *)
Shrink(t, S) ==
    /\ pc[t] = "next" /\ Go(t, "shrunk")
    /\ LET box == IF tiles THEN Bbox(S, Lacking(t)) ELSE S
       IN call' = [call EXCEPT ![t].todo = @ \ {S},
                     ![t].claim = IF t \in Abortable \/ (t \in Identities /\ ~tiles)
                                  THEN {} ELSE box,
                     ![t].rect = IF t \in Proxies THEN box ELSE S,
                     ![t].tile = tiles /\ BboxElsewhere(S, Lacking(t))]
    /\ UNCHANGED <<imageVars, ibr, roi, result>>

(* tiledRenderingFunctor() returns: TakeImageLock, when "lock" holds.      *)
TileDone(t, lock) ==
    call' = [call EXCEPT ![t].elsewhere = @ \/ lock, ![t].tile = FALSE,
                         ![t].claim = {}, ![t].rect = {}]

(* The box is marked under the write lock, taken in a second time (by      *)
(* renderHandlerInternal() without tiles: what is copied is not marked).   *)
(* "It might have been already rendered now".                              *)
Claim(t) ==
    /\ pc[t] = "shrunk" /\ Mark(call[t].claim, 2)
    /\ IF call[t].rect = {} THEN Go(t, "next") /\ TileDone(t, call[t].tile)
                            ELSE Go(t, "render") /\ UNCHANGED call
    /\ UNCHANGED <<cached, painted, ibr, roi, result>>

(* renderHandlerInternal() and renderHandlerPostProcess(); or the copy by  *)
(* renderHandlerIdentity(), which returns OK whatever is pending.          *)
RenderRect(t) ==
    /\ pc[t] = "render" /\ Go(t, "next")
    /\ TileDone(t, call[t].tile /\ t \notin Identities)
    /\ Mark(call[t].rect, 1) /\ painted' = painted \cup call[t].rect
    /\ UNCHANGED <<cached, ibr, roi, result>>

(* The first rectangle that fails ends the render.  renderHandlerInternal()*)
(* clears the bitmap of what it marked, renderHandlerIdentity() does not.  *)
Cleared_Never(t) == UNCHANGED bitmap
Cleared(t) ==
    IF t \in Abortable \cup Identities THEN UNCHANGED bitmap ELSE Mark(call[t].rect, 0)

Fail(t) ==
    /\ pc[t] = "render" /\ Go(t, "next")
    /\ call' = [call EXCEPT ![t].todo = {}, ![t].claim = {}, ![t].rect = {}, ![t].tile = FALSE]
    /\ \E r \in {"failed", "aborted"} :
         /\ (r = "failed" => t \in MayFail) /\ (r = "aborted" => t \in Abortable)
         /\ result' = [result EXCEPT ![t] = r]
    /\ Cleared(t)
    /\ UNCHANGED <<cached, painted, ibr, roi>>

Over(t) == pc[t] = "next" /\ call[t].todo = {}

(* --refCount, wakeAll(), and erase() of the entry when nobody is left     *)
LeaveImage(failed) ==
    ibr' = IF ibr.count = 1 THEN NotInUse
           ELSE [count |-> ibr.count - 1, failed |-> ibr.failed \/ failed]

UnmarkImageAsBeingRendered(t) ==
    /\ Over(t) /\ t \notin Abortable
    /\ result[t] = "failed" \/ ~call[t].elsewhere
    /\ LeaveImage(result[t] = "failed") /\ GoAndWake(t, "check")
    /\ UNCHANGED <<imageVars, roi, result, call>>

(* waitForImageBeingRenderedElsewhereAndUnmark() looks at the bitmap       *)
(* before it takes ibr->lock, ...                                          *)
EvaluateBeforeWait(t) ==
    /\ Over(t) /\ t \notin Abortable /\ result[t] # "failed" /\ call[t].elsewhere
    /\ Go(t, "evaluated")
    /\ call' = [call EXCEPT ![t].tile = RectsElsewhere(roi[t], {0})]
    /\ UNCHANGED <<imageVars, ibr, roi, result>>

Waits(pending) == pending /\ ~ibr.failed /\ ibr.count > 1

Wait(t) ==
    /\ pc[t] = "evaluated" /\ Go(t, IF Waits(call[t].tile) THEN "asleep" ELSE "conclude")
    /\ UNCHANGED <<imageVars, ibr, roi, result, call>>

(* ... and again, with it, each time it is woken.                          *)
WakeUp(t) ==
    /\ pc[t] = "woken"
    /\ call' = [call EXCEPT ![t].tile = RectsElsewhere(roi[t], {0})]
    /\ Go(t, IF Waits(RectsElsewhere(roi[t], {0})) THEN "asleep" ELSE "conclude")
    /\ UNCHANGED <<imageVars, ibr, roi, result>>

(* A wait that fails makes the render an aborted one, but for a render     *)
(* that had nothing to do itself: its eRenderRoIStatusImageAlreadyRendered *)
(* lets renderRoI() go on.                                                 *)
Conclude(t) ==
    /\ pc[t] = "conclude" /\ LeaveImage(FALSE) /\ GoAndWake(t, "check")
    /\ result' = [result EXCEPT ![t] =
                    IF (ibr.failed \/ call[t].tile) /\ call[t].some THEN "aborted" ELSE @]
    /\ UNCHANGED <<imageVars, roi, call>>

EndAbortable(t) ==
    /\ Over(t) /\ t \in Abortable /\ Go(t, "check")
    /\ UNCHANGED <<imageVars, ibr, roi, result, call>>

(* renderRoI() tells an abort and a failure from a success, which          *)
(* renderRoITermination() checks and returns.                              *)
Terminate(t) ==
    /\ pc[t] = "check" /\ Go(t, "done")
    /\ Return(t, IF result[t] = "none" THEN "ok" ELSE result[t])
    /\ UNCHANGED <<imageVars, ibr, roi>>

Step(t) ==
    /\ \/ MarkImageAsBeingRendered(t) \/ AlreadyRendered(t)
       \/ \E S \in call[t].todo : Shrink(t, S)
       \/ Claim(t) \/ RenderRect(t) \/ Fail(t)
       \/ UnmarkImageAsBeingRendered(t) \/ EvaluateBeforeWait(t) \/ Wait(t) \/ WakeUp(t)
       \/ Conclude(t) \/ EndAbortable(t) \/ Terminate(t)
    /\ UNCHANGED tiles

Next == \E t \in Renders : (LookUp(t) /\ UNCHANGED tiles) \/ Step(t)

Spec == Init /\ [][Next]_vars

(* The threads of the pool are scheduled; nobody has to ask for a render.  *)
FairSpec == Spec /\ \A t \in Renders : WF_vars(Step(t))

-----------------------------------------------------------------------------
(* Properties                                                              *)

(* A pixel marked PIXEL_UNAVAILABLE is rendered by a render that will mark *)
(* it rendered or clear it: "the image is no longer being rendered but its *)
(* bitmap still contains PIXEL_UNAVAILABLE pixels" (determineRectsToRender)*)
(* does not happen, when no input of an identity fails.                    *)
PendingPixelIsBeingRendered ==
    MayFail \cap Identities \subseteq Abortable =>
        \A p \in Pixels : bitmap[p] = 2 =>
            \E t \in Renders \ Abortable : pc[t] = "render" /\ p \in call[t].rect

(* refCount counts the renders that still use the entry: none frees it     *)
(* under another one, and the last one does.                               *)
CountIsRendersInside ==
    ibr.count = Cardinality({t \in Renders : Inside(t)})

(* The bitmap and the entry of the image say who is at work on it.         *)
BitmapInv == TypeOK /\ PendingPixelIsBeingRendered /\ CountIsRendersInside

(* The render that returns an image returns all it was asked for, whoever  *)
(* rendered it, unless a render of that image failed.                      *)
ReturnedImageIsPainted ==
    (\A u \in Renders : result[u] # "failed")
        => \A t \in Renders : result[t] = "ok" => roi[t] \subseteq painted

(* A render returns, though it waits for others.                           *)
RendersReturn ==
    \A t \in Renders : pc[t] = "found" ~> pc[t] = "done"

-----------------------------------------------------------------------------
(* What the code says of itself, and does not do                           *)

(* A render sleeps while another one is at the pixels it waits for, which  *)
(* will wake it: "probably because ibr->refCount == 1, but in this case    *)
(* isBeingRenderedElseWhere should be false".  Two renders that read the   *)
(* bitmap before the lock, and wait after the third one left, both sleep.  *)
SleepersHaveAWaker ==
    (\E t \in Renders : pc[t] = "asleep")
        => \E u \in Renders : Inside(u) /\ pc[u] # "asleep"

(* "in this case isBeingRenderedElseWhere should be false. If this assert  *)
(* is triggered [...] this is a serious bug in the trimap system": what    *)
(* was read before the lock may be over when the wait does not take place. *)
WaitEndsWithNothingPending ==
    \A t \in Renders : pc[t] = "conclude" => ~call[t].tile \/ ibr.failed

(* "there should never be 2 threads running concurrently renderHandler for *)
(* the same roi on the same image"                                         *)
NoPixelRenderedByTwo ==
    \A t, u \in Renders \ Abortable :
        t # u /\ pc[t] = "render" /\ pc[u] = "render" => call[t].rect \cap call[u].rect = {}

(* "Kindly check that everything we asked for is rendered!"                *)
EverythingAskedIsRendered ==
    \A t \in Renders \ Abortable :
        pc[t] = "check" /\ result[t] = "none" /\ call[t].some
            => \A p \in roi[t] : bitmap[p] = 1
=============================================================================
