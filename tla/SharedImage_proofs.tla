-------------------------- MODULE SharedImage_proofs --------------------------
(* Theorems about SharedImage, for any renders, any row of pixels and any    *)
(* regions.  The invariants come in layers, each proved with those before    *)
(* it: the type and the count of renders (Counted), the shape of the locals  *)
(* of a render (Shape), what the bitmap says (BitmapIsTrue), what is left to *)
(* a render that no failure disturbs (Progress).                             *)
EXTENDS SharedImage, FiniteSetTheorems, TLAPS

USE SharedImageAssumption

Insiders == {t \in Renders : Inside(t)}

Waiting == {"evaluated", "asleep", "woken", "conclude"}
AbortablesDoNotWait == \A t \in Abortable : pc[t] \notin Waiting

Counted == TypeOK /\ CountIsRendersInside /\ AbortablesDoNotWait

Outside == {"idle", "found", "check", "done"}

-----------------------------------------------------------------------------
(* Operators                                                                 *)

(* A box holds the missing pixels of its region, and nothing outside of it.  *)
LEMMA BboxHoldsLacking ==
  ASSUME NEW S \in SUBSET Pixels, NEW lacking
  PROVE  /\ \A p \in S : bitmap[p] \in lacking => p \in Bbox(S, lacking)
         /\ Bbox(S, lacking) \subseteq Pixels
         /\ BoxX(S, lacking) \subseteq Pixels
         /\ Convex(S) => Bbox(S, lacking) \subseteq S
<1>1. \A p \in Pixels : p <= p
  OBVIOUS
<1>2. \A p \in S : bitmap[p] \in lacking => p \in Bbox(S, lacking)
  BY <1>1 DEF Bbox, Hull
<1>3. Bbox(S, lacking) \subseteq Pixels /\ BoxX(S, lacking) \subseteq Pixels
  BY DEF Bbox, BoxX, Hull
<1>4. Convex(S) => Bbox(S, lacking) \subseteq S
  BY DEF Bbox, Hull, Convex
<1>. QED
  BY <1>2, <1>3, <1>4

(* What a hull spans is an interval.                                         *)
LEMMA HullIsConvex ==
  ASSUME NEW S \in SUBSET Pixels
  PROVE  Convex(Hull(S))
<1> SUFFICES ASSUME NEW a \in Hull(S), NEW b \in Hull(S), NEW p \in Pixels,
                    a <= p, p <= b
             PROVE  p \in Hull(S)
  BY DEF Convex
<1>1. PICK a1 \in S : a1 <= a
  BY DEF Hull
<1>2. PICK b1 \in S : b <= b1
  BY DEF Hull
<1>3. a \in Nat /\ b \in Nat /\ p \in Nat /\ a1 \in Nat /\ b1 \in Nat
  BY DEF Hull
<1>4. a1 <= p /\ p <= b1
  BY <1>1, <1>2, <1>3
<1>. QED
  BY <1>4 DEF Hull

(* The rectangles to render are intervals of pixels.                         *)
LEMMA RectsAreIntervals ==
  ASSUME NEW S \in SUBSET Pixels, NEW lacking
  PROVE  /\ Rects(S, lacking) \in SUBSET SUBSET Pixels
         /\ \A R \in Rects(S, lacking) : Convex(R)
<1> DEFINE M == Bbox(S, lacking)
           X == BoxX(S, lacking)
           C == {p \in M : \A x \in X : p < x}
           D == {p \in M : \A x \in X : p > x}
<1>1. M \subseteq Pixels /\ X \subseteq Pixels /\ Bbox(X, lacking) \subseteq Pixels
  BY BboxHoldsLacking, ZenonT(30)
<1>2. Convex(M) /\ Convex(Bbox(X, lacking))
  <2>1. {p \in S : bitmap[p] \in lacking} \in SUBSET Pixels
    OBVIOUS
  <2>2. {p \in X : bitmap[p] \in lacking} \in SUBSET Pixels
    BY <1>1
  <2>. QED
    BY <2>1, <2>2, HullIsConvex DEF Bbox
<1>3. Rects(S, lacking) \subseteq {C, D, Bbox(X, lacking)}
  BY DEF Rects
<1>4. Convex(C)
  <2> SUFFICES ASSUME NEW a \in C, NEW b \in C, NEW p \in Pixels, a <= p, p <= b
               PROVE  p \in C
    BY DEF Convex
  <2>1. p \in M
    BY <1>2 DEF Convex
  <2>2. \A x \in X : p < x
    <3> SUFFICES ASSUME NEW x \in X PROVE p < x
      OBVIOUS
    <3>1. b < x /\ b \in Nat /\ x \in Nat /\ p \in Nat
      BY <1>1
    <3>. QED
      BY <3>1
  <2>. QED
    BY <2>1, <2>2
<1>5. Convex(D)
  <2> SUFFICES ASSUME NEW a \in D, NEW b \in D, NEW p \in Pixels, a <= p, p <= b
               PROVE  p \in D
    BY DEF Convex
  <2>1. p \in M
    BY <1>2 DEF Convex
  <2>2. \A x \in X : p > x
    <3> SUFFICES ASSUME NEW x \in X PROVE p > x
      OBVIOUS
    <3>1. a > x /\ a \in Nat /\ x \in Nat /\ p \in Nat
      BY <1>1
    <3>. QED
      BY <3>1
  <2>. QED
    BY <2>1, <2>2
<1>6. C \subseteq Pixels /\ D \subseteq Pixels
  BY <1>1
<1> HIDE DEF C, D, M, X
<1>. QED
  BY <1>1, <1>2, <1>3, <1>4, <1>5, <1>6, ZenonT(30)

(* The rectangles cover every pixel that is missing.                         *)
LEMMA RectsCoverLacking ==
  ASSUME NEW S \in SUBSET Pixels, NEW lacking,
         NEW p \in S, bitmap[p] \in lacking
  PROVE  p \in UNION Rects(S, lacking)
<1> DEFINE M == Bbox(S, lacking)
           H == {q \in M : bitmap[q] \notin lacking}
           X == BoxX(S, lacking)
           C == {q \in M : \A x \in X : q < x}
           D == {q \in M : \A x \in X : q > x}
<1>1. p \in M
  BY BboxHoldsLacking
<1>2. X = Hull(H) /\ X \subseteq Pixels
  BY BboxHoldsLacking DEF BoxX
<1>3. p \in C \/ p \in D \/ p \in X
  <2> SUFFICES ASSUME NEW x \in X, ~(p < x), NEW y \in X, ~(p > y)
               PROVE  p \in X
    BY <1>1
  <2>1. PICK a \in H : a <= x
    BY <1>2 DEF Hull
  <2>2. PICK b \in H : y <= b
    BY <1>2 DEF Hull
  <2>3. a \in Nat /\ b \in Nat /\ x \in Nat /\ y \in Nat /\ p \in Nat
    BY <1>2, BboxHoldsLacking
  <2>4. a <= p /\ p <= b
    BY <2>1, <2>2, <2>3
  <2>. QED
    BY <1>2, <2>4 DEF Hull
<1>4. p \in X => p \in Bbox(X, lacking)
  BY <1>2, BboxHoldsLacking
<1>5. Rects(S, lacking) = {C, D, Bbox(X, lacking)} \ {{}}
  BY DEF Rects
<1>. QED
  BY <1>3, <1>4, <1>5

(* A pixel that another render is at, and that no rectangle holds, flags the *)
(* region as rendered elsewhere.                                             *)
LEMMA RectsFlagTheRest ==
  ASSUME NEW S \in SUBSET Pixels, NEW p \in S, bitmap[p] = 2,
         p \notin UNION Rects(S, {0})
  PROVE  RectsElsewhere(S, {0})
<1> DEFINE M == Bbox(S, {0})
           X == BoxX(S, {0})
<1>1. CASE p \notin M
  BY <1>1 DEF RectsElsewhere, BboxElsewhere
<1>2. CASE p \in M
  <2>1. p \in X
    BY <1>2 DEF BoxX, Hull
  <2>2. p \notin Bbox(X, {0})
    BY DEF Rects
  <2>. QED
    BY <2>1, <2>2 DEF RectsElsewhere, BboxElsewhere
<1>. QED
  BY <1>1, <1>2

(* When nothing is missing and nothing flagged, nobody renders in the region.*)
LEMMA NothingElsewhere ==
  ASSUME NEW S \in SUBSET Pixels, ~RectsElsewhere(S, {0}),
         \A p \in S : bitmap[p] # 0
  PROVE  \A p \in S : bitmap[p] # 2
<1>1. Bbox(S, {0}) = {}
  BY DEF Bbox, Hull
<1>. QED
  BY <1>1 DEF RectsElsewhere, BboxElsewhere

-----------------------------------------------------------------------------
(* Steps                                                                     *)

(* A render changes its own locals only; it may wake the others.             *)
LEMMA OthersKeep ==
  ASSUME TypeOK, NEW t \in Renders, LookUp(t) \/ Step(t),
         NEW u \in Renders \ {t}
  PROVE  /\ roi'[u] = roi[u] /\ result'[u] = result[u] /\ call'[u] = call[u]
         /\ pc'[u] = pc[u] \/ (pc[u] = "asleep" /\ pc'[u] = "woken")
<1> USE DEF TypeOK, Go, GoAndWake, Return, TileDone
<1>1. CASE LookUp(t)
  BY <1>1 DEF LookUp
<1>2. CASE MarkImageAsBeingRendered(t) \/ AlreadyRendered(t)
  BY <1>2 DEF MarkImageAsBeingRendered, AlreadyRendered
<1>3. CASE \E S \in call[t].todo : Shrink(t, S)
  BY <1>3 DEF Shrink
<1>4. CASE Claim(t) \/ RenderRect(t)
  BY <1>4 DEF Claim, RenderRect
<1>5. CASE Fail(t)
  BY <1>5 DEF Fail
<1>6. CASE UnmarkImageAsBeingRendered(t) \/ EvaluateBeforeWait(t) \/ EndAbortable(t)
  BY <1>6 DEF UnmarkImageAsBeingRendered, EvaluateBeforeWait, EndAbortable
<1>7. CASE Wait(t) \/ WakeUp(t)
  BY <1>7 DEF Wait, WakeUp
<1>8. CASE Conclude(t) \/ Terminate(t)
  BY <1>8, ZenonT(30) DEF Conclude, Terminate
<1>. QED
  BY <1>1, <1>2, <1>3, <1>4, <1>5, <1>6, <1>7, <1>8 DEF Step

(* The move of a render makes it enter the image, leave it, or neither.      *)
LEMMA Moved ==
  ASSUME TypeOK, NEW t \in Renders, NEW l \in Labels, Go(t, l) \/ GoAndWake(t, l)
  PROVE  /\ pc' \in [Renders -> Labels] /\ pc'[t] = l
         /\ Inside(t)' <=> t \notin Abortable /\ l \notin Outside
         /\ \A u \in Renders \ {t} : Inside(u)' <=> Inside(u)
BY DEF TypeOK, Go, GoAndWake, Inside, Outside, Labels

(* ... and the set of those inside follows.                                  *)
LEMMA InsidersAfter ==
  ASSUME TypeOK, NEW t \in Renders, NEW l \in Labels, Go(t, l) \/ GoAndWake(t, l)
  PROVE  /\ (Inside(t)' <=> Inside(t)) => Insiders' = Insiders
         /\ ~Inside(t) /\ Inside(t)' =>
              Cardinality(Insiders') = Cardinality(Insiders) + 1
         /\ Inside(t) /\ ~Inside(t)' =>
              Cardinality(Insiders') = Cardinality(Insiders) - 1
         /\ Cardinality(Insiders) \in Nat
         /\ Inside(t) => Cardinality(Insiders) >= 1
<1>1. \A u \in Renders \ {t} : Inside(u)' <=> Inside(u)
  BY Moved
<1>2. IsFiniteSet(Insiders)
  BY FS_Subset DEF Insiders
<1>3. (Inside(t)' <=> Inside(t)) => Insiders' = Insiders
  BY <1>1 DEF Insiders
<1>4. ASSUME ~Inside(t), Inside(t)'
      PROVE  Cardinality(Insiders') = Cardinality(Insiders) + 1
  <2>1. Insiders' = Insiders \cup {t} /\ t \notin Insiders
    BY <1>1, <1>4 DEF Insiders
  <2>. QED
    BY <1>2, <2>1, FS_AddElement
<1>5. ASSUME Inside(t), ~Inside(t)'
      PROVE  Cardinality(Insiders') = Cardinality(Insiders) - 1
  <2>1. Insiders' = Insiders \ {t} /\ t \in Insiders
    BY <1>1, <1>5 DEF Insiders
  <2>. QED
    BY <1>2, <2>1, FS_RemoveElement
<1>6. Cardinality(Insiders) \in Nat
  BY <1>2, FS_CardinalityType
<1>7. ASSUME Inside(t) PROVE Cardinality(Insiders) >= 1
  BY <1>2, <1>6, <1>7, FS_EmptySet DEF Insiders
<1>. QED
  BY <1>3, <1>4, <1>5, <1>6, <1>7

(* Two different renders inside make a count of two at least.                *)
LEMMA TwoInside ==
  ASSUME CountIsRendersInside, NEW t \in Insiders, NEW u \in Insiders, t # u
  PROVE  ibr.count \in Nat /\ ibr.count > 1
<1>1. IsFiniteSet({t}) /\ Cardinality({t}) = 1
  BY FS_Singleton
<1>2. PICK P : P = {t} \cup {u}
  OBVIOUS
<1>3. Cardinality(P) = 1 + 1
  <2>1. u \notin {t}
    OBVIOUS
  <2>2. Cardinality({t} \cup {u}) = 1 + 1
    BY <1>1, <2>1, FS_AddElement
  <2>. QED
    BY <1>2, <2>2, Zenon
<1>4. IsFiniteSet(Insiders)
  BY FS_Subset DEF Insiders
<1>5. Cardinality(P) <= Cardinality(Insiders)
  <2>1. P \in SUBSET Insiders
    BY <1>2
  <2>. QED
    BY <1>4, <2>1, FS_Subset
<1>6. ibr.count = Cardinality(Insiders) /\ Cardinality(Insiders) \in Nat
  BY <1>4, FS_CardinalityType DEF CountIsRendersInside, Insiders
<1>. QED
  BY <1>3, <1>5, <1>6

-----------------------------------------------------------------------------
(* Types, and the count of renders                                           *)

(* The entry of the image is left by a render that is inside.                *)
LEMMA LeaveKeepsCount ==
  ASSUME Counted, NEW t \in Renders, Inside(t), NEW b \in BOOLEAN, LeaveImage(b),
         GoAndWake(t, "check")
  PROVE  ibr' \in [count : Nat, failed : BOOLEAN] /\ CountIsRendersInside'
<1>1. "check" \in Labels /\ "check" \in Outside
  BY DEF Labels, Outside
<1>2. ~Inside(t)'
  BY <1>1, Moved DEF Counted
<1>3. /\ Cardinality(Insiders') = Cardinality(Insiders) - 1
      /\ Cardinality(Insiders) \in Nat /\ Cardinality(Insiders) >= 1
  BY <1>1, <1>2, InsidersAfter DEF Counted
<1>4. ibr.count = Cardinality(Insiders)
  BY DEF Counted, CountIsRendersInside, Insiders
<1>5. /\ ibr' \in [count : Nat, failed : BOOLEAN]
      /\ ibr'.count = ibr.count - 1
  BY <1>3, <1>4 DEF LeaveImage, NotInUse, Counted, TypeOK
<1>6. Cardinality(Insiders') = ibr'.count
  BY <1>3, <1>4, <1>5
<1>. QED
  BY <1>5, <1>6 DEF CountIsRendersInside, Insiders

(* A step that leaves the entry alone, by a render that stays where it is.   *)
LEMMA StayKeepsCount ==
  ASSUME Counted, NEW t \in Renders, NEW l \in Labels, Go(t, l) \/ GoAndWake(t, l),
         Inside(t) <=> t \notin Abortable /\ l \notin Outside, ibr' = ibr
  PROVE  CountIsRendersInside'
<1>1. Inside(t)' <=> Inside(t)
  BY Moved DEF Counted
<1>2. Insiders' = Insiders
  BY <1>1, InsidersAfter DEF Counted
<1>. QED
  BY <1>2 DEF Counted, CountIsRendersInside, Insiders

(* A render may change its own locals to any other locals.                   *)
LEMMA LocalsUpdate ==
  ASSUME TypeOK, NEW t \in Renders, call'[t] \in Locals,
         call' = [call EXCEPT ![t] = call'[t]]
  PROVE  call' \in [Renders -> Locals]
BY DEF TypeOK

(* An abortable render does not go to wait for the others.                   *)
LEMMA StepKeepsAbortables ==
  ASSUME TypeOK, AbortablesDoNotWait, NEW t \in Renders, LookUp(t) \/ Step(t)
  PROVE  AbortablesDoNotWait'
<1>1. \A u \in Renders \ {t} : pc'[u] = pc[u] \/ pc[u] = "asleep"
  BY OthersKeep
<1>2. t \in Abortable => pc'[t] \notin Waiting
  BY ZenonT(30) DEF TypeOK, AbortablesDoNotWait, Waiting, Go, GoAndWake, Step, LookUp,
         MarkImageAsBeingRendered, AlreadyRendered, Shrink, Claim, RenderRect, Fail,
         UnmarkImageAsBeingRendered, EvaluateBeforeWait, Wait, WakeUp, Conclude,
         EndAbortable, Terminate
<1>. QED
  BY <1>1, <1>2 DEF AbortablesDoNotWait, Waiting

(* The types, and the count, of a step of a render.                          *)
LEMMA StepKeepsCount ==
  ASSUME Counted, NEW t \in Renders, (LookUp(t) /\ UNCHANGED tiles) \/ Step(t)
  PROVE  TypeOK' /\ CountIsRendersInside'
<1> USE DEF Counted
<1>a. Labels = {"idle", "found", "next", "shrunk", "render", "evaluated",
                "asleep", "woken", "conclude", "check", "done"}
  BY DEF Labels
<1>b. Outside = {"idle", "found", "check", "done"}
  BY DEF Outside
<1>c. NoLocals \in Locals /\ call[t] \in Locals
  BY DEF NoLocals, Locals, TypeOK
<1>1. CASE LookUp(t) /\ UNCHANGED tiles
  <2>1. PICK S \in (IF tiles THEN RoIs ELSE {Pixels}) :
          LET rest == IF cached THEN Rects(S, Lacking(t)) ELSE {S}
          IN /\ roi' = [roi EXCEPT ![t] = S]
             /\ call' = [call EXCEPT ![t].some = rest # {},
                           ![t].todo = IF tiles \/ rest = {} THEN rest ELSE {Pixels},
                           ![t].elsewhere = cached /\ RectsElsewhere(S, Lacking(t))]
    BY <1>1 DEF LookUp
  <2>2. S \in SUBSET Pixels
    BY <2>1
  <2>3. (IF cached THEN Rects(S, Lacking(t)) ELSE {S}) \in SUBSET SUBSET Pixels
    BY <2>2, RectsAreIntervals
  <2>4. call' \in [Renders -> Locals]
    <3>1. call' = [call EXCEPT ![t] = call'[t]]
      BY <2>1, <2>3 DEF TypeOK
    <3>2. call'[t] \in Locals
      <4>1. PICK b1 \in BOOLEAN, b2 \in BOOLEAN, T \in SUBSET SUBSET Pixels :
              call'[t] = [call[t] EXCEPT !.some = b1, !.todo = T, !.elsewhere = b2]
        <5> DEFINE rest == IF cached THEN Rects(S, Lacking(t)) ELSE {S}
                   todo == IF tiles \/ rest = {} THEN rest ELSE {Pixels}
                   b1 == rest # {}
                   b2 == cached /\ RectsElsewhere(S, Lacking(t))
        <5>1. todo \in SUBSET SUBSET Pixels
          BY <2>3
        <5>2. b1 \in BOOLEAN /\ b2 \in BOOLEAN
          BY DEF RectsElsewhere
        <5>3. call'[t] = [call[t] EXCEPT !.some = b1, !.todo = todo, !.elsewhere = b2]
          BY <2>1 DEF TypeOK
        <5> HIDE DEF b1, b2, todo
        <5>. QED
          BY <5>1, <5>2, <5>3
      <4>. QED
        BY <1>c, <4>1, ZenonT(30) DEF Locals
    <3>. QED
      BY <3>1, <3>2, LocalsUpdate
  <2>5. TypeOK'
    BY <1>1, <1>a, <2>1, <2>2, <2>4 DEF LookUp, TypeOK, Go, imageVars
  <2>. QED
    BY <1>1, <1>a, <1>b, <2>5, StayKeepsCount DEF LookUp, Inside
<1>2. CASE MarkImageAsBeingRendered(t) /\ UNCHANGED tiles
  <2>1. TypeOK'
    BY <1>2, <1>a DEF MarkImageAsBeingRendered, TypeOK, Go
  <2>2. CASE t \in Abortable
    BY <1>2, <1>a, <1>b, <2>1, <2>2, StayKeepsCount
       DEF MarkImageAsBeingRendered, Inside
  <2>3. CASE t \notin Abortable
    <3>1. ~Inside(t) /\ Inside(t)'
      BY <1>2, <1>a, <1>b, <2>3, Moved DEF MarkImageAsBeingRendered, Inside
    <3>2. Cardinality(Insiders') = Cardinality(Insiders) + 1
      BY <1>2, <1>a, <3>1, InsidersAfter DEF MarkImageAsBeingRendered
    <3>3. ibr'.count = ibr.count + 1
      BY <1>2, <2>3 DEF MarkImageAsBeingRendered, TypeOK
    <3>. QED
      BY <2>1, <3>2, <3>3 DEF CountIsRendersInside, Insiders
  <2>. QED
    BY <2>2, <2>3
<1>3. CASE AlreadyRendered(t) /\ UNCHANGED tiles
  <2>1. TypeOK'
    BY <1>3, <1>a, <1>c DEF AlreadyRendered, TypeOK, Go, Return, imageVars
  <2>. QED
    BY <1>3, <1>a, <1>b, <2>1, StayKeepsCount DEF AlreadyRendered, Inside
<1>4. CASE (\E S \in call[t].todo : Shrink(t, S)) /\ UNCHANGED tiles
  <2>1. PICK S \in call[t].todo : Shrink(t, S)
    BY <1>4
  <2>2. S \in SUBSET Pixels
    BY <1>c DEF Locals
  <2>3. (IF tiles THEN Bbox(S, Lacking(t)) ELSE S) \in SUBSET Pixels
    <3>1. Bbox(S, Lacking(t)) \subseteq Pixels
      BY <2>2, BboxHoldsLacking
    <3>. QED
      BY <2>2, <3>1
  <2>4. call' \in [Renders -> Locals]
    <3>1. call' = [call EXCEPT ![t] = call'[t]]
      BY <2>1, <2>2, <2>3 DEF Shrink, TypeOK
    <3>2. call'[t] \in Locals
      <4> DEFINE b == tiles /\ BboxElsewhere(S, Lacking(t))
      <4>1. PICK T \in SUBSET SUBSET Pixels, R1 \in SUBSET Pixels, R2 \in SUBSET Pixels :
              call'[t] = [some |-> call[t].some, todo |-> T, elsewhere |-> call[t].elsewhere,
                          claim |-> R1, rect |-> R2, tile |-> b]
        <5> DEFINE box == IF tiles THEN Bbox(S, Lacking(t)) ELSE S
                   T == call[t].todo \ {S}
                   R1 == IF t \in Abortable \/ (t \in Identities /\ ~tiles) THEN {} ELSE box
                   R2 == IF t \in Proxies THEN box ELSE S
        <5>1. R1 \in SUBSET Pixels /\ R2 \in SUBSET Pixels
          BY <2>2, <2>3
        <5>2. T \in SUBSET SUBSET Pixels
          BY <1>c DEF Locals
        <5>3. call'[t] = [some |-> call[t].some, todo |-> T, elsewhere |-> call[t].elsewhere,
                          claim |-> R1, rect |-> R2, tile |-> b]
          <6>1. call'[t] = [call[t] EXCEPT !.todo = T, !.claim = R1, !.rect = R2, !.tile = b]
            BY <2>1 DEF Shrink, TypeOK
          <6> HIDE DEF T, R1, R2, b
          <6>. QED
            BY <1>c, <6>1 DEF Locals
        <5> HIDE DEF T, R1, R2
        <5>. QED
          BY <5>1, <5>2, <5>3
      <4>2. b \in BOOLEAN
        BY DEF BboxElsewhere
      <4> HIDE DEF b
      <4>. QED
        BY <1>c, <4>1, <4>2 DEF Locals
    <3>. QED
      BY <3>1, <3>2, LocalsUpdate
  <2>5. TypeOK'
    BY <1>4, <1>a, <2>1, <2>4 DEF Shrink, TypeOK, Go, imageVars
  <2>. QED
    BY <2>1, <1>a, <1>b, <2>5, StayKeepsCount DEF Shrink, Inside
<1>5. CASE Claim(t) /\ UNCHANGED tiles
  <2>1. call' \in [Renders -> Locals]
    <3>1. call' = [call EXCEPT ![t] = call'[t]]
      BY <1>5 DEF Claim, TileDone, TypeOK
    <3>2. call'[t] \in Locals
      BY <1>5, <1>c DEF Claim, TileDone, TypeOK, Locals
    <3>. QED
      BY <3>1, <3>2, LocalsUpdate
  <2>2. bitmap' \in [Pixels -> 0..2]
    BY <1>5 DEF Claim, Mark, TypeOK
  <2>3. TypeOK'
    BY <1>5, <1>a, <2>1, <2>2 DEF Claim, TypeOK, Go
  <2>. QED
    BY <1>5, <1>a, <1>b, <2>3, StayKeepsCount DEF Claim, Inside
<1>6. CASE RenderRect(t) /\ UNCHANGED tiles
  <2>1. call' \in [Renders -> Locals]
    <3>1. call' = [call EXCEPT ![t] = call'[t]]
      BY <1>6 DEF RenderRect, TileDone, TypeOK
    <3>2. call'[t] \in Locals
      BY <1>6, <1>c DEF RenderRect, TileDone, TypeOK, Locals
    <3>. QED
      BY <3>1, <3>2, LocalsUpdate
  <2>2. bitmap' \in [Pixels -> 0..2]
    BY <1>6 DEF RenderRect, Mark, TypeOK
  <2>3. painted' \subseteq Pixels
    BY <1>6, <1>c DEF RenderRect, TypeOK, Locals
  <2>4. TypeOK'
    BY <1>6, <1>a, <2>1, <2>2, <2>3 DEF RenderRect, TypeOK, Go
  <2>. QED
    BY <1>6, <1>a, <1>b, <2>4, StayKeepsCount DEF RenderRect, Inside
<1>7. CASE Fail(t) /\ UNCHANGED tiles
  <2>1. call' \in [Renders -> Locals]
    <3>1. call' = [call EXCEPT ![t] = call'[t]]
      BY <1>7 DEF Fail, TypeOK
    <3>2. call'[t] \in Locals
      BY <1>7, <1>c DEF Fail, TypeOK, Locals
    <3>. QED
      BY <3>1, <3>2, LocalsUpdate
  <2>2. bitmap' \in [Pixels -> 0..2]
    BY <1>7 DEF Fail, Cleared, Mark, TypeOK
  <2>3. TypeOK'
    BY <1>7, <1>a, <2>1, <2>2 DEF Fail, TypeOK, Go
  <2>. QED
    BY <1>7, <1>a, <1>b, <2>3, StayKeepsCount DEF Fail, Inside
<1>8. CASE UnmarkImageAsBeingRendered(t) /\ UNCHANGED tiles
  <2>1. Inside(t)
    BY <1>8 DEF UnmarkImageAsBeingRendered, Over, Inside
  <2>2. (result[t] = "failed") \in BOOLEAN
    OBVIOUS
  <2>3. ibr' \in [count : Nat, failed : BOOLEAN] /\ CountIsRendersInside'
    BY <1>8, <2>1, <2>2, LeaveKeepsCount DEF UnmarkImageAsBeingRendered
  <2>4. pc' \in [Renders -> Labels]
    BY <1>8, <1>a, Moved DEF UnmarkImageAsBeingRendered
  <2>. QED
    BY <1>8, <2>3, <2>4 DEF UnmarkImageAsBeingRendered, TypeOK, imageVars
<1>9. CASE EvaluateBeforeWait(t) /\ UNCHANGED tiles
  <2>1. call' \in [Renders -> Locals]
    <3>1. call' = [call EXCEPT ![t] = call'[t]]
      BY <1>9 DEF EvaluateBeforeWait, TypeOK
    <3>2. call'[t] \in Locals
      BY <1>9, <1>c DEF EvaluateBeforeWait, TypeOK, Locals, RectsElsewhere, BboxElsewhere
    <3>. QED
      BY <3>1, <3>2, LocalsUpdate
  <2>2. TypeOK'
    BY <1>9, <1>a, <2>1 DEF EvaluateBeforeWait, TypeOK, Go, imageVars
  <2>. QED
    BY <1>9, <1>a, <1>b, <2>2, StayKeepsCount DEF EvaluateBeforeWait, Over, Inside
<1>10. CASE Wait(t) /\ UNCHANGED tiles
  <2>1. TypeOK'
    BY <1>10, <1>a DEF Wait, TypeOK, Go, imageVars
  <2>. QED
    BY <1>10, <1>a, <1>b, <2>1, StayKeepsCount DEF Wait, Inside
<1>11. CASE WakeUp(t) /\ UNCHANGED tiles
  <2>1. call' \in [Renders -> Locals]
    <3>1. call' = [call EXCEPT ![t] = call'[t]]
      BY <1>11 DEF WakeUp, TypeOK
    <3>2. call'[t] \in Locals
      BY <1>11, <1>c DEF WakeUp, TypeOK, Locals, RectsElsewhere, BboxElsewhere
    <3>. QED
      BY <3>1, <3>2, LocalsUpdate
  <2>2. TypeOK'
    BY <1>11, <1>a, <2>1 DEF WakeUp, TypeOK, Go, imageVars
  <2>. QED
    BY <1>11, <1>a, <1>b, <2>2, StayKeepsCount DEF WakeUp, Inside
<1>12. CASE Conclude(t) /\ UNCHANGED tiles
  <2>1. Inside(t)
    BY <1>12 DEF Conclude, Inside, AbortablesDoNotWait, Waiting
  <2>2. ibr' \in [count : Nat, failed : BOOLEAN] /\ CountIsRendersInside'
    BY <1>12, <2>1, LeaveKeepsCount DEF Conclude
  <2>3. pc' \in [Renders -> Labels]
    BY <1>12, <1>a, Moved DEF Conclude
  <2>4. result' \in [Renders -> {"none", "ok", "failed", "aborted"}]
    BY <1>12 DEF Conclude, TypeOK
  <2>. QED
    BY <1>12, <2>2, <2>3, <2>4 DEF Conclude, TypeOK, imageVars
<1>13. CASE EndAbortable(t) /\ UNCHANGED tiles
  <2>1. TypeOK'
    BY <1>13, <1>a DEF EndAbortable, TypeOK, Go, imageVars
  <2>. QED
    BY <1>13, <1>a, <1>b, <2>1, StayKeepsCount DEF EndAbortable, Over, Inside
<1>14. CASE Terminate(t) /\ UNCHANGED tiles
  <2>1. TypeOK'
    BY <1>14, <1>a, <1>c DEF Terminate, TypeOK, Go, Return, imageVars
  <2>. QED
    BY <1>14, <1>a, <1>b, <2>1, StayKeepsCount DEF Terminate, Inside
<1>. QED
  BY <1>1, <1>2, <1>3, <1>4, <1>5, <1>6, <1>7, <1>8, <1>9, <1>10, <1>11, <1>12,
     <1>13, <1>14 DEF Step

(* The entry of the image counts the renders that use it: none of them is    *)
(* left without it by another one (EffectInstance::Implementation's          *)
(* markImageAsBeingRendered, unmarkImageAsBeingRendered).                    *)
THEOREM CountCorrect == Spec => []Counted
<1>1. Init => Counted
  <2> SUFFICES ASSUME Init PROVE Counted
    OBVIOUS
  <2>1. NoLocals \in Locals
    BY DEF NoLocals, Locals
  <2>2. TypeOK
    <3>1. tiles \in BOOLEAN /\ ibr \in [count : Nat, failed : BOOLEAN]
      BY DEF Init, NotInUse
    <3>2. bitmap \in [Pixels -> 0..2] /\ cached \in BOOLEAN /\ painted \subseteq Pixels
      <4>1. 0 \in 0..2
        OBVIOUS
      <4>. QED
        BY <4>1 DEF Init
    <3>3. /\ pc \in [Renders -> Labels] /\ roi \in [Renders -> SUBSET Pixels]
          /\ result \in [Renders -> {"none", "ok", "failed", "aborted"}]
      BY DEF Init, Labels
    <3>4. call \in [Renders -> Locals]
      BY <2>1 DEF Init
    <3>. QED
      BY <3>1, <3>2, <3>3, <3>4 DEF TypeOK
  <2>3. {t \in Renders : Inside(t)} = {} /\ AbortablesDoNotWait
    BY DEF Init, Inside, AbortablesDoNotWait, Waiting
  <2>4. CountIsRendersInside
    BY <2>3, FS_EmptySet DEF Init, CountIsRendersInside, NotInUse
  <2>. QED
    BY <2>2, <2>3, <2>4 DEF Counted
<1>2. Counted /\ [Next]_vars => Counted'
  <2>1. ASSUME Counted, Next PROVE Counted'
    <3>1. PICK t \in Renders : (LookUp(t) /\ UNCHANGED tiles) \/ Step(t)
      BY <2>1 DEF Next
    <3>2. TypeOK' /\ CountIsRendersInside'
      BY <2>1, <3>1, StepKeepsCount
    <3>3. AbortablesDoNotWait'
      BY <2>1, <3>1, StepKeepsAbortables DEF Counted
    <3>. QED
      BY <3>2, <3>3 DEF Counted
  <2>2. ASSUME Counted, UNCHANGED vars PROVE Counted'
    BY <2>2 DEF Counted, TypeOK, CountIsRendersInside, AbortablesDoNotWait, Inside,
       vars, imageVars
  <2>. QED
    BY <2>1, <2>2
<1>. QED
  BY <1>1, <1>2, PTL DEF Spec

-----------------------------------------------------------------------------
(* The shape of the locals                                                   *)

(* What a render holds at each label: its rectangles are intervals, what it  *)
(* marks is in what it renders, and a result that is not OK ends its work.   *)
ShapeOf(t) ==
    /\ \A S \in call[t].todo : Convex(S)
    /\ call[t].claim \subseteq call[t].rect
    /\ pc[t] \notin {"shrunk", "render"} => call[t].rect = {}
    /\ pc[t] \in {"idle", "found", "next"} => ~call[t].tile
    /\ pc[t] \in {"idle", "found"} => result[t] = "none"
    /\ pc[t] = "found" /\ ~call[t].some => call[t].todo = {}
    /\ pc[t] # "done" => result[t] # "ok"
    /\ t \in Abortable => ~call[t].elsewhere /\ ~call[t].tile /\ call[t].claim = {}
    /\ t \notin Abortable /\ pc[t] \notin {"check", "done"} => result[t] # "aborted"
    /\ pc[t] \in {"shrunk", "render"} => result[t] = "none"
    /\ result[t] \in {"aborted", "failed"} => call[t].todo = {} /\ call[t].rect = {}
    /\ pc[t] \in Waiting => result[t] = "none" /\ call[t].todo = {}

Shape == \A t \in Renders : ShapeOf(t)

(* The shape is kept by the render that takes a step...                      *)
LEMMA StepKeepsOwnShape ==
  ASSUME Counted, Counted', NEW t \in Renders, ShapeOf(t), LookUp(t) \/ Step(t)
  PROVE  ShapeOf(t)'
<1> USE DEF ShapeOf, Counted, TypeOK, Waiting
<1>a. call[t] \in Locals
  OBVIOUS
<1>b. Convex({}) /\ Convex(Pixels)
  BY DEF Convex
<1>1. CASE LookUp(t)
  <2>1. PICK S \in (IF tiles THEN RoIs ELSE {Pixels}) :
          LET rest == IF cached THEN Rects(S, Lacking(t)) ELSE {S}
          IN call' = [call EXCEPT ![t].some = rest # {},
                        ![t].todo = IF tiles \/ rest = {} THEN rest ELSE {Pixels},
                        ![t].elsewhere = cached /\ RectsElsewhere(S, Lacking(t))]
    BY <1>1, ZenonT(40) DEF LookUp
  <2> DEFINE rest == IF cached THEN Rects(S, Lacking(t)) ELSE {S}
  <2>2. Convex(S) /\ S \in SUBSET Pixels
    BY <1>b, <2>1
  <2>3. \A R \in rest : Convex(R)
    <3>1. \A R \in Rects(S, Lacking(t)) : Convex(R)
      BY <2>2, RectsAreIntervals
    <3>. QED
      BY <2>2, <3>1
  <2>4. call'[t] = [call[t] EXCEPT !.some = (rest # {}),
                      !.todo = IF tiles \/ rest = {} THEN rest ELSE {Pixels},
                      !.elsewhere = (cached /\ RectsElsewhere(S, Lacking(t)))]
    BY <2>1
  <2>5. t \in Abortable => ~RectsElsewhere(S, Lacking(t))
    BY DEF RectsElsewhere, BboxElsewhere, Lacking
  <2>6. pc[t] = "idle" /\ pc'[t] = "found" /\ result' = result
    BY <1>1 DEF LookUp, Go
  <2>7. \A R \in call'[t].todo : Convex(R)
    BY <1>a, <1>b, <2>3, <2>4 DEF Locals
  <2>8. /\ call'[t].claim = call[t].claim /\ call'[t].rect = call[t].rect
        /\ call'[t].tile = call[t].tile
        /\ call'[t].elsewhere => cached /\ RectsElsewhere(S, Lacking(t))
        /\ ~call'[t].some => call'[t].todo = {}
    BY <1>a, <2>4 DEF Locals
  <2>. QED
    BY <2>5, <2>6, <2>7, <2>8
<1>2. CASE MarkImageAsBeingRendered(t) \/ AlreadyRendered(t)
  BY <1>2 DEF MarkImageAsBeingRendered, AlreadyRendered, Return, Go, NoLocals
<1>3. CASE \E S \in call[t].todo : Shrink(t, S)
  <2>1. PICK S \in call[t].todo : Shrink(t, S)
    BY <1>3
  <2>2. Convex(S) /\ S \in SUBSET Pixels
    BY <1>a, <2>1 DEF Locals
  <2>3. (IF tiles THEN Bbox(S, Lacking(t)) ELSE S) \subseteq S
    BY <2>2, BboxHoldsLacking
  <2>4. t \in Abortable => ~BboxElsewhere(S, Lacking(t))
    BY DEF BboxElsewhere, Lacking
  <2>5. pc[t] = "next" /\ pc'[t] = "shrunk" /\ result' = result
    BY <2>1 DEF Shrink, Go
  <2>6. /\ call'[t].todo = call[t].todo \ {S}
        /\ call'[t].elsewhere = call[t].elsewhere
        /\ t \in Abortable => ~call'[t].tile /\ call'[t].claim = {}
        /\ call'[t].claim \subseteq call'[t].rect
    BY <1>a, <2>1, <2>3, <2>4 DEF Shrink, Locals
  <2>. QED
    BY <2>1, <2>5, <2>6
<1>4. CASE Claim(t) \/ RenderRect(t)
  BY <1>a, <1>4 DEF Claim, RenderRect, TileDone, Go, Locals
<1>5. CASE Fail(t)
  BY <1>a, <1>5 DEF Fail, Go, Locals
<1>6. CASE UnmarkImageAsBeingRendered(t) \/ EndAbortable(t)
  BY <1>6 DEF UnmarkImageAsBeingRendered, EndAbortable, Over, Go, GoAndWake
<1>7. CASE EvaluateBeforeWait(t) \/ Wait(t) \/ WakeUp(t)
  <2>1. /\ call'[t].todo = call[t].todo /\ call'[t].claim = call[t].claim
        /\ call'[t].rect = call[t].rect /\ call'[t].elsewhere = call[t].elsewhere
    BY <1>a, <1>7 DEF EvaluateBeforeWait, Wait, WakeUp, Locals
  <2>2. result' = result /\ t \notin Abortable
    BY <1>7 DEF EvaluateBeforeWait, Wait, WakeUp, AbortablesDoNotWait
  <2>3. pc'[t] \in {"evaluated", "asleep", "conclude"}
    BY <1>7 DEF EvaluateBeforeWait, Wait, WakeUp, Go
  <2>4. result[t] = "none" /\ call[t].todo = {} /\ call[t].rect = {}
    BY <1>7 DEF EvaluateBeforeWait, Wait, WakeUp, Over
  <2>. QED
    BY <2>1, <2>2, <2>3, <2>4
<1>8. CASE Conclude(t)
  BY <1>8 DEF Conclude, GoAndWake
<1>9. CASE Terminate(t)
  BY <1>9 DEF Terminate, Return, Go, NoLocals
<1>. QED
  BY <1>1, <1>2, <1>3, <1>4, <1>5, <1>6, <1>7, <1>8, <1>9 DEF Step

(* ... and by the others, which it may only wake.                            *)
LEMMA StepKeepsShape ==
  ASSUME Counted, Counted', Shape, NEW t \in Renders, LookUp(t) \/ Step(t)
  PROVE  Shape'
<1>1. ShapeOf(t)'
  BY StepKeepsOwnShape DEF Shape
<1>2. ASSUME NEW u \in Renders \ {t} PROVE ShapeOf(u)'
  BY OthersKeep DEF Counted, Shape, ShapeOf, Waiting
<1>. QED
  BY <1>1, <1>2 DEF Shape

(* The shape of the locals, of every render.                                 *)
THEOREM ShapeCorrect == Spec => []Shape
<1>1. Init => Shape
  BY DEF Init, Shape, ShapeOf, NoLocals, Waiting
<1>2. Counted /\ Counted' /\ Shape /\ [Next]_vars => Shape'
  <2>1. ASSUME Counted, Counted', Shape, Next PROVE Shape'
    BY <2>1, StepKeepsShape DEF Next
  <2>2. ASSUME Shape, UNCHANGED vars PROVE Shape'
    BY <2>2 DEF Shape, ShapeOf, Convex, vars, imageVars
  <2>. QED
    BY <2>1, <2>2
<1>. QED
  BY <1>1, <1>2, CountCorrect, PTL DEF Spec

-----------------------------------------------------------------------------
(* What the bitmap says                                                      *)

NoFailure == \A u \in Renders : result[u] # "failed"

Owned ==
    \A p \in Pixels : bitmap[p] = 2 =>
        \E t \in Renders \ Abortable : pc[t] = "render" /\ p \in call[t].rect

(* A pixel at 2 has its render, as long as no copy of an input failed; one   *)
(* at 1 was rendered; one at 0 was not, or a render failed; and the entry    *)
(* of the image knows of a failure only when there was one.                  *)
BitmapIsTrue ==
    /\ MayFail \cap Identities \subseteq Abortable \/ NoFailure => Owned
    /\ \A p \in Pixels : bitmap[p] = 1 => p \in painted
    /\ NoFailure => \A p \in Pixels : bitmap[p] = 0 => p \notin painted
    /\ ibr.failed => ~NoFailure

(* A failure is never forgotten.                                             *)
LEMMA FailureStays ==
  ASSUME Counted, Shape, NEW t \in Renders, LookUp(t) \/ Step(t), NoFailure'
  PROVE  NoFailure
<1> SUFFICES ASSUME NEW u \in Renders, result[u] = "failed" PROVE result'[u] = "failed"
  BY DEF NoFailure
<1> USE DEF Counted, TypeOK, Shape, ShapeOf
<1>1. CASE u # t
  BY <1>1, OthersKeep, SMTT(40)
<1>2. CASE u = t
  BY <1>2, ZenonT(30) DEF Step, LookUp, MarkImageAsBeingRendered, AlreadyRendered, Shrink, Claim,
     RenderRect, Fail, UnmarkImageAsBeingRendered, EvaluateBeforeWait, Wait, WakeUp,
     Conclude, EndAbortable, Terminate, Return, Waiting
<1>. QED
  BY <1>1, <1>2

(* The failure of a rectangle that is not an aborted one is a failure of the *)
(* render.                                                                   *)
LEMMA FailIsKnown ==
  ASSUME Counted, NEW t \in Renders, Fail(t), NoFailure'
  PROVE  t \in Abortable /\ bitmap' = bitmap
BY DEF Counted, TypeOK, Fail, NoFailure, Cleared

(* Only three steps write in the bitmap.                                     *)
LEMMA BitmapWriters ==
  ASSUME NEW t \in Renders, LookUp(t) \/ Step(t)
  PROVE  \/ Claim(t) \/ RenderRect(t) \/ Fail(t)
         \/ bitmap' = bitmap /\ painted' = painted /\ pc[t] # "render"
BY DEF Step, LookUp, MarkImageAsBeingRendered, AlreadyRendered, Shrink,
   UnmarkImageAsBeingRendered, EvaluateBeforeWait, Wait, WakeUp, Conclude, EndAbortable,
   Terminate, imageVars, Over

(* A step keeps a render at work on each pixel it leaves pending.            *)
LEMMA StepKeepsOwned ==
  ASSUME Counted, Shape, NEW t \in Renders, LookUp(t) \/ Step(t), Owned,
         MayFail \cap Identities \subseteq Abortable \/ NoFailure'
  PROVE  Owned'
<1> USE DEF Counted, TypeOK
<1> SUFFICES ASSUME NEW p \in Pixels, bitmap'[p] = 2
             PROVE  \E u \in Renders \ Abortable : pc'[u] = "render" /\ p \in call'[u].rect
  BY DEF Owned
<1>1. ASSUME bitmap[p] = 2, ~(pc[t] = "render" /\ t \notin Abortable)
      PROVE  \E u \in Renders \ Abortable : pc'[u] = "render" /\ p \in call'[u].rect
  <2>1. PICK u \in Renders \ Abortable : pc[u] = "render" /\ p \in call[u].rect
    BY <1>1 DEF Owned
  <2>2. u \in Renders \ {t}
    BY <1>1, <2>1
  <2>. QED
    BY <2>1, <2>2, OthersKeep
<1>2. ASSUME bitmap[p] = 2, p \notin call[t].rect
      PROVE  \E u \in Renders \ Abortable : pc'[u] = "render" /\ p \in call'[u].rect
  <2>1. PICK u \in Renders \ Abortable : pc[u] = "render" /\ p \in call[u].rect
    BY <1>2 DEF Owned
  <2>2. u \in Renders \ {t}
    BY <1>2, <2>1
  <2>. QED
    BY <2>1, <2>2, OthersKeep
<1>3. CASE Claim(t)
  <2>1. CASE p \in call[t].claim
    <3>1. p \in call[t].rect /\ t \notin Abortable
      BY <2>1 DEF Shape, ShapeOf
    <3>2. pc'[t] = "render" /\ call' = call
      BY <1>3, <3>1 DEF Claim, Go
    <3>. QED
      BY <3>1, <3>2
  <2>2. CASE p \notin call[t].claim
    <3>1. bitmap[p] = 2 /\ pc[t] # "render"
      BY <1>3, <2>2 DEF Claim, Mark
    <3>. QED
      BY <1>1, <3>1
  <2>. QED
    BY <2>1, <2>2
<1>4. CASE RenderRect(t)
  <2>1. bitmap[p] = 2 /\ p \notin call[t].rect
    BY <1>4 DEF RenderRect, Mark
  <2>. QED
    BY <1>2, <2>1
<1>5. CASE Fail(t)
  <2>1. CASE t \in Abortable
    BY <1>1, <1>5, <2>1 DEF Fail, Cleared
  <2>2. CASE t \notin Abortable
    <3>1. t \in MayFail /\ ~NoFailure'
      BY <1>5, <2>2 DEF Fail, NoFailure
    <3>2. t \notin Identities
      BY <2>2, <3>1
    <3>3. bitmap[p] = 2 /\ p \notin call[t].rect
      BY <1>5, <2>2, <3>2 DEF Fail, Cleared, Mark
    <3>. QED
      BY <1>2, <3>3
  <2>. QED
    BY <2>1, <2>2
<1>6. CASE bitmap' = bitmap /\ painted' = painted /\ pc[t] # "render"
  BY <1>1, <1>6
<1>. QED
  BY <1>3, <1>4, <1>5, <1>6, BitmapWriters

(* A step keeps what the bitmap says.                                        *)
LEMMA StepKeepsBitmap ==
  ASSUME Counted, Shape, NEW t \in Renders, LookUp(t) \/ Step(t), BitmapIsTrue
  PROVE  BitmapIsTrue'
<1>1. NoFailure' => NoFailure
  BY FailureStays
<1>2. MayFail \cap Identities \subseteq Abortable \/ NoFailure' => Owned'
  BY <1>1, StepKeepsOwned DEF BitmapIsTrue
<1>3. ASSUME NEW p \in Pixels
      PROVE  /\ bitmap'[p] = 1 => p \in painted'
             /\ NoFailure' => (bitmap'[p] = 0 => p \notin painted')
  <2> USE DEF Counted, TypeOK
  <2>1. /\ bitmap[p] = 1 => p \in painted
        /\ NoFailure' => (bitmap[p] = 0 => p \notin painted)
    BY <1>1, <1>3 DEF BitmapIsTrue
  <2>2. CASE Claim(t)
    BY <2>1, <2>2 DEF Claim, Mark
  <2>3. CASE RenderRect(t)
    BY <2>1, <2>3 DEF RenderRect, Mark
  <2>4. CASE Fail(t)
    <3>1. painted' = painted /\ bitmap'[p] \in {bitmap[p], 0}
      BY <2>4 DEF Fail, Cleared, Mark
    <3>2. NoFailure' => bitmap' = bitmap
      BY <2>4, FailIsKnown
    <3>. QED
      BY <2>1, <3>1, <3>2
  <2>5. CASE bitmap' = bitmap /\ painted' = painted
    BY <2>1, <2>5
  <2>. QED
    BY <2>2, <2>3, <2>4, <2>5, BitmapWriters
<1>4. ibr'.failed => ~NoFailure'
  <2> USE DEF Counted, TypeOK
  <2>1. ibr.failed => ~NoFailure'
    BY <1>1 DEF BitmapIsTrue
  <2>2. CASE UnmarkImageAsBeingRendered(t)
    <3>1. result' = result /\ LeaveImage(result[t] = "failed")
      BY <2>2 DEF UnmarkImageAsBeingRendered
    <3>2. ibr'.failed => ibr.failed \/ result[t] = "failed"
      BY <3>1 DEF LeaveImage, NotInUse
    <3>. QED
      BY <2>1, <3>1, <3>2 DEF NoFailure
  <2>3. CASE Conclude(t)
    <3>1. ibr'.failed => ibr.failed
      BY <2>3 DEF Conclude, LeaveImage, NotInUse
    <3>. QED
      BY <2>1, <3>1
  <2>4. CASE ~UnmarkImageAsBeingRendered(t) /\ ~Conclude(t)
    <3>1. ibr'.failed = ibr.failed
      BY <2>4 DEF Step, LookUp, MarkImageAsBeingRendered, AlreadyRendered, Shrink, Claim,
         RenderRect, Fail, EvaluateBeforeWait, Wait, WakeUp, EndAbortable, Terminate
    <3>. QED
      BY <2>1, <3>1, SMTT(40)
  <2>. QED
    BY <2>2, <2>3, <2>4
<1>. QED
  BY <1>2, <1>3, <1>4 DEF BitmapIsTrue

(* What the bitmap says, of every behaviour.                                 *)
THEOREM BitmapCorrect == Spec => []BitmapIsTrue
<1>1. Init => BitmapIsTrue
  BY DEF Init, BitmapIsTrue, Owned, NotInUse
<1>2. Counted /\ Shape /\ BitmapIsTrue /\ [Next]_vars => BitmapIsTrue'
  <2>1. ASSUME Counted, Shape, BitmapIsTrue, Next PROVE BitmapIsTrue'
    BY <2>1, StepKeepsBitmap DEF Next
  <2>2. ASSUME BitmapIsTrue, UNCHANGED vars PROVE BitmapIsTrue'
    BY <2>2 DEF BitmapIsTrue, Owned, NoFailure, vars, imageVars
  <2>. QED
    BY <2>1, <2>2
<1>. QED
  BY <1>1, <1>2, CountCorrect, ShapeCorrect, PTL DEF Spec

(* BitmapInv: a pixel marked PIXEL_UNAVAILABLE is being rendered, and the    *)
(* entry of the image counts its renders; what determineRectsToRender()      *)
(* reports of a stale mark does not happen.                                  *)
THEOREM BitmapInvCorrect == Spec => []BitmapInv
<1>1. Counted /\ BitmapIsTrue => BitmapInv
  BY DEF Counted, BitmapIsTrue, Owned, BitmapInv, PendingPixelIsBeingRendered
<1>. QED
  BY <1>1, CountCorrect, BitmapCorrect, PTL

-----------------------------------------------------------------------------
(* What is left to a render                                                  *)

Left(t) == (UNION call[t].todo) \cup call[t].rect

(* What makes it wait for the others, or will.                               *)
Flagged(t) == call[t].elsewhere \/ (call[t].tile /\ t \in Proxies)

(* While it searches and renders, a pixel it was asked for is painted, left  *)
(* to it, or another one is at it and it knows; when it waits only the last  *)
(* is left; then all is painted.                                             *)
ProgressOf(t) ==
    result[t] \notin {"failed", "aborted"} =>
        /\ pc[t] \in {"found", "next", "shrunk", "render"} =>
             \A p \in roi[t] \ painted : p \in Left(t) \/ (bitmap[p] = 2 /\ Flagged(t))
        /\ pc[t] \in {"evaluated", "asleep", "woken"} =>
             \A p \in roi[t] \ painted : bitmap[p] = 2
        /\ pc[t] = "evaluated" /\ ~call[t].tile => roi[t] \subseteq painted
        /\ pc[t] \in {"conclude", "check", "done"} => roi[t] \subseteq painted

Progress == NoFailure => \A t \in Renders : ProgressOf(t)

Invariant == Counted /\ Shape /\ BitmapIsTrue

(* A pixel is left in a rectangle to do, or in the one at hand.              *)
LEMMA LeftHolds ==
  ASSUME NEW t, NEW p
  PROVE  /\ p \in Left(t) <=> p \in UNION call[t].todo \/ p \in call[t].rect
         /\ p \in Left(t)' <=> p \in UNION call'[t].todo \/ p \in call'[t].rect
BY DEF Left

(* What is not painted stays pending, or goes back to nobody after a failure.*)
LEMMA PendingStays ==
  ASSUME Invariant, NEW t \in Renders, LookUp(t) \/ Step(t), NoFailure'
  PROVE  /\ painted \subseteq painted'
         /\ \A p \in Pixels : bitmap[p] = 2 /\ p \notin painted' => bitmap'[p] = 2
<1> USE DEF Invariant, Counted, TypeOK
<1>1. CASE Claim(t)
  BY <1>1 DEF Claim, Mark
<1>2. CASE RenderRect(t)
  BY <1>2 DEF RenderRect, Mark
<1>3. CASE Fail(t)
  BY <1>3, FailIsKnown DEF Fail
<1>4. CASE bitmap' = bitmap /\ painted' = painted
  BY <1>4
<1>. QED
  BY <1>1, <1>2, <1>3, <1>4, BitmapWriters

(* The progress of the others is kept.                                       *)
LEMMA OthersKeepProgress ==
  ASSUME Invariant, NEW t \in Renders, LookUp(t) \/ Step(t), NoFailure',
         NEW u \in Renders \ {t}, ProgressOf(u)
  PROVE  ProgressOf(u)'
<1>1. /\ painted \subseteq painted'
      /\ \A p \in Pixels : bitmap[p] = 2 /\ p \notin painted' => bitmap'[p] = 2
  BY PendingStays
<1>2. /\ roi'[u] = roi[u] /\ result'[u] = result[u] /\ call'[u] = call[u]
      /\ pc'[u] = pc[u] \/ (pc[u] = "asleep" /\ pc'[u] = "woken")
  BY OthersKeep DEF Invariant, Counted
<1>3. roi[u] \subseteq Pixels
  BY DEF Invariant, Counted, TypeOK
<1>. QED
  BY <1>1, <1>2, <1>3 DEF ProgressOf, Left, Flagged

(* What the value of a pixel says, when no render failed.                    *)
LEMMA PixelValues ==
  ASSUME Invariant, NoFailure, NEW p \in Pixels
  PROVE  /\ p \notin painted => bitmap[p] \in {0, 2}
         /\ bitmap[p] = 0 => p \notin painted
<1>1. bitmap[p] \in {0, 1, 2}
  BY DEF Invariant, Counted, TypeOK
<1>. QED
  BY <1>1 DEF Invariant, BitmapIsTrue

(* A pixel that a search leaves out is one that another render is at.        *)
LEMMA LeftOut ==
  ASSUME Invariant, NoFailure, NEW t \in Renders, NEW p \in Pixels, p \notin painted,
         bitmap[p] \notin Lacking(t)
  PROVE  bitmap[p] = 2 /\ Lacking(t) = {0}
BY PixelValues DEF Lacking

(* When a render that found nothing missing finds nothing pending either,    *)
(* the region is painted.                                                    *)
LEMMA NothingPending ==
  ASSUME Invariant, NoFailure, NEW S \in SUBSET Pixels,
         \A p \in S \ painted : bitmap[p] = 2, ~RectsElsewhere(S, {0})
  PROVE  S \subseteq painted
<1>1. \A p \in S : bitmap[p] # 0
  BY PixelValues
<1>2. \A p \in S : bitmap[p] # 2
  BY <1>1, NothingElsewhere
<1>. QED
  BY <1>2

(* A wait that ends, or does not take place, finds the region painted: a     *)
(* pixel still pending would be the work of another render inside.           *)
LEMMA WaitIsOver ==
  ASSUME Invariant, NoFailure, NEW t \in Renders, pc[t] \in {"evaluated", "woken"},
         \A p \in roi[t] \ painted : bitmap[p] = 2,
         NEW pending, ~pending => roi[t] \subseteq painted, ~Waits(pending)
  PROVE  roi[t] \subseteq painted
<1> SUFFICES ASSUME NEW p \in roi[t], p \notin painted PROVE FALSE
  OBVIOUS
<1>1. p \in Pixels /\ bitmap[p] = 2
  BY DEF Invariant, Counted, TypeOK
<1>2. ~ibr.failed
  BY DEF Invariant, BitmapIsTrue
<1>3. ~(ibr.count > 1)
  BY <1>2 DEF Waits
<1>4. PICK u \in Renders \ Abortable : pc[u] = "render"
  BY <1>1 DEF Invariant, BitmapIsTrue, Owned
<1>5. u # t /\ u \in Insiders
  BY <1>4 DEF Insiders, Inside
<1>6. t \in Insiders
  BY DEF Insiders, Inside, Invariant, Counted, AbortablesDoNotWait, Waiting
<1>7. ibr.count > 1
  BY <1>5, <1>6, TwoInside DEF Invariant, Counted
<1>. QED
  BY <1>3, <1>7

(* The progress of the render that takes the step.                           *)
LEMMA OwnProgress ==
  ASSUME Identities \cap Proxies \subseteq Abortable,
         Invariant, Invariant', NEW t \in Renders, LookUp(t) \/ Step(t),
         NoFailure, NoFailure', ProgressOf(t)
  PROVE  ProgressOf(t)'
<1> USE DEF Invariant, Counted, TypeOK
<1>a. call[t] \in Locals /\ roi[t] \in SUBSET Pixels /\ roi'[t] \in SUBSET Pixels
  OBVIOUS
<1>b. ShapeOf(t)
  BY DEF Shape
<1>c. result[t] # "failed"
  BY DEF NoFailure
<1>1. CASE LookUp(t)
  <2>1. PICK S \in (IF tiles THEN RoIs ELSE {Pixels}) :
          LET rest == IF cached THEN Rects(S, Lacking(t)) ELSE {S}
          IN /\ roi' = [roi EXCEPT ![t] = S]
             /\ call' = [call EXCEPT ![t].some = rest # {},
                           ![t].todo = IF tiles \/ rest = {} THEN rest ELSE {Pixels},
                           ![t].elsewhere = cached /\ RectsElsewhere(S, Lacking(t))]
    BY <1>1 DEF LookUp
  <2> DEFINE rest == IF cached THEN Rects(S, Lacking(t)) ELSE {S}
  <2>2. S \in SUBSET Pixels
    BY <2>1
  <2>3. /\ call'[t].todo = IF tiles \/ rest = {} THEN rest ELSE {Pixels}
        /\ call'[t].elsewhere <=> cached /\ RectsElsewhere(S, Lacking(t))
        /\ roi'[t] = S
    BY <1>a, <2>1, ZenonT(40) DEF Locals
  <2>4. pc'[t] = "found" /\ painted' = painted /\ bitmap' = bitmap
    BY <1>1 DEF LookUp, Go, imageVars
  <2>5. ASSUME NEW p \in S \ painted, p \notin UNION call'[t].todo
        PROVE  bitmap[p] = 2 /\ call'[t].elsewhere
    <3>1. cached /\ rest = Rects(S, Lacking(t)) /\ p \notin UNION rest
      BY <2>2, <2>3, <2>5, SMTT(30)
    <3>2. bitmap[p] \notin Lacking(t)
      BY <2>2, <3>1, RectsCoverLacking
    <3>3. bitmap[p] = 2 /\ Lacking(t) = {0}
      BY <2>2, <3>2, LeftOut
    <3>4. RectsElsewhere(S, {0})
      BY <2>2, <3>1, <3>3, RectsFlagTheRest
    <3>. QED
      BY <2>3, <3>1, <3>3, <3>4
  <2>. QED
    BY <2>3, <2>4, <2>5 DEF ProgressOf, Left, Flagged
<1>2. CASE MarkImageAsBeingRendered(t)
  BY <1>2 DEF MarkImageAsBeingRendered, Go, ProgressOf, Left, Flagged
<1>3. CASE AlreadyRendered(t)
  <2>1. Left(t) = {} /\ ~Flagged(t)
    BY <1>3, <1>b DEF AlreadyRendered, ShapeOf, Left, Flagged
  <2>2. roi[t] \subseteq painted
    BY <1>3, <1>b, <2>1 DEF AlreadyRendered, ShapeOf, ProgressOf
  <2>. QED
    BY <1>3, <2>2 DEF AlreadyRendered, Go, imageVars, ProgressOf
<1>4. CASE \E S \in call[t].todo : Shrink(t, S)
  <2>1. PICK S \in call[t].todo : Shrink(t, S)
    BY <1>4
  <2>2. S \in SUBSET Pixels
    BY <1>a, <2>1 DEF Locals
  <2>3. /\ call'[t].todo = call[t].todo \ {S}
        /\ call'[t].elsewhere = call[t].elsewhere
        /\ call'[t].rect = IF t \in Proxies /\ tiles THEN Bbox(S, Lacking(t)) ELSE S
        /\ call'[t].tile <=> tiles /\ BboxElsewhere(S, Lacking(t))
    BY <1>a, <2>1 DEF Shrink, Locals
  <2>4. /\ pc[t] = "next" /\ pc'[t] = "shrunk" /\ result' = result
        /\ roi' = roi /\ painted' = painted /\ bitmap' = bitmap
    BY <2>1 DEF Shrink, Go, imageVars
  <2>5. ASSUME result[t] # "aborted", NEW p \in roi[t] \ painted, p \notin Left(t)'
        PROVE  bitmap[p] = 2 /\ Flagged(t)'
    <3>1. CASE p \in Left(t)
      <4>1. p \in S
        BY <1>b, <2>3, <2>4, <2>5, <3>1 DEF Left, ShapeOf
      <4>2. t \in Proxies /\ tiles /\ p \notin Bbox(S, Lacking(t))
        <5>1. p \notin call'[t].rect
          BY <2>5, LeftHolds
        <5>. QED
          BY <2>3, <4>1, <5>1
      <4>3. bitmap[p] \notin Lacking(t)
        BY <2>2, <4>1, <4>2, BboxHoldsLacking
      <4>4. bitmap[p] = 2 /\ Lacking(t) = {0}
        BY <2>2, <2>5, <4>1, <4>3, LeftOut
      <4>5. BboxElsewhere(S, Lacking(t))
        <5>1. 2 \notin Lacking(t)
          BY <4>4
        <5>. QED
          BY <4>1, <4>2, <4>4, <5>1 DEF BboxElsewhere
      <4>. QED
        BY <2>3, <4>2, <4>4, <4>5 DEF Flagged
    <3>2. CASE p \notin Left(t)
      <4>1. bitmap[p] = 2 /\ Flagged(t)
        BY <1>c, <2>4, <2>5, <3>2 DEF ProgressOf
      <4>2. call[t].elsewhere
        BY <1>b, <2>4, <4>1 DEF ShapeOf, Flagged
      <4>. QED
        BY <2>3, <4>1, <4>2 DEF Flagged
    <3>. QED
      BY <3>1, <3>2
  <2>. QED
    BY <2>4, <2>5 DEF ProgressOf
<1>5. CASE Claim(t)
  <2>1. \A p \in Pixels : bitmap[p] = 2 => bitmap'[p] = 2
    BY <1>5 DEF Claim, Mark
  <2>2. /\ pc[t] = "shrunk" /\ pc'[t] \in {"next", "render"}
        /\ roi' = roi /\ painted' = painted /\ result' = result
    BY <1>5 DEF Claim, Go
  <2>3. Left(t)' = Left(t) /\ (Flagged(t) => Flagged(t)')
    <3>1. CASE call[t].rect = {}
      <4>1. /\ call'[t].todo = call[t].todo /\ call'[t].rect = call[t].rect
            /\ call'[t].elsewhere <=> call[t].elsewhere \/ call[t].tile
        BY <1>a, <1>5, <3>1 DEF Claim, TileDone, Locals
      <4>. QED
        BY <4>1 DEF Left, Flagged
    <3>2. CASE call[t].rect # {}
      BY <1>5, <3>2 DEF Claim, Left, Flagged
    <3>. QED
      BY <3>1, <3>2
  <2>. QED
    BY <1>a, <2>1, <2>2, <2>3 DEF ProgressOf
<1>6. CASE RenderRect(t)
  <2>1. /\ call'[t].todo = call[t].todo /\ call'[t].rect = {}
        /\ call'[t].elsewhere <=> call[t].elsewhere \/ (call[t].tile /\ t \notin Identities)
    BY <1>a, <1>6 DEF RenderRect, TileDone, Locals
  <2>2. /\ pc[t] = "render" /\ pc'[t] = "next" /\ roi' = roi /\ result' = result
        /\ painted' = painted \cup call[t].rect
        /\ \A p \in Pixels \ call[t].rect : bitmap'[p] = bitmap[p]
    BY <1>6 DEF RenderRect, Go, Mark
  <2>3. Flagged(t) => Flagged(t)'
    BY <1>b, <2>1 DEF Flagged, ShapeOf
  <2>4. ASSUME NEW p \in Pixels, p \in Left(t), p \notin painted' PROVE p \in Left(t)'
    <3>1. p \in UNION call[t].todo
      BY <2>2, <2>4, LeftHolds
    <3>. QED
      BY <2>1, <3>1, LeftHolds
  <2>. QED
    BY <1>a, <2>2, <2>3, <2>4 DEF ProgressOf
<1>7. CASE Fail(t)
  BY <1>7 DEF Fail, ProgressOf
<1>8. CASE UnmarkImageAsBeingRendered(t) \/ EndAbortable(t)
  <2>1. Over(t) /\ ~call[t].elsewhere
    BY <1>8, <1>b, <1>c DEF UnmarkImageAsBeingRendered, EndAbortable, ShapeOf
  <2>2. Left(t) = {} /\ ~Flagged(t)
    BY <1>b, <2>1 DEF Over, ShapeOf, Left, Flagged
  <2>3. result[t] # "aborted" => roi[t] \subseteq painted
    BY <1>c, <2>1, <2>2 DEF Over, ProgressOf
  <2>4. pc'[t] = "check" /\ roi' = roi /\ result' = result /\ painted' = painted
    BY <1>8 DEF UnmarkImageAsBeingRendered, EndAbortable, Go, GoAndWake, imageVars
  <2>. QED
    BY <2>3, <2>4 DEF ProgressOf
<1>9. CASE EvaluateBeforeWait(t)
  <2>1. Left(t) = {} /\ pc[t] = "next" /\ result[t] # "aborted"
    BY <1>9, <1>b DEF EvaluateBeforeWait, Over, ShapeOf, Left
  <2>2. \A p \in roi[t] \ painted : bitmap[p] = 2
    BY <1>c, <2>1 DEF ProgressOf
  <2>3. ~RectsElsewhere(roi[t], {0}) => roi[t] \subseteq painted
    BY <1>a, <2>2, NothingPending
  <2>4. call'[t].tile <=> RectsElsewhere(roi[t], {0})
    BY <1>a, <1>9 DEF EvaluateBeforeWait, Locals
  <2>5. /\ pc'[t] = "evaluated" /\ roi' = roi /\ result' = result
        /\ painted' = painted /\ bitmap' = bitmap
    BY <1>9 DEF EvaluateBeforeWait, Go, imageVars
  <2>. QED
    BY <2>2, <2>3, <2>4, <2>5 DEF ProgressOf
<1>10. CASE Wait(t)
  <2>1. /\ pc[t] = "evaluated" /\ roi' = roi /\ result' = result
        /\ painted' = painted /\ bitmap' = bitmap
        /\ pc'[t] = IF Waits(call[t].tile) THEN "asleep" ELSE "conclude"
    BY <1>10 DEF Wait, Go, imageVars
  <2>2. /\ \A p \in roi[t] \ painted : bitmap[p] = 2
        /\ ~call[t].tile => roi[t] \subseteq painted
    BY <1>b, <2>1 DEF ShapeOf, Waiting, ProgressOf
  <2>3. ~Waits(call[t].tile) => roi[t] \subseteq painted
    BY <2>1, <2>2, WaitIsOver
  <2>. QED
    BY <2>1, <2>2, <2>3 DEF ProgressOf
<1>11. CASE WakeUp(t)
  <2>1. /\ pc[t] = "woken" /\ roi' = roi /\ result' = result
        /\ painted' = painted /\ bitmap' = bitmap
        /\ pc'[t] = IF Waits(RectsElsewhere(roi[t], {0})) THEN "asleep" ELSE "conclude"
    BY <1>11 DEF WakeUp, Go, imageVars
  <2>2. \A p \in roi[t] \ painted : bitmap[p] = 2
    BY <1>b, <2>1 DEF ShapeOf, Waiting, ProgressOf
  <2>3. ~RectsElsewhere(roi[t], {0}) => roi[t] \subseteq painted
    BY <1>a, <2>2, NothingPending
  <2>4. ~Waits(RectsElsewhere(roi[t], {0})) => roi[t] \subseteq painted
    BY <2>1, <2>2, <2>3, WaitIsOver
  <2>. QED
    BY <2>1, <2>2, <2>4 DEF ProgressOf
<1>12. CASE Conclude(t)
  <2>1. pc[t] = "conclude" /\ pc'[t] = "check" /\ roi' = roi /\ painted' = painted
    BY <1>12 DEF Conclude, GoAndWake, imageVars
  <2>2. roi[t] \subseteq painted
    BY <1>b, <2>1 DEF ShapeOf, Waiting, ProgressOf
  <2>. QED
    BY <2>1, <2>2 DEF ProgressOf
<1>13. CASE Terminate(t)
  <2>1. pc[t] = "check" /\ pc'[t] = "done" /\ roi' = roi /\ painted' = painted
    BY <1>13 DEF Terminate, Go, imageVars
  <2>2. result[t] = "aborted" => result'[t] = "aborted"
    BY <1>13 DEF Terminate, Return
  <2>. QED
    BY <1>c, <2>1, <2>2 DEF ProgressOf
<1>. QED
  BY <1>1, <1>2, <1>3, <1>4, <1>5, <1>6, <1>7, <1>8, <1>9, <1>10, <1>11, <1>12, <1>13
     DEF Step

(* The progress of all renders.  A render that copies its rectangles from an *)
(* input and renders at full scale for a proxy forgets what is pending:      *)
(* renderHandlerIdentity() drops the flag of the rectangle.                  *)
THEOREM ProgressCorrect ==
  ASSUME Identities \cap Proxies \subseteq Abortable
  PROVE  Spec => []Progress
<1>1. Init => Progress
  BY DEF Init, Progress, ProgressOf
<1>2. Invariant /\ Invariant' /\ Progress /\ [Next]_vars => Progress'
  <2>1. ASSUME Invariant, Invariant', Progress, Next PROVE Progress'
    <3> SUFFICES ASSUME NoFailure' PROVE \A u \in Renders : ProgressOf(u)'
      BY DEF Progress
    <3>1. PICK t \in Renders : LookUp(t) \/ Step(t)
      BY <2>1 DEF Next
    <3>2. NoFailure
      BY <2>1, <3>1, FailureStays DEF Invariant
    <3>3. ProgressOf(t)'
      BY <2>1, <3>1, <3>2, OwnProgress DEF Progress
    <3>4. \A u \in Renders \ {t} : ProgressOf(u)'
      BY <2>1, <3>1, <3>2, OthersKeepProgress DEF Progress
    <3>. QED
      BY <3>3, <3>4
  <2>2. ASSUME Progress, UNCHANGED vars PROVE Progress'
    BY <2>2 DEF Progress, ProgressOf, NoFailure, Left, Flagged, vars, imageVars
  <2>. QED
    BY <2>1, <2>2
<1>3. Spec => []Invariant
  BY CountCorrect, ShapeCorrect, BitmapCorrect, PTL DEF Invariant
<1>. QED
  BY <1>1, <1>2, <1>3, PTL DEF Spec

(* ReturnedImageIsPainted: the render that returns an image returns all it   *)
(* was asked for, whoever rendered it, unless a render of that image failed. *)
THEOREM ReturnedImageCorrect ==
  ASSUME Identities \cap Proxies \subseteq Abortable
  PROVE  Spec => []ReturnedImageIsPainted
<1>1. Shape /\ Progress => ReturnedImageIsPainted
  BY DEF Shape, ShapeOf, Progress, ProgressOf, NoFailure, ReturnedImageIsPainted
<1>. QED
  BY <1>1, ShapeCorrect, ProgressCorrect, PTL
=============================================================================
