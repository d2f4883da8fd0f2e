--------------------------- MODULE TemplatesProofs ---------------------------
(***************************************************************************)
(* Machine-checked proofs about Templates, for every set of templates,     *)
(* exhibitions, looks, shapes and updates in flight.                        *)
(***************************************************************************)
EXTENDS Templates, TLAPS

(***************************************************************************)
(* The inductive invariants.  They say what an update in flight may still  *)
(* rely on of what it read:                                                *)
(*   - its template exists, as does that of an exhibition;                 *)
(*   - unless another update was in flight with it, the row still has no   *)
(*     texture if the merged look has none;                                *)
(*   - if it is to change the shape, every exhibition that uses the        *)
(*     template took it after the look.                                    *)
(***************************************************************************)

RefsExist ==
    /\ \A r \in Requests : job[r] # None => Exists(job[r].on)
    /\ \A e \in Exhibitions : scene[e] \in Templates => Exists(scene[e])

AloneOrMixed ==
    \A r, s \in Requests :
        job[r] # None /\ job[s] # None /\ job[r].on = job[s].on /\ r # s =>
            job[r].on \in mixed

TextureFresh ==
    \A r \in Requests :
        job[r] # None /\ job[r].on \notin mixed /\ job[r].look.texture = None =>
            flat[job[r].on].texture = None

ShapeFresh ==
    \A r \in Requests, e \in Exhibitions :
        job[r] # None /\ job[r].shape # None /\ scene[e] = job[r].on => <<r, e>> \in taken

Typed == TypeOK /\ RefsExist
ThemeIInv == ThemeInStep /\ AloneOrMixed /\ TextureFresh

\* Setting both columns of a look.
LEMMA SetLook ==
  ASSUME NEW look \in Looks, NEW c \in Colors, NEW x \in Textures \cup {None}
  PROVE  /\ [look EXCEPT !.color = c, !.texture = x] = [color |-> c, texture |-> x]
         /\ [color |-> c, texture |-> x] \in Looks
  <1>1. [look EXCEPT !.color = c, !.texture = x]
           = [[look EXCEPT !.color = c] EXCEPT !.texture = x]
    OBVIOUS
  <1>2. [look EXCEPT !.color = c] = [color |-> c, texture |-> look.texture]
    BY DEF Looks
  <1>3. [[color |-> c, texture |-> look.texture] EXCEPT !.texture = x]
           = [color |-> c, texture |-> x]
    OBVIOUS
  <1>. QED  BY <1>1, <1>2, <1>3 DEF Looks

LEMMA Derived == \A look \in Looks : DeriveTheme(look) = look
  BY DEF DeriveTheme, Looks

\* What the write of an update does: t gets the look that was merged, except that
\* a texture it lacks is left as the row has it.
Writes(r, t, look, kept, s) ==
    /\ job[r] # None /\ job[r].on = t /\ job[r].look = look
    /\ kept = [color |-> look.color, texture |-> OrElse(look.texture, flat[t].texture)]
    /\ s = OrElse(job[r].shape, shape[t])
    /\ flat' = [flat EXCEPT ![t] = kept]
    /\ theme' = [theme EXCEPT ![t] = look]
    /\ shape' = [shape EXCEPT ![t] = s]
    /\ End(r)
    /\ UNCHANGED exhibitionRows

LEMMA Written ==
  ASSUME Typed, NEW r \in Requests, UpdateWrite(r)
  PROVE  \E t \in Templates, look \in Looks, kept \in Looks, s \in Shapes :
            Writes(r, t, look, kept, s)
  <1> DEFINE t == job[r].on
             look == job[r].look
             x == OrElse(look.texture, flat[t].texture)
             s == OrElse(job[r].shape, shape[t])
  <1>1. job[r] \in Jobs /\ job[r] # None
    BY DEF UpdateWrite, Typed, TypeOK
  <1>2. t \in Templates /\ look \in Looks /\ job[r].shape \in Shapes \cup {None}
    BY <1>1 DEF Jobs
  <1>3. flat[t] \in Looks /\ shape[t] \in Shapes
    BY <1>1, <1>2 DEF Typed, TypeOK, RefsExist, Exists
  <1>4. look.color \in Colors /\ x \in Textures \cup {None} /\ s \in Shapes
    BY <1>2, <1>3 DEF Looks, OrElse
  <1>5. [flat[t] EXCEPT !.color = look.color, !.texture = x]
           = [color |-> look.color, texture |-> x]
    BY <1>3, <1>4, SetLook
  <1>6. flat' = [flat EXCEPT ![t] = [flat[t] EXCEPT !.color = look.color, !.texture = x]]
    BY <1>2, <1>3 DEF UpdateWrite, Typed, TypeOK
  <1>7. flat' = [flat EXCEPT ![t] = [color |-> look.color, texture |-> x]]
    BY <1>5, <1>6
  <1>8. theme' = [theme EXCEPT ![t] = look]
    BY <1>2, Derived DEF UpdateWrite
  <1>9. [color |-> look.color, texture |-> x] \in Looks
    BY <1>4 DEF Looks
  <1>10. Writes(r, t, look, [color |-> look.color, texture |-> x], s)
    BY <1>1, <1>7, <1>8 DEF UpdateWrite, Writes
  <1>. QED  BY <1>2, <1>4, <1>9, <1>10

LEMMA NextTyped == Typed /\ [Next]_vars => Typed'
  <1> SUFFICES ASSUME Typed, [Next]_vars PROVE Typed'
    OBVIOUS
  <1>. USE DEF Typed
  <1>1. CASE UNCHANGED vars
    BY <1>1 DEF vars, TypeOK, RefsExist, Exists
  <1>2. ASSUME NEW t \in Templates, NEW look \in Looks, NEW s \in Shapes,
               Create(t, look, s)
        PROVE  Typed'
    BY <1>2, Derived, NoneAssumption, TemplatesAssumption
    DEF Create, exhibitionRows, history, TypeOK, RefsExist, Exists
  <1>3. ASSUME NEW t \in Templates, NEW r \in Requests, NEW color \in Colors \cup {None},
               NEW texture \in Textures \cup {None}, NEW s \in Shapes \cup {None},
               StartUpdate(r, t, color, texture, s)
        PROVE  Typed'
    <2> DEFINE look == [color |-> OrElse(color, flat[t].color),
                        texture |-> OrElse(texture, flat[t].texture)]
    <2>1. look \in Looks
      <3>1. flat[t] \in Looks
        BY <1>3 DEF StartUpdate, Exists, TypeOK
      <3>. QED  BY <3>1 DEF Looks, OrElse
    <2>2. [on |-> t, look |-> look, shape |-> s] \in Jobs
      BY <2>1 DEF Jobs
    <2>3. job' = [job EXCEPT ![r] = [on |-> t, look |-> look, shape |-> s]]
      BY <1>3 DEF StartUpdate, Begin
    <2>4. /\ UNCHANGED <<templateRows, exhibitionRows, taken>>
          /\ mixed' \subseteq Templates /\ Exists(t)
      BY <1>3 DEF StartUpdate, Begin, TypeOK
    <2> HIDE DEF look
    <2>5. TypeOK'
      BY <2>2, <2>3, <2>4 DEF templateRows, exhibitionRows, TypeOK, Exists
    <2>6. RefsExist'
      BY <2>3, <2>4 DEF templateRows, exhibitionRows, TypeOK, RefsExist, Exists
    <2>. QED  BY <2>5, <2>6
  <1>4. ASSUME NEW r \in Requests, UpdateWrite(r) PROVE Typed'
    <2>1. PICK t \in Templates, look \in Looks, kept \in Looks, s \in Shapes :
             Writes(r, t, look, kept, s)
      BY <1>4, Written
    <2>. QED
      BY <2>1, NoneAssumption, TemplatesAssumption
      DEF Writes, End, exhibitionRows, TypeOK, RefsExist, Exists
  <1>5. ASSUME NEW r \in Requests, Abort(r) PROVE Typed'
    BY <1>5 DEF Abort, End, templateRows, exhibitionRows, TypeOK, RefsExist, Exists
  <1>6. ASSUME NEW e \in Exhibitions, NEW t \in Templates \cup {None},
               CreateExhibition(e, t) \/ UpdateExhibition(e, t)
        PROVE  Typed'
    <2>1. /\ scene' = [scene EXCEPT ![e] = t]
          /\ t # None => Exists(t)
          /\ taken' = taken \cup (Updating(t) \X {e})
          /\ UNCHANGED <<templateRows, hung, job, mixed>>
      BY <1>6 DEF CreateExhibition, UpdateExhibition, Point
    <2>2. scene' \in [Exhibitions -> Templates \cup {None, "none"}]
      BY <2>1 DEF TypeOK
    <2>3. taken' \subseteq Requests \X Exhibitions
      BY <2>1 DEF TypeOK, Updating
    <2>4. TypeOK'
      BY <2>1, <2>2, <2>3 DEF templateRows, TypeOK, Exists
    <2>5. RefsExist'
      BY <2>1, TemplatesAssumption DEF templateRows, TypeOK, RefsExist, Exists
    <2>. QED  BY <2>4, <2>5
  <1>7. ASSUME NEW e \in Exhibitions, NEW s \in Shapes, NEW q \in Shapes,
               Hang(e, s) \/ TakeDown(e, s) \/ Rehang(e, s, q)
        PROVE  Typed'
    BY <1>7
    DEF Hang, TakeDown, Rehang, templateRows, history, TypeOK, RefsExist, Exists
  <1>. QED  BY <1>1, <1>2, <1>3, <1>4, <1>5, <1>6, <1>7 DEF Next

(***************************************************************************)
(* ThemeInStep.                                                            *)
(***************************************************************************)

LEMMA NextTheme == Typed /\ ThemeIInv /\ [Next]_vars => ThemeIInv'
  <1> SUFFICES ASSUME Typed, ThemeIInv, [Next]_vars PROVE ThemeIInv'
    OBVIOUS
  <1>. USE DEF ThemeIInv
  <1>0. TypeOK /\ RefsExist
    BY DEF Typed
  <1>1. CASE UNCHANGED <<templateRows, job, mixed>>
    BY <1>1 DEF templateRows, ThemeInStep, AloneOrMixed, TextureFresh, Exists
  <1>2. ASSUME NEW t \in Templates, NEW look \in Looks, NEW s \in Shapes,
               Create(t, look, s)
        PROVE  ThemeIInv'
    <2>1. \A r \in Requests : job[r] # None => job[r].on # t
      BY <1>0, <1>2 DEF Create, RefsExist
    <2>2. /\ flat' = [flat EXCEPT ![t] = look] /\ theme' = [theme EXCEPT ![t] = look]
          /\ UNCHANGED <<job, mixed>>
      BY <1>2, Derived DEF Create, history
    <2>3. ThemeInStep'
      BY <1>0, <2>2 DEF ThemeInStep, TypeOK, Exists
    <2>4. AloneOrMixed' /\ TextureFresh'
      BY <1>0, <2>1, <2>2 DEF AloneOrMixed, TextureFresh, TypeOK
    <2>. QED  BY <2>3, <2>4
  <1>3. ASSUME NEW t \in Templates, NEW r \in Requests, NEW color \in Colors \cup {None},
               NEW texture \in Textures \cup {None}, NEW s \in Shapes \cup {None},
               StartUpdate(r, t, color, texture, s)
        PROVE  ThemeIInv'
    <2> DEFINE look == [color |-> OrElse(color, flat[t].color),
                        texture |-> OrElse(texture, flat[t].texture)]
    <2>1. /\ job' = [job EXCEPT ![r] = [on |-> t, look |-> look, shape |-> s]]
          /\ mixed' = IF Updating(t) # {} THEN mixed \cup {t} ELSE mixed
          /\ UNCHANGED templateRows
      BY <1>3 DEF StartUpdate, Begin
    <2>2. look.texture = None => flat[t].texture = None
      BY DEF OrElse
    <2> HIDE DEF look
    <2>3. ThemeInStep'
      BY <2>1 DEF templateRows, ThemeInStep, Exists
    <2>4. AloneOrMixed'
      BY <1>0, <2>1 DEF AloneOrMixed, Updating, TypeOK
    <2>5. TextureFresh'
      BY <1>0, <2>1, <2>2 DEF templateRows, TextureFresh, TypeOK
    <2>. QED  BY <2>3, <2>4, <2>5
  <1>4. ASSUME NEW r \in Requests, UpdateWrite(r) PROVE ThemeIInv'
    <2>1. PICK t \in Templates, look \in Looks, kept \in Looks, s \in Shapes :
             Writes(r, t, look, kept, s)
      BY <1>4, Written DEF Typed
    <2>2. /\ flat' = [flat EXCEPT ![t] = kept] /\ theme' = [theme EXCEPT ![t] = look]
          /\ job' = [job EXCEPT ![r] = None] /\ UNCHANGED mixed
          /\ job[r] # None /\ job[r].on = t /\ job[r].look = look
      BY <2>1 DEF Writes, End
    <2>3. /\ kept.color = look.color
          /\ kept.texture = IF look.texture # None THEN look.texture
                            ELSE flat[t].texture
      BY <2>1 DEF Writes, OrElse
    <2>4. t \notin mixed /\ look.texture = None => flat[t].texture = None
      BY <2>2 DEF TextureFresh
    <2>5. ThemeInStep'
      <3> SUFFICES ASSUME NEW u \in Templates, Exists(u)'
                   PROVE  /\ theme'[u].color = flat'[u].color
                          /\ theme'[u].texture = flat'[u].texture \/ u \in mixed'
        BY DEF ThemeInStep
      <3>1. CASE u = t
        BY <1>0, <2>2, <2>3, <2>4, <3>1 DEF TypeOK
      <3>2. CASE u # t
        BY <1>0, <2>2, <3>2 DEF ThemeInStep, Exists, TypeOK
      <3>. QED  BY <3>1, <3>2
    <2>6. AloneOrMixed'
      BY <1>0, <2>2 DEF AloneOrMixed, TypeOK
    <2>7. TextureFresh'
      <3> SUFFICES ASSUME NEW q \in Requests, job'[q] # None, job'[q].on \notin mixed',
                          job'[q].look.texture = None
                   PROVE  flat'[job'[q].on].texture = None
        BY DEF TextureFresh
      <3>1. q # r /\ job'[q] = job[q] /\ job[q] \in Jobs
        BY <1>0, <2>2 DEF TypeOK
      <3>2. job[q].on # t /\ job[q].on \in Templates
        BY <2>2, <3>1 DEF AloneOrMixed, Jobs
      <3>. QED  BY <1>0, <2>2, <3>1, <3>2 DEF TextureFresh, TypeOK
    <2>. QED  BY <2>5, <2>6, <2>7
  <1>5. ASSUME NEW r \in Requests, Abort(r) PROVE ThemeIInv'
    BY <1>0, <1>5
    DEF Abort, End, templateRows, ThemeInStep, AloneOrMixed, TextureFresh, Exists,
        TypeOK
  <1>6. \/ UNCHANGED <<templateRows, job, mixed>>
        \/ \E t \in Templates, look \in Looks, s \in Shapes : Create(t, look, s)
        \/ \E t \in Templates, r \in Requests, color \in Colors \cup {None},
              texture \in Textures \cup {None}, s \in Shapes \cup {None} :
                 StartUpdate(r, t, color, texture, s)
        \/ \E r \in Requests : UpdateWrite(r) \/ Abort(r)
    BY DEF Next, CreateExhibition, UpdateExhibition, Hang, Rehang, TakeDown,
           history, templateRows, vars
  <1>. QED  BY <1>1, <1>2, <1>3, <1>4, <1>5, <1>6

(***************************************************************************)
(* WallsStay.                                                              *)
(***************************************************************************)

LEMMA NextFresh == Typed /\ ShapeFresh /\ [Next]_vars => ShapeFresh'
  <1> SUFFICES ASSUME Typed, ShapeFresh, [Next]_vars PROVE ShapeFresh'
    OBVIOUS
  <1>0. TypeOK /\ RefsExist
    BY DEF Typed
  <1>1. CASE UNCHANGED <<scene, job, taken>>
    BY <1>1 DEF ShapeFresh
  <1>2. ASSUME NEW t \in Templates, NEW r \in Requests, NEW color \in Colors \cup {None},
               NEW texture \in Textures \cup {None}, NEW s \in Shapes \cup {None},
               StartUpdate(r, t, color, texture, s)
        PROVE  ShapeFresh'
    <2> DEFINE look == [color |-> OrElse(color, flat[t].color),
                        texture |-> OrElse(texture, flat[t].texture)]
    <2>1. /\ job' = [job EXCEPT ![r] = [on |-> t, look |-> look, shape |-> s]]
          /\ UNCHANGED <<exhibitionRows, taken>>
          /\ s # None => UsersOf(t) = {}
      BY <1>2 DEF StartUpdate, Begin
    <2> HIDE DEF look
    <2>. QED
      BY <1>0, <2>1 DEF exhibitionRows, ShapeFresh, UsersOf, TypeOK
  <1>3. ASSUME NEW r \in Requests, UpdateWrite(r) \/ Abort(r) PROVE ShapeFresh'
    BY <1>0, <1>3 DEF UpdateWrite, Abort, End, exhibitionRows, ShapeFresh, TypeOK
  <1>4. ASSUME NEW e \in Exhibitions, NEW t \in Templates \cup {None},
               CreateExhibition(e, t) \/ UpdateExhibition(e, t)
        PROVE  ShapeFresh'
    <2>1. /\ scene' = [scene EXCEPT ![e] = t]
          /\ taken' = taken \cup (Updating(t) \X {e})
          /\ UNCHANGED job
      BY <1>4 DEF CreateExhibition, UpdateExhibition, Point
    <2>. QED
      BY <1>0, <2>1 DEF ShapeFresh, Updating, TypeOK
  <1>5. \/ UNCHANGED <<scene, job, taken>>
        \/ \E t \in Templates, r \in Requests, color \in Colors \cup {None},
              texture \in Textures \cup {None}, s \in Shapes \cup {None} :
                 StartUpdate(r, t, color, texture, s)
        \/ \E r \in Requests : UpdateWrite(r) \/ Abort(r)
        \/ \E e \in Exhibitions, t \in Templates \cup {None} :
               CreateExhibition(e, t) \/ UpdateExhibition(e, t)
    BY DEF Next, Create, Hang, Rehang, TakeDown, exhibitionRows, history, vars
  <1>. QED  BY <1>1, <1>2, <1>3, <1>4, <1>5

\* What a step does to the walls in view of one exhibition.
WallKept(e, s) ==
    s \in InView(e) /\ s \notin InView(e)' =>
        \/ s \notin hung'[e]
        \/ scene'[e] # scene[e]
        \/ \E r \in Requests :
              <<r, e>> \in taken /\ job[r].on = scene[e] /\ job'[r] = None

LEMMA StepKeepsWalls ==
  ASSUME Typed, ShapeFresh, [Next]_vars, NEW e \in Exhibitions, NEW s \in Shapes
  PROVE  WallKept(e, s)
  <1> SUFFICES ASSUME s \in InView(e), s \notin InView(e)', s \in hung'[e],
                      scene'[e] = scene[e]
               PROVE  \E r \in Requests :
                         <<r, e>> \in taken /\ job[r].on = scene[e] /\ job'[r] = None
    BY DEF WallKept
  <1>0. TypeOK /\ RefsExist
    BY DEF Typed
  <1>1. /\ scene[e] \in Templates /\ shape[scene[e]] = s
        /\ shape'[scene[e]] # s
    BY TemplatesAssumption DEF InView, RoomOf
  <1>2. ~ UNCHANGED shape
    BY <1>1
  <1>3. ASSUME NEW t \in Templates, NEW look \in Looks, NEW q \in Shapes,
               Create(t, look, q)
        PROVE  FALSE
    BY <1>0, <1>1, <1>3 DEF Create, TypeOK, RefsExist
  <1>4. ASSUME NEW r \in Requests, UpdateWrite(r)
        PROVE  <<r, e>> \in taken /\ job[r].on = scene[e] /\ job'[r] = None
    <2>1. /\ job[r] # None /\ job'[r] = None
          /\ shape' = [shape EXCEPT ![job[r].on] = OrElse(job[r].shape, shape[job[r].on])]
      BY <1>0, <1>4 DEF UpdateWrite, End, TypeOK
    <2>2. job[r].on = scene[e] /\ job[r].shape # None
      BY <1>0, <1>1, <2>1 DEF OrElse, TypeOK
    <2>. QED  BY <2>1, <2>2 DEF ShapeFresh
  <1>5. \/ UNCHANGED shape
        \/ \E t \in Templates, look \in Looks, q \in Shapes : Create(t, look, q)
        \/ \E r \in Requests : UpdateWrite(r)
    BY DEF Next, StartUpdate, Begin, Abort, CreateExhibition, UpdateExhibition, Hang, Rehang,
           TakeDown, templateRows, vars
  <1>. QED  BY <1>2, <1>3, <1>4, <1>5

LEMMA InitIInv == Init => Typed /\ ThemeIInv /\ ShapeFresh
  <1> SUFFICES ASSUME Init PROVE Typed /\ ThemeIInv /\ ShapeFresh
    OBVIOUS
  <1>1. Typed
    BY TemplatesAssumption DEF Init, Typed, TypeOK, RefsExist, Exists
  <1>2. ThemeIInv
    BY DEF Init, ThemeIInv, ThemeInStep, AloneOrMixed, TextureFresh, Exists
  <1>3. ShapeFresh
    BY DEF Init, ShapeFresh
  <1>. QED  BY <1>1, <1>2, <1>3

(***************************************************************************)
(* The theorems.                                                           *)
(***************************************************************************)

\* Every variable keeps its type, and a row of a template is complete or absent.
THEOREM TypeCorrect == Spec => []TypeOK
  <1>1. Typed => TypeOK
    BY DEF Typed
  <1>. QED  BY InitIInv, NextTyped, <1>1, PTL DEF Spec

\* However updates overlap, the theme keeps the colors of the columns, and their
\* textures while updates of the template take turns
\* (exhibition-templates.service.ts:98).
THEOREM ThemeFollows == Spec => []ThemeInStep
  <1>1. ThemeIInv => ThemeInStep
    BY DEF ThemeIInv
  <1>. QED  BY InitIInv, NextTyped, NextTheme, <1>1, PTL DEF Spec

\* Whatever overlaps, and whatever places clients send, the room changes under a
\* wall in view only by the write of an update that looked whether the template is
\* in use before this exhibition took it (exhibition-templates.service.ts:62).
THEOREM WallsKept == Spec => WallsStay
  <1> DEFINE Kept == \A e \in Exhibitions, s \in Shapes : WallKept(e, s)
  <1>1. Typed /\ ShapeFresh /\ [Next]_vars => [Kept]_vars
    BY StepKeepsWalls
  <1>2. Kept => \A e \in Exhibitions, s \in Shapes :
          s \in InView(e) /\ s \notin InView(e)' =>
              \/ s \notin hung'[e]
              \/ scene'[e] # scene[e]
              \/ \E r \in Requests :
                    <<r, e>> \in taken /\ job[r].on = scene[e] /\ job'[r] = None
    BY DEF WallKept
  <1>. QED  BY InitIInv, NextTyped, NextFresh, <1>1, <1>2, PTL DEF Spec, WallsStay

=============================================================================
