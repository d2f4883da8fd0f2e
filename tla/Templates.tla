----------------------------- MODULE Templates -----------------------------
(***************************************************************************)
(* Room presets and the exhibitions that use them:                         *)
(* ExhibitionTemplatesService, deriveTheme (exhibition-templates/theme.ts) *)
(* and the part of ExhibitionsService that points an exhibition at a        *)
(* template.                                                               *)
(*                                                                         *)
(* update() reads the template and the number of its exhibitions, merges   *)
(* what the request leaves out from what it read, and writes by id; other  *)
(* requests run in between.  A column given as undefined is not written:   *)
(* that is what happens to a texture that neither the request nor the row  *)
(* that was read has.                                                      *)
(***************************************************************************)
EXTENDS Naturals, FiniteSets

CONSTANTS
    Templates,     \* template ids, of one organization
    Exhibitions,
    Colors,        \* one color stands for the three of wall, floor and ceiling
    Textures,      \* likewise for the optional textures
    Shapes,        \* values of roomShape; no two have a wall in common
    Requests,      \* slots for updates in flight
    None           \* undefined, null, or no row

ASSUME TemplatesAssumption ==
    /\ None \notin Templates \cup Exhibitions \cup Colors \cup Textures \cup Shapes
    /\ "none" \notin Templates \cup {None}

VARIABLES
    flat,     \* the color and texture columns of a template, or None
    theme,    \* its theme column
    shape,    \* its roomShape column
    scene,    \* Exhibition.exhibitionTemplateId: a template, None for another
              \* kind of scene, "none" before the row exists
    hung,     \* the room shapes whose walls the artworks' positionData name
    job,      \* what each update is about to write, None for a free slot
    mixed,    \* templates that two updates were in flight for (history)
    taken     \* pairs <<update, exhibition>>: the exhibition has taken the template
              \* since the update in flight looked whether it is in use (history)

templateRows == <<flat, theme, shape>>
exhibitionRows == <<scene, hung>>
history == <<mixed, taken>>
vars == <<flat, theme, shape, scene, hung, job, mixed, taken>>

Looks == [color : Colors, texture : Textures \cup {None}]
Jobs == [on : Templates, look : Looks, shape : Shapes \cup {None}]

ASSUME NoneAssumption == None \notin Looks \cup Jobs

Exists(t) == flat[t] # None
UsersOf(t) == {e \in Exhibitions : scene[e] = t}
\* The shape of the room that e has from its template.
RoomOf(e) == IF scene[e] \in Templates THEN shape[scene[e]] ELSE None

Updating(t) == {r \in Requests : job[r] # None /\ job[r].on = t}

\* Every other field of a theme is fixed or one of the colors again.
DeriveTheme(look) == [color |-> look.color, texture |-> look.texture]

\* a ?? b
OrElse(a, b) == IF a # None THEN a ELSE b

-----------------------------------------------------------------------------
(* ExhibitionTemplatesService.                                                *)

Create(t, look, s) ==
    /\ ~Exists(t)
    /\ flat' = [flat EXCEPT ![t] = look]
    /\ theme' = [theme EXCEPT ![t] = DeriveTheme(look)]
    /\ shape' = [shape EXCEPT ![t] = s]
    /\ UNCHANGED <<exhibitionRows, job, history>>

Begin(r, t, look, s) ==
    /\ job[r] = None
    /\ job' = [job EXCEPT ![r] = [on |-> t, look |-> look, shape |-> s]]
    /\ mixed' = IF Updating(t) # {} THEN mixed \cup {t} ELSE mixed
    /\ UNCHANGED <<templateRows, exhibitionRows, taken>>

End(r) ==
    /\ job' = [job EXCEPT ![r] = None]
    /\ taken' = {p \in taken : p[1] # r}
    /\ UNCHANGED mixed

\* fault: the room shape of a template in use is not locked
StartUpdateUnlocked(r, t, color, texture, s) ==
    /\ Exists(t)
    /\ Begin(r, t, [color |-> OrElse(color, flat[t].color),
                    texture |-> OrElse(texture, flat[t].texture)], s)

\* fault: a texture the request leaves out is not taken from the row
StartUpdateBare(r, t, color, texture, s) ==
    /\ Exists(t)
    /\ s # None => UsersOf(t) = {}
    /\ Begin(r, t, [color |-> OrElse(color, flat[t].color), texture |-> texture], s)

\* update() up to its write: the fields of the request, None where it has none.
StartUpdate(r, t, color, texture, s) ==
    /\ Exists(t)
    /\ s # None => UsersOf(t) = {}
    /\ Begin(r, t, [color |-> OrElse(color, flat[t].color),
                    texture |-> OrElse(texture, flat[t].texture)], s)

\* fault: a shape that is not given is written as null
UpdateWriteNull(r) ==
    /\ job[r] # None
    /\ LET t == job[r].on
           look == job[r].look
       IN /\ flat' = [flat EXCEPT ![t].color = look.color,
                                  ![t].texture = OrElse(look.texture, @)]
          /\ theme' = [theme EXCEPT ![t] = DeriveTheme(look)]
          /\ shape' = [shape EXCEPT ![t] = job[r].shape]
    /\ End(r)
    /\ UNCHANGED exhibitionRows

UpdateWrite(r) ==
    /\ job[r] # None
    /\ LET t == job[r].on
           look == job[r].look
       IN /\ flat' = [flat EXCEPT ![t].color = look.color,
                                  ![t].texture = OrElse(look.texture, @)]
          /\ theme' = [theme EXCEPT ![t] = DeriveTheme(look)]
          /\ shape' = [shape EXCEPT ![t] = OrElse(job[r].shape, @)]
    /\ End(r)
    /\ UNCHANGED exhibitionRows

\* The process stops before the write.
Abort(r) ==
    /\ job[r] # None
    /\ End(r)
    /\ UNCHANGED <<templateRows, exhibitionRows>>

-----------------------------------------------------------------------------
(* ExhibitionsService.create and update: resolveTemplateId looks the template *)
(* up, and as none is ever deleted what it found stays true, so the write is  *)
(* the step.  A scene of another kind clears the reference.                   *)

Point(e, t) ==
    /\ t # None => Exists(t)
    /\ scene' = [scene EXCEPT ![e] = t]
    /\ taken' = taken \cup (Updating(t) \X {e})

CreateExhibition(e, t) ==
    /\ scene[e] = "none"
    /\ Point(e, t)
    /\ UNCHANGED <<templateRows, hung, job, mixed>>

\* update() with a sceneConfig, whatever hangs in the exhibition.
UpdateExhibition(e, t) ==
    /\ scene[e] # "none"
    /\ Point(e, t)
    /\ UNCHANGED <<templateRows, hung, job, mixed>>

\* addArtwork stores the place the client sends, on a wall of any room.
Hang(e, s) ==
    /\ scene[e] # "none"
    /\ hung' = [hung EXCEPT ![e] = @ \cup {s}]
    /\ UNCHANGED <<templateRows, scene, job, history>>

\* updateArtworkLink moves the last artwork on a wall of s to whatever wall the
\* client sends (an earlier one adds that wall, as Hang does).
Rehang(e, s, q) ==
    /\ s \in hung[e]
    /\ hung' = [hung EXCEPT ![e] = (@ \ {s}) \cup {q}]
    /\ UNCHANGED <<templateRows, scene, job, history>>

\* A link is removed, the last on a wall of that shape (an earlier one changes
\* nothing here).
TakeDown(e, s) ==
    /\ s \in hung[e]
    /\ hung' = [hung EXCEPT ![e] = @ \ {s}]
    /\ UNCHANGED <<templateRows, scene, job, history>>

-----------------------------------------------------------------------------
Init ==
    /\ flat = [t \in Templates |-> None]
    /\ theme = [t \in Templates |-> None]
    /\ shape = [t \in Templates |-> None]
    /\ scene = [e \in Exhibitions |-> "none"]
    /\ hung = [e \in Exhibitions |-> {}]
    /\ job = [r \in Requests |-> None]
    /\ mixed = {}
    /\ taken = {}

Next ==
    \/ \E t \in Templates :
        \/ \E look \in Looks, s \in Shapes : Create(t, look, s)
        \/ \E r \in Requests, color \in Colors \cup {None},
              texture \in Textures \cup {None}, s \in Shapes \cup {None} :
                StartUpdate(r, t, color, texture, s)
    \/ \E r \in Requests : UpdateWrite(r) \/ Abort(r)
    \/ \E e \in Exhibitions :
        \/ \E t \in Templates \cup {None} : CreateExhibition(e, t) \/ UpdateExhibition(e, t)
        \/ \E s \in Shapes :
            \/ Hang(e, s) \/ TakeDown(e, s)
            \/ \E q \in Shapes : Rehang(e, s, q)

Spec == Init /\ [][Next]_vars

-----------------------------------------------------------------------------
(* Properties of every interleaving.                                          *)

\* Every variable has its type, and a row has all its required columns.
TypeOK ==
    /\ flat \in [Templates -> Looks \cup {None}]
    /\ theme \in [Templates -> Looks \cup {None}]
    /\ shape \in [Templates -> Shapes \cup {None}]
    /\ \A t \in Templates : Exists(t) <=> theme[t] # None
    /\ \A t \in Templates : Exists(t) <=> shape[t] # None
    /\ scene \in [Exhibitions -> Templates \cup {None, "none"}]
    /\ hung \in [Exhibitions -> SUBSET Shapes]
    /\ job \in [Requests -> Jobs \cup {None}]
    /\ mixed \subseteq Templates
    /\ taken \subseteq Requests \X Exhibitions

\* The theme never drifts from the flat columns it was computed from
\* (exhibition-templates.service.ts:98): the colors however updates overlap,
\* the textures as long as no two updates of the template were in flight
\* together.
ThemeInStep ==
    \A t \in Templates :
        Exists(t) =>
            /\ theme[t].color = flat[t].color
            /\ theme[t].texture = flat[t].texture \/ t \in mixed

\* The walls of its room on which artworks of e hang; the others name a wall the
\* room does not have.
InView(e) == {s \in hung[e] : s = RoomOf(e)}

\* No artwork is dropped from the scene because its wall is gone
\* (exhibition-templates.service.ts:62): artworks that hang on a wall of the room
\* stay in view until they are moved or taken down, or the curator gives the
\* exhibition another scene.  The wall goes under them only by the write of an
\* update whose look for exhibitions came before this one took the template.
WallsStay ==
    [][\A e \in Exhibitions, s \in Shapes :
          s \in InView(e) /\ s \notin InView(e)' =>
              \/ s \notin hung'[e]
              \/ scene'[e] # scene[e]
              \/ \E r \in Requests :
                    <<r, e>> \in taken /\ job[r].on = scene[e] /\ job'[r] = None]_vars

=============================================================================
