-------------------------------- MODULE SettingsRules --------------------------------
(***************************************************************************)
(* The settings a run is made with, asked for once, and what must hold of  *)
(* the answer.                                                             *)
(***************************************************************************)
EXTENDS Questions, Settings, Integers

CONSTANT Layers     \* the file, patches of global and project overrides, a request's

(***************************************************************************)
(* The file and every patch are nested mappings with strings for keys, so  *)
(* that no path of one goes on from another.                               *)
(***************************************************************************)
ASSUME LayersAssumption ==
  \A in \in Layers :
    /\ in.global \in Seq(Range(in.global))
    /\ in.project \in Seq(Range(in.project))
    /\ \A c \in {in.base, in.extra} \cup Range(in.global) \cup Range(in.project) :
         /\ c = [p \in DOMAIN c |-> c[p]]
         /\ DOMAIN c \subseteq Seq(STRING)
         /\ \A p, q \in DOMAIN c : ~Under(p, q)

SettingsInit == Asked("settings", Layers)

-----------------------------------------------------------------------------
ReadSettings ==
  /\ Open("settings")
  /\ LET global == Patched(input.global)
         project == Patched(input.project)
         effective == EffectiveConfig(input.base, global, project, input.extra)
     IN  Answer([ global |-> global, project |-> project,
                  effective |-> effective,
                  read |-> [p \in DOMAIN input.base |->
                              Get(effective, p)] ])

SettingsSpec == SettingsInit /\ [][ReadSettings]_questionVars

-----------------------------------------------------------------------------
(***************************************************************************)
(* The configuration has no path that goes on from another; a value is     *)
(* that of the topmost layer that has its path or touches it, and none is  *)
(* lost but to a higher layer.  The code's own default is read for a       *)
(* setting of the file only where an override put a value in the place of  *)
(* its section.  Patches of one layer, merged when they are made, differ   *)
(* from the same overrides applied in turn only where a later one opens a  *)
(* section where an earlier one had put a value: what that had hidden      *)
(* comes back (config.py, 24-65; service.py, 107-115, 1098-1113).          *)
(***************************************************************************)
SettingsLayered ==
  Answered("settings") =>
    LET layers == <<input.base, result.global, result.project, input.extra>>
        effective == result.effective
        free(p, k) == \A j \in k + 1 .. 4 : \A q \in DOMAIN layers[j] :
                        ~Meet(p, q)
        inTurn == FoldLeft(DeepUpdate, input.base,
                           input.global \o input.project \o <<input.extra>>)
        value(cfg, p) == Get(cfg, p)
        patches == Range(input.global) \cup Range(input.project)
    IN  /\ \A p, q \in DOMAIN effective : ~Under(p, q)
        /\ \A p \in DOMAIN effective :
             \E k \in 1 .. 4 :
               /\ p \in DOMAIN layers[k] /\ effective[p] = layers[k][p]
               /\ free(p, k)
        /\ \A k \in 1 .. 4 : \A p \in DOMAIN layers[k] :
             free(p, k) => p \in DOMAIN effective
        /\ \A p \in DOMAIN result.read :
             result.read[p] = NoConfig =>
               \E k \in 2 .. 4 : \E q \in DOMAIN layers[k] : Under(q, p)
        /\ \A p \in DOMAIN effective \cup DOMAIN inTurn :
             value(effective, p) # value(inTurn, p) =>
               \E a, b \in patches : \E q \in DOMAIN a : \E u \in DOMAIN b :
                 Under(q, u) /\ Under(q, p)
=============================================================================
