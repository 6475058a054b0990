----------------------------- MODULE SceneCtrl ------------------------------
(***************************************************************************)
(* A scene controller (adapter/service/scenectrl).  The same scene may be  *)
(* chosen again, so what is cached is a scene and the time it was chosen at; *)
(* a message carries the scene.                                            *)
(***************************************************************************)
EXTENDS ServiceCalls

CONSTANT Specification

SceneReport == "evt.scene.report"

Specifications == {[sup_scenes |-> {"day", "night"}]}

isSceneSupported(scene) == scene \in {Listed(s) : s \in Specification.sup_scenes}

SetScene(scene) ==
    Given(isSceneSupported(scene),
          Set(Takes(Attribute(SceneReport, Empty), {<<scene[1], t>> : t \in {1, 2}})))

SendSceneReport(force) == Report(SceneReport, NoKey, OnChange, force)

HandleCmdSceneSet(scene) == <<SetScene(scene), SendSceneReport(TRUE)>>

HandleCmdSceneGetReport == <<SendSceneReport(TRUE)>>

handleReporting == <<SendSceneReport(FALSE)>>

\* What a message carries of a scene report.
Scene(value) == value[1]

Values == Takes(Attribute(SceneReport, Empty), {"day", "away"} \X {1, 2})

\* What the specification lets a command set.
Limits == Takes(Attribute(SceneReport, Empty), Specification.sup_scenes \X {1, 2})

Commands ==
    {HandleCmdSceneSet(s) : s \in Spelled({"day", "away"})} \cup {HandleCmdSceneGetReport}
=============================================================================
