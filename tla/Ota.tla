-------------------------------- MODULE Ota ---------------------------------
(***************************************************************************)
(* The update of the firmware of a device (adapter/service/ota).  The      *)
(* application sends the status as the update proceeds; None is idle, of which *)
(* nothing is sent.                                                        *)
(***************************************************************************)
EXTENDS ServiceCalls, Integers

StatusReport == "ota"

\* A status with its progress, or the error it ended with.
Started == [status |-> "started"]
InProgress(p) == [status |-> "in_progress", progress |-> p]
Done(e) == [status |-> "done", error |-> e]

validate(report) ==
    CASE report.status = "in_progress" -> report.progress \in 0..100
      [] report.status = "done" -> report.error \in {Empty, "low_battery", "other"}
      [] OTHER -> TRUE

Statuses ==
    {None, Started, InProgress(101), Done("other"), Done("cosmic_ray")}

StartUpdate(firmwarePath) ==
    Given(firmwarePath # Empty, Change(Takes(Attribute(StatusReport, Empty), {None, Started})))

SendStatusReport ==
    Uncached(Checked(Report(StatusReport, NoKey, OnChange, TRUE),
                     {s \in Statuses : s = None \/ validate(s)}))

handleCmdOTAUpdateStart(firmwarePath) == <<StartUpdate(firmwarePath)>>

Values == Takes(Attribute(StatusReport, Empty), Statuses)

Commands == {handleCmdOTAUpdateStart(p) : p \in {Empty, "path"}} \cup {<<SendStatusReport>>}
=============================================================================
