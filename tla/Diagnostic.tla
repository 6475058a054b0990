----------------------------- MODULE Diagnostic -----------------------------
(***************************************************************************)
(* The diagnostics of a device (adapter/service/diagnostic), each reported on *)
(* request only, if the controller implements its interface, and not cached. *)
(***************************************************************************)
EXTENDS ServiceCalls

CONSTANT Specification

\* The interfaces of the controller, and the events they report.
Events ==
    [LQIReporter |-> "evt.lqi.report", RSSIReporter |-> "evt.rssi.report",
     RebootReasonReporter |-> "evt.reboot_reason.report",
     RebootsCountReporter |-> "evt.reboots_count.report",
     UptimeReporter |-> "evt.uptime.report", ErrorsReporter |-> "evt.errors.report"]

Specifications == [controller : {DOMAIN Events, {"LQIReporter"}}]

Send(interface) ==
    Given(interface \in Specification.controller,
          Uncached(Report(Events[interface], NoKey, OnChange, TRUE)))

SendLQIReport == Send("LQIReporter")
SendRSSIReport == Send("RSSIReporter")
SendRebootReasonReport == Send("RebootReasonReporter")
SendRebootsCountReport == Send("RebootsCountReporter")
SendUptimeReport == Send("UptimeReporter")
SendErrorsReport == Send("ErrorsReporter")

handleSendReport(send) == <<send>>

Values ==
    [a \in {Attribute(Events[i], Empty) : i \in Specification.controller} |-> {0, 1}]

Commands ==
    {handleSendReport(c) : c \in {SendLQIReport, SendRSSIReport, SendRebootReasonReport,
                                  SendRebootsCountReport, SendUptimeReport, SendErrorsReport}}
=============================================================================
