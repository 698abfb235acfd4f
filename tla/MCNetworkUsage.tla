--------------------------- MODULE MCNetworkUsage ---------------------------
(***************************************************************************)
(* Three days, the last one in a new month, and two workers.  The report   *)
(* of the totals never acts on them, so the two modules are explored side  *)
(* by side in one run and not multiplied: a behaviour is one of the        *)
(* reports before anything is sampled, or one of the samplers with the     *)
(* server at the report of day 0.                                          *)
(***************************************************************************)
EXTENDS NetworkUsage, UsageReport

MCMaxBytes == [up |-> 1, down |-> 0]

ReportAtRest ==
  /\ row = [day |-> 0, total |-> 0] /\ sampled = {row}
  /\ beat = {} /\ late = {} /\ failures = 0 /\ restarts = 0

MCInit == Init /\ ReportInit

SamplersStep == Next /\ ReportAtRest /\ UNCHANGED reportVars
ReportStep   == ReportNext /\ Init /\ UNCHANGED vars

MCSpec ==
  /\ MCInit
  /\ [][SamplersStep \/ ReportStep]_<<vars, reportVars>>
  /\ WF_reportVars(Sample /\ ReportStep)
  /\ SF_reportVars(Deliver /\ ReportStep)

=============================================================================
