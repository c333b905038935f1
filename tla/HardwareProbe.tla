----------------------------- MODULE HardwareProbe -----------------------------
(***************************************************************************)
(* collect_hardware_probe (env_probe/hardware.py): four read-only commands *)
(* and what is made of them, the record's status and the host's video      *)
(* memory, read off the lines of `nvidia-smi -q`.                          *)
(***************************************************************************)
EXTENDS ProbeStatus, SequencesExt

Commands == {"uname_a", "python_version", "nvidia_smi", "nvidia_smi_q"}

\* _overall_status: the worst of the four by a fixed order.
OverallStatus(status) ==
  LET seen == {status[c] : c \in Commands} IN
  IF "error" \in seen THEN "error"
  ELSE IF "timeout" \in seen THEN "timeout"
  ELSE IF "unsupported" \in seen THEN "unsupported"
  ELSE IF "skipped" \in seen THEN "skipped"
  ELSE "ok"

(***************************************************************************)
(* The report: for each GPU a block "FB Memory Usage" and a block "BAR1    *)
(* Memory Usage", each with a line "Total : n MiB" or "Total : N/A".       *)
(***************************************************************************)
NotAvailable == 0

Header(block) == [is |-> block, mib |-> NotAvailable]
Total(mib)    == [is |-> "total", mib |-> mib]

Block(gpu) == <<Header("fb"), Total(gpu.fb), Header("bar1"), Total(gpu.bar1)>>

Report(gpus) == [l \in 1..4 * Len(gpus) |-> Block(gpus[1 + ((l - 1) \div 4)])[1 + ((l - 1) % 4)]]

\* Mutant: in_fb_memory_block is not reset after a match.
ReadLineStaying(acc, line) ==
  CASE line.is = "fb"                                    -> [acc EXCEPT !.inBlock = TRUE]
    [] acc.inBlock /\ line.is = "total" /\ line.mib # NotAvailable
                                                         -> [acc EXCEPT !.sum = @ + line.mib]
    [] OTHER                                             -> acc

\* One line of _extract_vram_totals_mib: a header opens the block, a total
\* with a number in it closes it; any other line leaves it open.
ReadLine(acc, line) ==
  CASE line.is = "fb"                                    -> [inBlock |-> TRUE,
                                                             sum |-> acc.sum]
    [] acc.inBlock /\ line.is = "total" /\ line.mib # NotAvailable
                                                         -> [inBlock |-> FALSE,
                                                             sum |-> acc.sum + line.mib]
    [] OTHER                                             -> acc

\* The loop over the lines, and the sum of what it found.
VramTotalMib(lines) ==
  LET read[l \in 0..Len(lines)] ==
        IF l = 0 THEN [inBlock |-> FALSE, sum |-> 0] ELSE ReadLine(read[l - 1], lines[l])
  IN read[Len(lines)].sum

\* What the record's video memory is meant to be.
SumOfFb(gpus) ==
  LET sum[i \in 0..Len(gpus)] == IF i = 0 THEN 0 ELSE sum[i - 1] + gpus[i].fb
  IN sum[Len(gpus)]

\* How the four commands may end: the record's status, and whether the report
\* of nvidia_smi_q is whole.  The text of a command that did not end with 0 may
\* stop anywhere.
Outcomes ==
  {[status |-> OverallStatus([c \in Commands |-> RunCommand(exits[c])]),
    whole  |-> exits["nvidia_smi_q"] = "zero"] : exits \in [Commands -> Exit]}

HardwareRecords(gpus) ==
  {[status |-> outcome.status, vram |-> VramTotalMib(lines)] :
     outcome \in {o \in Outcomes : o.whole}, lines \in {Report(gpus)}}
  \cup
  {[status |-> outcome.status, vram |-> VramTotalMib(lines)] :
     outcome \in {o \in Outcomes : ~o.whole}, lines \in Prefixes(Report(gpus))}
=============================================================================
