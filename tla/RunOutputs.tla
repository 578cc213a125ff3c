------------------------------ MODULE RunOutputs ------------------------------
(* The two files a run leaves beside the ledger, FINDINGS.md and the JSONL   *)
(* cost ledger, as sequences of what their readers can tell apart.           *)
(*   FINDINGS.md: one entry per run marker; "whole" when the closing marker  *)
(*     is there, "cut" when a crash cut the section short, "split" when it   *)
(*     did so inside a character of more than one byte (every section, and   *)
(*     the header the first write puts before it, has such characters).  A   *)
(*     fragment that ends inside the opening marker is invisible to every    *)
(*     reader, and left out.                                                 *)
(*   cost ledger: one entry per line: "row" is a complete line, "bare" a     *)
(*     complete JSON object whose newline was never written, "torn" an       *)
(*     unparseable line without a newline, "garbled" one with it.            *)
EXTENDS Naturals, Sequences

CONSTANTS Runs

Statuses == {"NONE", "RUNNING", "COMPLETED", "FAILED"}
SectionForms == {"whole", "cut", "split"}
Sections == [run : Runs, form : SectionForms, status : Statuses]
LineForms == {"row", "bare", "torn", "garbled"}
Lines == [run : Runs, form : LineForms]

----------------------------------------------------------------------------
\* sentinel/report.py

SectionAt(report, r) == {i \in DOMAIN report : report[i].run = r}

\* read_text(encoding="utf-8") returns; otherwise it raises, here and in every
\* later reading.
Decodes(report) == \A i \in DOMAIN report : report[i].form # "split"

\* is_section_complete: both of r's markers occur somewhere in the file.
SectionComplete(report, r) == \E i \in SectionAt(report, r) : report[i].form = "whole"

\* The repair in append_run_section: cut the file at r's first opening marker.
CutAt(report, r) ==
    IF SectionAt(report, r) = {} THEN report
    ELSE SubSeq(report, 1,
                (CHOOSE i \in SectionAt(report, r) :
                     \A j \in SectionAt(report, r) : i <= j) - 1)

Section(r, status, form) == [run |-> r, form |-> form, status |-> status]

\* Mutant: the fragment is not cut away first.
AppendSection_NoRepair(report, r, status) ==
    IF SectionComplete(report, r) THEN report
    ELSE Append(report, Section(r, status, "whole"))

\* Mutant: a complete section is rendered again.
AppendSection_Rewrite(report, r, status) ==
    Append(CutAt(report, r), Section(r, status, "whole"))

\* append_run_section: nothing when complete, else repair and append.
AppendSection(report, r, status) ==
    IF SectionComplete(report, r) THEN report
    ELSE Append(CutAt(report, r), Section(r, status, "whole"))

\* What a write that dies part-way can leave behind.
TornReports(report, r, status) ==
    IF SectionComplete(report, r) THEN {report}
    ELSE {report, CutAt(report, r)} \cup
         {Append(CutAt(report, r), Section(r, status, form)) : form \in {"cut", "split"}}

----------------------------------------------------------------------------
\* sentinel/costs.py and telemetry/cost_ledger.py

Parses(line) == line.form \in {"row", "bare"}
HasNewline(line) == line.form \in {"row", "garbled"}

\* read_cost_rows raises when any line is unreadable; has_cost_row_for_run
\* turns that into "not found".
Readable(costs) == \A i \in DOMAIN costs : Parses(costs[i])
HasCostRow(costs, r) == Readable(costs) /\ \E i \in DOMAIN costs : costs[i].run = r

\* repair_trailing_fragment: drop the last line if it does not parse; the
\* rewritten file ends every remaining line with a newline.
RepairTrailing(costs) ==
    IF costs = <<>> THEN costs
    ELSE IF Parses(costs[Len(costs)]) THEN costs
    ELSE SubSeq(costs, 1, Len(costs) - 1)

\* append_cost_row, and a write of it that stops short: bytes appended to a
\* file whose last line lacks its newline land on that line.
AppendLine(costs, r, form) ==
    IF costs = <<>> \/ HasNewline(costs[Len(costs)])
    THEN Append(costs, [run |-> r, form |-> form])
    ELSE [costs EXCEPT ![Len(costs)] =
             [run |-> r, form |-> IF form = "row" THEN "garbled" ELSE "torn"]]

\* Mutant: the row is not looked for again after the repair.
AppendCost_NoRecheck(costs, r) ==
    IF HasCostRow(costs, r) THEN costs
    ELSE AppendLine(RepairTrailing(costs), r, "row")

\* Mutant: the trailing fragment is left in place.
AppendCost_NoRepair(costs, r) ==
    IF HasCostRow(costs, r) THEN costs ELSE AppendLine(costs, r, "row")

\* The cost half of _write_run_outputs.
AppendCost(costs, r) ==
    LET repaired == RepairTrailing(costs)
    IN  IF HasCostRow(costs, r) THEN costs
        ELSE IF HasCostRow(repaired, r) THEN repaired
        ELSE AppendLine(repaired, r, "row")

\* What that can leave behind when it dies part-way; tears are the forms an
\* interrupted append may leave.
TornCosts(costs, r, tears) ==
    LET repaired == RepairTrailing(costs)
    IN  IF HasCostRow(costs, r) THEN {costs}
        ELSE IF HasCostRow(repaired, r) THEN {costs, repaired}
        ELSE {costs, repaired} \cup {AppendLine(repaired, r, form) : form \in tears}
=============================================================================
