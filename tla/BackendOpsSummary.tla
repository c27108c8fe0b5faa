-------------------------- MODULE BackendOpsSummary --------------------------
(***************************************************************************)
(* BackendOpsSummary of src/harness/backend-ops/summary.mjs: the judge     *)
(* that reads the output of test-backend-ops as it arrives and decides     *)
(* whether the run is a pass.                                              *)
(*                                                                         *)
(* The program is external: it prints the heading of each backend section, *)
(* then the outcome of the cases it gets to, each at most once a section,  *)
(* and it may end at any point.  A line is three pieces, two of text and   *)
(* its newline, so that a chunk may end within a line: like the bytes of a *)
(* file, the text in `carry' is where it starts and how many pieces it     *)
(* has.  An outcome is the set of the words classifyOutcome looks for.     *)
(***************************************************************************)
EXTENDS Integers, Sequences, FiniteSets

CONSTANTS
  Cases,                \* the cases of the test file, one per non-empty line
  NoCase,               \* the case of a heading
  Outcomes,             \* texts of an outcome, as sets of words
  MaxLines              \* bound: lines the program prints

Words == {"ok", "unsupported", "skipped", "fail"}

ASSUME CasesAssumption == IsFiniteSet(Cases) /\ NoCase \notin Cases
ASSUME OutcomesAssumption == Outcomes \subseteq SUBSET Words
ASSUME LinesAssumption == MaxLines \in Nat

Unknown == -1           \* expected when there is no --test-file

VARIABLES
  output,               \* the lines the program has printed
  ended,                \* it has exited or aborted
  fed,                  \* how many pieces of its output feed() was given
  flushed,              \* flush() was called, after the end
  expected, sections, current, orphans, carry

program == <<output, ended>>
counted == <<sections, current, orphans>>
vars == <<output, ended, fed, flushed, expected, sections, current, orphans, carry>>

STATUSES == {"OK", "FAIL", "NOT_SUPPORTED", "SKIPPED", "UNKNOWN"}
Counts == [STATUSES -> Nat]
Line == [kind : {"heading", "case", "garbled"}, section : Nat, target : BOOLEAN,
         case : Cases \cup {NoCase}, outcome : SUBSET Words]

PerLine == 3

TypeOK ==
  /\ output \in Seq(Line) /\ ended \in BOOLEAN /\ flushed \in BOOLEAN
  /\ fed \in Nat
  /\ expected \in {Unknown, Cardinality(Cases)}
  /\ sections \in Seq([target : BOOLEAN, counts : Counts])
  /\ current \in 0 .. Len(sections)
  /\ orphans \in Counts
  /\ carry \in [from : Nat, length : Nat]

emptyCounts == [s \in STATUSES |-> 0]

Init ==
  /\ output = <<>> /\ ended = FALSE
  /\ fed = 0 /\ flushed = FALSE
  /\ expected \in {Unknown, Cardinality(Cases)}
  /\ sections = <<>> /\ current = 0
  /\ orphans = emptyCounts
  /\ carry = [from |-> 0, length |-> 0]

-----------------------------------------------------------------------------
(* The program.                                                            *)

Prints(l) ==
  /\ ~ended /\ Len(output) < MaxLines
  /\ output' = Append(output, l)
  /\ UNCHANGED <<ended, fed, flushed, expected, sections, current, orphans, carry>>

LastSection == IF output = <<>> THEN 0 ELSE output[Len(output)].section

PrintHeading(target) ==
  Prints([kind |-> "heading", section |-> LastSection + 1, target |-> target,
          case |-> NoCase, outcome |-> {}])

(* A garbled line is one the parser does not recognise. *)
PrintCase(c, outcome, kind) ==
  /\ \A j \in 1 .. Len(output) :
       output[j].section = LastSection => output[j].case # c
  /\ Prints([kind |-> kind, section |-> LastSection, target |-> FALSE,
             case |-> c, outcome |-> outcome])

End ==
  /\ ~ended
  /\ ended' = TRUE
  /\ UNCHANGED <<output, fed, flushed, expected, sections, current, orphans, carry>>

-----------------------------------------------------------------------------
classifyOutcome(outcome) ==
  CASE "ok" \in outcome -> "OK"
    [] "ok" \notin outcome /\ "unsupported" \in outcome -> "NOT_SUPPORTED"
    [] outcome \cap {"ok", "unsupported"} = {} /\ "skipped" \in outcome -> "SKIPPED"
    [] outcome = {"fail"} -> "FAIL"
    [] OTHER -> "UNKNOWN"

ReadHeading(target) ==
  /\ sections' = Append(sections, [target |-> target, counts |-> emptyCounts])
  /\ current' = Len(sections) + 1
  /\ UNCHANGED orphans

ReadCase(status) ==
  /\ \/ /\ current = 0
        /\ orphans' = [orphans EXCEPT ![status] = @ + 1]
        /\ UNCHANGED sections
     \/ /\ current > 0
        /\ sections' = [sections EXCEPT ![current].counts[status] = @ + 1]
        /\ UNCHANGED orphans
  /\ UNCHANGED current

(* line(): what it makes of a whole line of the output. *)
ReadWhole(l) ==
  \/ l.kind = "heading" /\ ReadHeading(l.target)
  \/ l.kind = "case" /\ ReadCase(classifyOutcome(l.outcome))
  \/ l.kind = "garbled" /\ UNCHANGED counted

(* What it may make of a part of one: the heading of some other backend, a  *)
(* case whose outcome is complete or cut, or nothing.                       *)
ReadPart(l) ==
  \/ l.kind = "heading" /\ \E target \in {l.target, FALSE} : ReadHeading(target)
  \/ l.kind = "case" /\ \E status \in {classifyOutcome(l.outcome), "UNKNOWN"} : ReadCase(status)
  \/ UNCHANGED counted

line(from, length) ==
  LET l == output[(from \div PerLine) + 1]
  IN  IF from % PerLine = 0 /\ length = PerLine - 1 THEN ReadWhole(l) ELSE ReadPart(l)

(* There is a newline in carry, the first one is piece Newline. *)
Newline == PerLine * ((carry.from \div PerLine) + 1)
HasLine == Newline <= carry.from + carry.length

(* feed(chunk), up to its loop. *)
Feed(length) ==
  /\ ~flushed /\ ~HasLine
  /\ length \in 1 .. (PerLine * Len(output) - fed)
  /\ fed' = fed + length
  /\ carry' = [carry EXCEPT !.length = @ + length]
  /\ UNCHANGED <<output, ended, flushed, expected, sections, current, orphans>>

(* Mutant: what follows the newline is dropped with the line. *)
TakeLineDropsRest ==
  /\ HasLine
  /\ line(carry.from, Newline - 1 - carry.from)
  /\ carry' = [from |-> carry.from + carry.length, length |-> 0]
  /\ UNCHANGED <<output, ended, fed, flushed, expected>>

(* One turn of its loop. *)
TakeLine ==
  /\ HasLine
  /\ line(carry.from, Newline - 1 - carry.from)
  /\ carry' = [from |-> Newline, length |-> carry.from + carry.length - Newline]
  /\ UNCHANGED <<output, ended, fed, flushed, expected>>

(* flush(), by the page's setVerdict when the program is over. *)
Flush ==
  /\ ended /\ ~flushed /\ ~HasLine
  /\ flushed' = TRUE
  /\ \/ carry.length > 0 /\ line(carry.from, carry.length)
     \/ carry.length = 0 /\ UNCHANGED counted
  /\ carry' = [from |-> carry.from + carry.length, length |-> 0]
  /\ UNCHANGED <<output, ended, fed, expected>>

-----------------------------------------------------------------------------
(* verdict().                                                              *)

total(counts) == counts["OK"] + counts["FAIL"] + counts["NOT_SUPPORTED"]
                 + counts["SKIPPED"] + counts["UNKNOWN"]

targets == {i \in 1 .. Len(sections) : sections[i].target}

(* Mutant: the cases of every section that matches are added up. *)
PassSummed ==
  /\ targets # {} /\ total(orphans) = 0 /\ expected > 0
  /\ \A i \in targets : total(sections[i].counts) = sections[i].counts["OK"]
  /\ LET ok(i) == IF i \in targets THEN sections[i].counts["OK"] ELSE 0
     IN  ok(1) + (IF Len(sections) > 1 THEN ok(2) ELSE 0) = expected

Pass ==
  \E i \in targets :
    /\ targets = {i}
    /\ total(orphans) = 0
    /\ expected > 0
    /\ total(sections[i].counts) = expected
    /\ sections[i].counts["OK"] = expected

-----------------------------------------------------------------------------
Next ==
  \/ \E target \in BOOLEAN : PrintHeading(target)
  \/ \E c \in Cases, o \in Outcomes, kind \in {"case", "garbled"} : PrintCase(c, o, kind)
  \/ End
  \/ \E length \in 1 .. (PerLine * MaxLines) : Feed(length)
  \/ TakeLine \/ Flush

Spec == Init /\ [][Next]_vars

-----------------------------------------------------------------------------
(* Properties.                                                             *)

(* The program printed that case c passed in section s. *)
Passed(c, s) ==
  \E j \in 1 .. Len(output) : /\ output[j].kind = "case" /\ output[j].section = s
                              /\ output[j].case = c /\ "ok" \in output[j].outcome

Heading(j) == output[j].kind = "heading"

(* A pass is earned, at whatever moment verdict() is asked and however the  *)
(* output was cut into chunks: every declared case passed in one section    *)
(* whose heading names the target, and of the lines read so far no other    *)
(* heading names it and no case came before the first heading.              *)
PassIsEarned ==
  Pass =>
    \E s \in 1 .. Len(sections) :
      /\ \A c \in Cases : Passed(c, s)
      /\ \E j \in 1 .. Len(output) : Heading(j) /\ output[j].section = s /\ output[j].target
      /\ \A j \in 1 .. (carry.from \div PerLine) :
           /\ Heading(j) /\ output[j].target => output[j].section = s
           /\ output[j].kind = "case" => output[j].section > 0

(* What a run must have printed to pass. *)
Perfect ==
  /\ \A j \in 1 .. Len(output) : output[j].kind = "case" => output[j].section > 0
  /\ \E h \in 1 .. Len(output) :
       /\ {j \in 1 .. Len(output) : Heading(j) /\ output[j].target} = {h}
       /\ \A c \in Cases : Passed(c, output[h].section)

(* Once the output was fed to its end, but perhaps for the last newline,    *)
(* and flushed, the verdict is exact: a run that deserves to pass does, and *)
(* no other, whatever the slices were.                                      *)
VerdictIsExact ==
  flushed /\ fed >= PerLine * Len(output) - 1 /\ expected > 0 => (Pass <=> Perfect)

=============================================================================
