----------------------- MODULE BackendOpsSummaryProofs -----------------------
(***************************************************************************)
(* A pass is earned, and the verdict on a run read to its end is exact,   *)
(* for any set of cases, any outcomes, and output of any length, cut       *)
(* anywhere.                                                               *)
(***************************************************************************)
EXTENDS BackendOpsSummary, FiniteSetTheorems, TLAPS

(* Lines handed to line(), and those of them that were whole. *)
Read == (carry.from + (PerLine - 1)) \div PerLine
Whole == carry.from \div PerLine

SectionAt(n) == IF n = 0 THEN 0 ELSE output[n].section

PassedBy(n, s) ==
  {c \in Cases : \E j \in 1 .. n : /\ output[j].kind = "case" /\ output[j].section = s
                                   /\ output[j].case = c /\ "ok" \in output[j].outcome}

(* What the program prints: the sections are numbered by their headings,   *)
(* and a case has at most one line in each.                                *)
Numbered ==
  \A j \in 1 .. Len(output) :
    output[j].section = SectionAt(j - 1) + (IF output[j].kind = "heading" THEN 1 ELSE 0)
CaseOnce ==
  \A j, k \in 1 .. Len(output) :
    /\ output[j].kind = "case" /\ output[k].kind = "case"
    /\ output[j].section = output[k].section /\ output[j].case = output[k].case
    => j = k
CasesNamed == \A j \in 1 .. Len(output) : output[j].kind = "case" => output[j].case \in Cases

(* The carry is the text between the last line taken and the end of what   *)
(* was fed, and starts at the start of a line until it is flushed.         *)
CarryFollows ==
  /\ carry.from + carry.length = fed
  /\ fed <= PerLine * Len(output)
  /\ ~flushed => carry.from % PerLine = 0
  /\ flushed => carry.length = 0

CurrentIsLast == current = Len(sections)
SectionsFollow == ~flushed => Len(sections) = SectionAt(Read)

(* No count of passed cases exceeds the cases that passed. *)
OkIsBounded ==
  \A i \in 1 .. Len(sections) : sections[i].counts["OK"] <= Cardinality(PassedBy(Read, i))
TargetsAreHeadings ==
  \A i \in 1 .. Len(sections) : sections[i].target =>
    \E j \in 1 .. Read : Heading(j) /\ output[j].section = i /\ output[j].target

(* What would block a pass is not lost. *)
HeadingsAreTargets ==
  \A j \in 1 .. Whole : Heading(j) /\ output[j].target =>
    /\ output[j].section \in 1 .. Len(sections)
    /\ sections[output[j].section].target
OrphansAreKept ==
  \A j \in 1 .. Whole : output[j].kind = "case" /\ output[j].section = 0 => total(orphans) > 0

Printed == Numbered /\ CaseOnce /\ CasesNamed
Counted == OkIsBounded /\ TargetsAreHeadings
Blocks == HeadingsAreTargets /\ OrphansAreKept
IInv == TypeOK /\ Printed /\ CarryFollows /\ CurrentIsLast /\ SectionsFollow /\ Counted /\ Blocks

-----------------------------------------------------------------------------
LEMMA PassedByFinite ==
  ASSUME NEW n \in Nat, NEW s \in Nat
  PROVE  IsFiniteSet(PassedBy(n, s)) /\ Cardinality(PassedBy(n, s)) \in Nat
<1>1. PassedBy(n, s) \in SUBSET Cases
  BY DEF PassedBy
<1> QED
  BY <1>1, CasesAssumption, FS_Subset, FS_CardinalityType

LEMMA ElementTyped ==
  ASSUME NEW S, NEW q \in Seq(S), NEW i \in 1 .. Len(q)
  PROVE  q[i] \in S
OBVIOUS

LEMMA Thirds ==
  ASSUME NEW m \in Nat
  PROVE  /\ (3 * m) \div 3 = m /\ (3 * m + 2) \div 3 = m
         /\ (3 * m + 1) \div 3 = m /\ (3 * m) % 3 = 0
OBVIOUS

LEMMA OneMore ==
  ASSUME NEW c \in Counts, NEW status \in STATUSES
  PROVE  total(c) \in Nat /\ total([c EXCEPT ![status] = @ + 1]) = total(c) + 1
BY DEF Counts, STATUSES, total

LEMMA ClassifiedOk ==
  ASSUME NEW outcome \in SUBSET Words
  PROVE  /\ classifyOutcome(outcome) \in STATUSES
         /\ classifyOutcome(outcome) = "OK" => "ok" \in outcome
BY DEF classifyOutcome, STATUSES, Words

LEMMA InitIInv == Init => IInv
<1> SUFFICES ASSUME Init PROVE IInv
  OBVIOUS
<1>1. TypeOK
  <2>1. output \in Seq(Line) /\ sections \in Seq([target : BOOLEAN, counts : Counts])
    BY DEF Init
  <2>2. orphans \in Counts
    BY DEF Init, Counts, emptyCounts
  <2>3. current \in 0 .. Len(sections) /\ carry \in [from : Nat, length : Nat]
    BY DEF Init
  <2> QED
    BY <2>1, <2>2, <2>3 DEF Init, TypeOK
<1>2. Read = 0 /\ Whole = 0
  BY DEF Init, Read, Whole, PerLine
<1> QED
  BY <1>1, <1>2 DEF Init, IInv, Printed, Numbered, CaseOnce, CasesNamed, CarryFollows, CurrentIsLast,
     SectionsFollow, SectionAt, Counted, OkIsBounded, TargetsAreHeadings, Blocks,
     HeadingsAreTargets, OrphansAreKept, PerLine

(* The lines read are lines of the output. *)
LEMMA ReadBounds ==
  ASSUME IInv
  PROVE  /\ Read \in 0 .. Len(output) /\ Whole \in 0 .. Read
         /\ ~flushed => carry.from = PerLine * Read /\ Whole = Read
<1>1. /\ carry.from \in Nat /\ carry.length \in Nat /\ Len(output) \in Nat
      /\ carry.from <= 3 * Len(output) /\ (~flushed => carry.from % 3 = 0)
  BY DEF IInv, TypeOK, CarryFollows, PerLine
<1>2. Read = (carry.from + 2) \div 3 /\ Whole = carry.from \div 3 /\ PerLine = 3
  BY DEF Read, Whole, PerLine
<1>3. Read \in 0 .. Len(output) /\ Whole \in 0 .. Read
  BY <1>1, <1>2
<1>4. ~flushed => carry.from = PerLine * Read /\ Whole = Read
  BY <1>1, <1>2
<1> QED
  BY <1>3, <1>4

(* The program prints one more line. *)
LEMMA PrintsIInv ==
  ASSUME IInv, NEW l \in Line, Prints(l),
         l.section = LastSection + (IF l.kind = "heading" THEN 1 ELSE 0),
         l.kind = "case" =>
           /\ l.case \in Cases
           /\ \A j \in 1 .. Len(output) : output[j].section = l.section => output[j].case # l.case
  PROVE  IInv'
<1>1. /\ output' \in Seq(Line) /\ Len(output') = Len(output) + 1
      /\ \A j \in 1 .. Len(output) : output'[j] = output[j]
      /\ output'[Len(output) + 1] = l
  BY DEF Prints, IInv, TypeOK
<1>2. TypeOK'
  BY <1>1 DEF IInv, TypeOK, Prints
<1>3. Read' = Read /\ Whole' = Whole /\ Read \in 0 .. Len(output) /\ Whole \in 0 .. Read
  BY ReadBounds DEF Prints, Read, Whole
<1>4. LastSection = SectionAt(Len(output)) /\ Len(output) \in Nat
  BY DEF LastSection, SectionAt, IInv, TypeOK
<1>5. Printed'
  <2>1. Numbered'
    <3> SUFFICES ASSUME NEW j \in 1 .. Len(output) + 1
                 PROVE  output'[j].section = SectionAt(j - 1)'
                          + (IF output'[j].kind = "heading" THEN 1 ELSE 0)
      BY <1>1 DEF Numbered
    <3>1. SectionAt(j - 1)' = SectionAt(j - 1)
      BY <1>1, <1>4 DEF SectionAt
    <3>2. CASE j \in 1 .. Len(output)
      BY <1>1, <3>1, <3>2 DEF IInv, Printed, Numbered
    <3>3. CASE j = Len(output) + 1
      <4>1. SectionAt(j - 1) = LastSection
        BY <1>4, <3>3
      <4> QED
        BY <1>1, <3>1, <3>3, <4>1
    <3> QED
      BY <1>4, <3>2, <3>3
  <2>2. CaseOnce'
    <3>1. \A j \in 1 .. Len(output) : output'[j].kind = "case" /\ l.kind = "case"
             /\ output'[j].section = l.section => output'[j].case # l.case
      BY <1>1
    <3>2. \A j \in 1 .. Len(output') : j \in 1 .. Len(output) \/ (j = Len(output) + 1 /\ output'[j] = l)
      BY <1>1, <1>4
    <3> QED
      BY <1>1, <3>1, <3>2 DEF IInv, Printed, CaseOnce
  <2>3. CasesNamed'
    BY <1>1 DEF IInv, Printed, CasesNamed
  <2> QED
    BY <2>1, <2>2, <2>3 DEF Printed
<1>6. CarryFollows' /\ CurrentIsLast'
  BY <1>1, <1>4 DEF Prints, IInv, TypeOK, CarryFollows, CurrentIsLast, PerLine
<1>7. SectionsFollow'
  BY <1>1, <1>3 DEF Prints, IInv, SectionsFollow, SectionAt
<1>8. \A i \in Nat : PassedBy(Read, i)' = PassedBy(Read, i)
  BY <1>1, <1>3 DEF PassedBy
<1>9. Counted'
  <2>1. OkIsBounded'
    BY <1>8 DEF Prints, IInv, TypeOK, Counted, OkIsBounded
  <2>2. TargetsAreHeadings'
    BY <1>1, <1>3 DEF Prints, IInv, Counted, TargetsAreHeadings, Heading
  <2> QED
    BY <2>1, <2>2 DEF Counted
<1>10. Blocks'
  <2>1. HeadingsAreTargets'
    BY <1>1, <1>3 DEF Prints, IInv, Blocks, HeadingsAreTargets, Heading
  <2>2. OrphansAreKept'
    BY <1>1, <1>3 DEF Prints, IInv, Blocks, OrphansAreKept, total
  <2> QED
    BY <2>1, <2>2 DEF Blocks
<1> QED
  BY <1>2, <1>5, <1>6, <1>7, <1>9, <1>10 DEF IInv

-----------------------------------------------------------------------------
(* What line() may do with a line l, whole or cut.                         *)
Reads(l) ==
  \/ l.kind = "heading" /\ \E target \in {l.target, FALSE} : ReadHeading(target)
  \/ /\ l.kind = "case"
     /\ \E status \in STATUSES : (status = "OK" => "ok" \in l.outcome) /\ ReadCase(status)
  \/ UNCHANGED counted

LEMMA LineReads ==
  ASSUME NEW l \in Line, ReadWhole(l) \/ ReadPart(l)
  PROVE  Reads(l)
<1>1. l.outcome \in SUBSET Words
  BY DEF Line
<1>2. /\ classifyOutcome(l.outcome) \in STATUSES
      /\ classifyOutcome(l.outcome) = "OK" => "ok" \in l.outcome
  BY <1>1, ClassifiedOk
<1>3. "UNKNOWN" \in STATUSES
  BY DEF STATUSES
<1> QED
  BY <1>2, <1>3 DEF ReadWhole, ReadPart, Reads

(* Nothing read takes back a section, its target or an orphan.             *)
LEMMA SameTotal ==
  ASSUME IInv
  PROVE  total(orphans) \in Nat /\ (orphans' = orphans => total(orphans') = total(orphans))
<1>1. orphans \in Counts /\ "OK" \in STATUSES
  BY DEF IInv, TypeOK, STATUSES
<1>2. total(orphans) \in Nat
  BY <1>1, OneMore
<1> QED
  BY <1>2 DEF total

LEMMA ReadHeadingKeeps ==
  ASSUME IInv, NEW target, ReadHeading(target)
  PROVE  /\ Len(sections') = Len(sections) + 1
         /\ \A i \in 1 .. Len(sections) : sections'[i].target = sections[i].target
         /\ sections'[Len(sections) + 1].target = target
         /\ total(orphans') \in Nat /\ total(orphans') >= total(orphans)
<1>1. total(orphans') = total(orphans) /\ total(orphans) \in Nat
  BY SameTotal DEF ReadHeading
<1> QED
  BY <1>1 DEF ReadHeading, IInv, TypeOK

LEMMA ReadCaseKeeps ==
  ASSUME IInv, NEW status \in STATUSES, ReadCase(status)
  PROVE  /\ Len(sections') = Len(sections)
         /\ \A i \in 1 .. Len(sections) : sections'[i].target = sections[i].target
         /\ total(orphans') \in Nat /\ total(orphans') >= total(orphans)
         /\ Len(sections) = 0 => total(orphans') > 0
<1>1. /\ sections \in Seq([target : BOOLEAN, counts : Counts]) /\ orphans \in Counts
      /\ current = Len(sections) /\ Len(sections) \in Nat /\ total(orphans) \in Nat
  BY SameTotal DEF IInv, TypeOK, CurrentIsLast
<1>2. CASE current = 0
  <2>1. orphans' = [orphans EXCEPT ![status] = @ + 1] /\ sections' = sections
    BY <1>2 DEF ReadCase
  <2>2. \A c : orphans' = c => total(orphans') = total(c)
    BY DEF total
  <2>3. total(orphans') = total(orphans) + 1
    BY <1>1, <2>1, <2>2, OneMore
  <2> QED
    BY <1>1, <2>1, <2>3
<1>3. CASE current > 0
  <2>1. /\ orphans' = orphans
        /\ sections' = [sections EXCEPT ![current].counts[status] = @ + 1]
    BY <1>1, <1>3 DEF ReadCase
  <2>2. \A i \in 1 .. Len(sections) : sections[i] \in [target : BOOLEAN, counts : Counts]
    BY <1>1, ElementTyped
  <2>3. /\ Len(sections') = Len(sections)
        /\ \A i \in 1 .. Len(sections) : sections'[i].target = sections[i].target
    BY <1>1, <1>3, <2>1, <2>2
  <2> QED
    BY <1>1, <1>3, <2>1, <2>3, SameTotal
<1> QED
  BY <1>1, <1>2, <1>3

(* Reading line n moves the counts as the line deserves.                   *)
LEMMA ReadsCounted ==
  ASSUME IInv, ~flushed, UNCHANGED <<output, expected>>,
         Read + 1 <= Len(output), Read' = Read + 1,
         Reads(output[Read + 1])
  PROVE  /\ sections' \in Seq([target : BOOLEAN, counts : Counts])
         /\ orphans' \in Counts
         /\ CurrentIsLast' /\ current' \in 0 .. Len(sections')
         /\ Counted'
<1> DEFINE n == Read + 1
           l == output[n]
<1>1. /\ Read \in Nat /\ n \in 1 .. Len(output) /\ l \in Line
  BY ReadBounds DEF IInv, TypeOK
<1>2. /\ Len(sections) \in Nat /\ current = Len(sections)
      /\ sections \in Seq([target : BOOLEAN, counts : Counts]) /\ orphans \in Counts
  BY DEF IInv, TypeOK, CurrentIsLast
<1>3. l.section = Len(sections) + (IF l.kind = "heading" THEN 1 ELSE 0)
  BY <1>1 DEF IInv, Printed, Numbered, SectionsFollow
<1>4. \A i \in Nat : /\ PassedBy(Read, i) \subseteq PassedBy(n, i)
                     /\ IsFiniteSet(PassedBy(n, i))
                     /\ Cardinality(PassedBy(Read, i)) \in Nat
                     /\ Cardinality(PassedBy(n, i)) \in Nat
                     /\ Cardinality(PassedBy(Read, i)) <= Cardinality(PassedBy(n, i))
  <2> SUFFICES ASSUME NEW i \in Nat
               PROVE  /\ PassedBy(Read, i) \subseteq PassedBy(n, i)
                      /\ IsFiniteSet(PassedBy(n, i))
                      /\ Cardinality(PassedBy(Read, i)) \in Nat
                      /\ Cardinality(PassedBy(n, i)) \in Nat
                      /\ Cardinality(PassedBy(Read, i)) <= Cardinality(PassedBy(n, i))
    OBVIOUS
  <2>2. PassedBy(Read, i) \subseteq PassedBy(n, i)
    BY <1>1 DEF PassedBy
  <2>3. /\ IsFiniteSet(PassedBy(n, i)) /\ Cardinality(PassedBy(n, i)) \in Nat
        /\ Cardinality(PassedBy(Read, i)) \in Nat
    <3>1. Read \in Nat /\ n \in Nat
      BY <1>1
    <3> QED
      BY <3>1, PassedByFinite
  <2>4. Cardinality(PassedBy(Read, i)) <= Cardinality(PassedBy(n, i))
    BY <2>2, <2>3, FS_Subset
  <2> QED
    BY <2>2, <2>3, <2>4
<1>5. \A i \in 1 .. Len(sections) :
        sections[i].counts["OK"] \in Nat
        /\ sections[i].counts["OK"] <= Cardinality(PassedBy(n, i))
  <2> SUFFICES ASSUME NEW i \in 1 .. Len(sections)
               PROVE  sections[i].counts["OK"] \in Nat
                      /\ sections[i].counts["OK"] <= Cardinality(PassedBy(n, i))
    OBVIOUS
  <2>1. sections[i].counts \in [STATUSES -> Nat] /\ "OK" \in STATUSES
    <3>1. sections[i] \in [target : BOOLEAN, counts : Counts]
      BY <1>2, ElementTyped
    <3> QED
      BY <3>1 DEF Counts, STATUSES
  <2>2. sections[i].counts["OK"] \in Nat
    BY <2>1
  <2>3. sections[i].counts["OK"] <= Cardinality(PassedBy(Read, i))
    BY DEF IInv, Counted, OkIsBounded
  <2>4. /\ Cardinality(PassedBy(Read, i)) \in Nat /\ Cardinality(PassedBy(n, i)) \in Nat
        /\ Cardinality(PassedBy(Read, i)) <= Cardinality(PassedBy(n, i))
    BY <1>2, <1>4
  <2> QED
    BY <2>2, <2>3, <2>4
<1>6. \A i \in 1 .. Len(sections) : sections[i].target =>
         \E j \in 1 .. Read' : Heading(j)' /\ output'[j].section = i /\ output'[j].target
  BY <1>1 DEF IInv, Counted, TargetsAreHeadings, Heading
<1>10. OkIsBounded' <=>
         \A i \in 1 .. Len(sections') : sections'[i].counts["OK"] <= Cardinality(PassedBy(n, i))
  BY DEF OkIsBounded, PassedBy
<1>11. n = Read + 1 /\ Read' = n /\ output' = output /\ Reads(l)
  OBVIOUS
<1> HIDE DEF n
<1>7. ASSUME l.kind = "heading", NEW target \in {l.target, FALSE}, ReadHeading(target)
      PROVE  /\ sections' \in Seq([target : BOOLEAN, counts : Counts])
             /\ orphans' \in Counts
             /\ CurrentIsLast' /\ current' \in 0 .. Len(sections')
             /\ Counted'
  <2>1. emptyCounts \in Counts /\ emptyCounts["OK"] = 0 /\ target \in BOOLEAN
    BY <1>1 DEF emptyCounts, Counts, STATUSES, Line
  <2>2. /\ sections' \in Seq([target : BOOLEAN, counts : Counts])
        /\ Len(sections') = Len(sections) + 1 /\ current' = Len(sections')
        /\ \A i \in 1 .. Len(sections) : sections'[i] = sections[i]
        /\ sections'[Len(sections) + 1] = [target |-> target, counts |-> emptyCounts]
    BY <1>2, <1>7, <2>1 DEF ReadHeading
  <2>3. OkIsBounded'
    <3> SUFFICES ASSUME NEW i \in 1 .. Len(sections')
                 PROVE  sections'[i].counts["OK"] <= Cardinality(PassedBy(n, i))
      BY <1>10 DEF OkIsBounded
    <3>1. CASE i \in 1 .. Len(sections)
      BY <1>5, <2>2, <3>1
    <3>2. CASE i = Len(sections) + 1
      BY <1>2, <1>4, <2>1, <2>2, <3>2
    <3> QED
      BY <1>2, <2>2, <3>1, <3>2
  <2>4. TargetsAreHeadings'
    <3> SUFFICES ASSUME NEW i \in 1 .. Len(sections'), sections'[i].target
                 PROVE  \E j \in 1 .. Read' : Heading(j)' /\ output'[j].section = i
                                              /\ output'[j].target
      BY DEF TargetsAreHeadings
    <3>1. CASE i \in 1 .. Len(sections)
      BY <1>6, <2>2, <3>1
    <3>2. CASE i = Len(sections) + 1
      <4>1. l.kind = "heading" /\ l.section = i /\ l.target
        <5>1. sections'[i] = [target |-> target, counts |-> emptyCounts]
          BY <2>2, <3>2
        <5>2. target
          BY <5>1
        <5> QED
          BY <1>3, <1>7, <3>2, <5>2
      <4>2. n \in 1 .. Read' /\ output'[n] = l
        BY <1>1, <1>11
      <4> QED
        BY <4>1, <4>2 DEF Heading
    <3> QED
      BY <1>2, <2>2, <3>1, <3>2
  <2> QED
    BY <1>2, <1>7, <2>2, <2>3, <2>4 DEF ReadHeading, CurrentIsLast, Counted
<1>8. ASSUME l.kind = "case", NEW status \in STATUSES, status = "OK" => "ok" \in l.outcome,
             ReadCase(status)
      PROVE  /\ sections' \in Seq([target : BOOLEAN, counts : Counts])
             /\ orphans' \in Counts
             /\ CurrentIsLast' /\ current' \in 0 .. Len(sections')
             /\ Counted'
  <2>1. CASE current = 0
    <3>1. /\ orphans' = [orphans EXCEPT ![status] = @ + 1]
          /\ UNCHANGED <<sections, current>>
      BY <1>8, <2>1 DEF ReadCase
    <3>2. orphans' \in Counts
      BY <1>2, <3>1 DEF Counts
    <3> QED
      BY <1>2, <1>5, <1>6, <1>10, <3>1, <3>2 DEF CurrentIsLast, Counted, TargetsAreHeadings
  <2>2. CASE current > 0
    <3> DEFINE k == Len(sections)
               raised == [sections[k].counts EXCEPT ![status] = @ + 1]
    <3>1. /\ k \in 1 .. Len(sections) /\ sections[k].counts \in Counts
          /\ sections[k] \in [target : BOOLEAN, counts : Counts]
          /\ raised \in Counts
      <4>1. k \in 1 .. Len(sections)
        BY <1>2, <2>2
      <4>2. sections[k] \in [target : BOOLEAN, counts : Counts]
        BY <1>2, <4>1, ElementTyped
      <4>3. sections[k].counts \in [STATUSES -> Nat]
        BY <4>2 DEF Counts
      <4>4. raised \in [STATUSES -> Nat]
        BY <4>3
      <4> QED
        BY <4>1, <4>2, <4>3, <4>4 DEF Counts
    <3>2. /\ sections' = [sections EXCEPT ![k] = [sections[k] EXCEPT !.counts = raised]]
          /\ UNCHANGED <<current, orphans>>
      BY <1>2, <1>8, <2>2 DEF ReadCase
    <3>3. /\ sections' \in Seq([target : BOOLEAN, counts : Counts])
          /\ Len(sections') = Len(sections)
          /\ \A i \in 1 .. Len(sections) : i # k => sections'[i] = sections[i]
          /\ sections'[k].target = sections[k].target /\ sections'[k].counts = raised
      <4> HIDE DEF raised
      <4>1. [sections[k] EXCEPT !.counts = raised] \in [target : BOOLEAN, counts : Counts]
        BY <3>1
      <4> QED
        BY <1>2, <3>1, <3>2, <4>1
    <3>4. raised["OK"] <= Cardinality(PassedBy(n, k))
      <4>1. CASE status # "OK"
        <5>1. raised["OK"] = sections[k].counts["OK"]
          BY <3>1, <4>1 DEF Counts, STATUSES
        <5>2. sections[k].counts["OK"] <= Cardinality(PassedBy(n, k))
          BY <1>5, <3>1
        <5> QED
          BY <5>1, <5>2
      <4>2. CASE status = "OK"
        <5>1. raised["OK"] = sections[k].counts["OK"] + 1
          BY <3>1, <4>2 DEF Counts
        <5>2. l.case \in Cases /\ l.case \notin PassedBy(Read, k)
          <6>1. l.section = k /\ l.case \in Cases
            BY <1>1, <1>2, <1>3, <1>8 DEF IInv, Printed, CasesNamed
          <6>2. \A j \in 1 .. Read : output[j].kind = "case" /\ output[j].section = l.section
                                    => output[j].case # l.case
            BY <1>1, <1>8, <1>11 DEF IInv, Printed, CaseOnce
          <6> QED
            BY <6>1, <6>2 DEF PassedBy
        <5>3. PassedBy(n, k) = PassedBy(Read, k) \cup {l.case}
          <6>1. l.section = k /\ l.kind = "case" /\ "ok" \in l.outcome
            BY <1>2, <1>3, <1>8, <4>2
          <6>2. 1 .. n = (1 .. Read) \cup {n}
            BY <1>1, <1>11
          <6>3. PassedBy(n, k) = PassedBy(Read, k) \cup {l.case}
            BY <5>2, <6>1, <6>2 DEF PassedBy
          <6> QED
            BY <6>3
        <5>4. IsFiniteSet(PassedBy(Read, k)) /\ Cardinality(PassedBy(Read, k)) \in Nat
          BY <1>1, <1>2, PassedByFinite
        <5>5. Cardinality(PassedBy(n, k)) = Cardinality(PassedBy(Read, k)) + 1
          BY <5>2, <5>3, <5>4, FS_AddElement
        <5>6. sections[k].counts["OK"] <= Cardinality(PassedBy(Read, k))
          BY <3>1 DEF IInv, Counted, OkIsBounded
        <5>7. sections[k].counts["OK"] \in Nat
          BY <1>5, <3>1
        <5> QED
          BY <5>1, <5>4, <5>5, <5>6, <5>7
      <4> QED
        BY <4>1, <4>2
    <3>5. OkIsBounded'
      BY <1>5, <1>10, <3>1, <3>3, <3>4
    <3>6. TargetsAreHeadings'
      BY <1>6, <3>1, <3>3 DEF TargetsAreHeadings
    <3> QED
      BY <1>2, <3>2, <3>3, <3>5, <3>6 DEF CurrentIsLast, Counted
  <2> QED
    BY <1>2, <2>1, <2>2
<1>9. CASE UNCHANGED counted
  <2>1. UNCHANGED <<sections, current, orphans>>
    BY <1>9 DEF counted
  <2>2. OkIsBounded'
    BY <1>5, <1>10, <2>1
  <2>3. TargetsAreHeadings'
    BY <1>6, <2>1 DEF TargetsAreHeadings
  <2> QED
    BY <1>2, <2>1, <2>2, <2>3 DEF CurrentIsLast, Counted
<1> QED
  BY <1>7, <1>8, <1>9, <1>11 DEF Reads

-----------------------------------------------------------------------------
(* feed() gives it more of the output.                                     *)
LEMMA FeedIInv ==
  ASSUME IInv, NEW length \in Nat, Feed(length)
  PROVE  IInv'
<1>1. /\ fed' = fed + length /\ carry' = [carry EXCEPT !.length = @ + length]
      /\ fed' <= PerLine * Len(output) /\ fed' \in Nat
      /\ carry'.from = carry.from /\ carry'.length = carry.length + length
      /\ carry' \in [from : Nat, length : Nat]
      /\ UNCHANGED <<output, ended, flushed, expected, sections, current, orphans>>
  <2>1. carry \in [from : Nat, length : Nat] /\ fed \in Nat /\ Len(output) \in Nat
    BY DEF IInv, TypeOK
  <2> QED
    BY <2>1 DEF Feed, PerLine
<1>2. Read' = Read /\ Whole' = Whole
  BY <1>1 DEF Read, Whole
<1>3. TypeOK' /\ CarryFollows' /\ CurrentIsLast'
  BY <1>1 DEF Feed, IInv, TypeOK, CarryFollows, CurrentIsLast
<1>4. Printed' /\ SectionsFollow'
  BY <1>1, <1>2 DEF IInv, Printed, Numbered, SectionAt, CaseOnce, CasesNamed, SectionsFollow
<1>5. Counted' /\ Blocks'
  <2>1. Counted'
    BY <1>1, <1>2 DEF IInv, Counted, OkIsBounded, PassedBy, TargetsAreHeadings, Heading
  <2>2. Blocks'
    BY <1>1, <1>2 DEF IInv, Blocks, HeadingsAreTargets, OrphansAreKept, Heading, total
  <2> QED
    BY <2>1, <2>2
<1> QED
  BY <1>3, <1>4, <1>5 DEF IInv

(* A turn of feed()'s loop reads one line, whole. *)
LEMMA TakeLineReads ==
  ASSUME IInv, TakeLine
  PROVE  /\ ~flushed /\ Read + 1 <= Len(output) /\ Read' = Read + 1
         /\ ReadWhole(output[Read + 1])
         /\ UNCHANGED <<output, ended, fed, flushed, expected>>
<1> DEFINE n == Read + 1
<1>1. /\ carry.from \in Nat /\ carry.length \in Nat /\ Len(output) \in Nat /\ fed \in Nat
      /\ carry.from + carry.length = fed /\ fed <= 3 * Len(output)
      /\ Read \in Nat /\ PerLine = 3
  BY ReadBounds DEF IInv, TypeOK, CarryFollows, PerLine
<1>2. carry.length > 0
  BY <1>1 DEF TakeLine, HasLine, Newline
<1>3. ~flushed
  BY <1>2, <1>1 DEF IInv, CarryFollows
<1>4. carry.from = 3 * Read
  BY <1>1, <1>3, ReadBounds
<1>5. /\ (carry.from \div PerLine) + 1 = n /\ carry.from % PerLine = 0
      /\ Newline = 3 * n /\ Newline - 1 - carry.from = PerLine - 1
  <2>1. (3 * Read) \div 3 = Read /\ (3 * Read) % 3 = 0
    BY <1>1, Thirds
  <2> QED
    BY <1>1, <1>4, <2>1 DEF Newline
<1>6. ReadWhole(output[n])
  BY <1>5 DEF TakeLine, line
<1>7. carry'.from = 3 * n /\ 3 * n <= fed
  BY <1>1, <1>5 DEF TakeLine, HasLine
<1>8. Read' = n
  <2>1. n \in Nat /\ PerLine' = 3
    BY <1>1 DEF PerLine
  <2> HIDE DEF n
  <2>2. (3 * n + 2) \div 3 = n
    BY <2>1, Thirds
  <2> QED
    BY <1>7, <2>1, <2>2 DEF Read, PerLine
<1> QED
  BY <1>1, <1>3, <1>6, <1>7, <1>8 DEF TakeLine

LEMMA TakeLineIInv ==
  ASSUME IInv, TakeLine
  PROVE  IInv'
<1> DEFINE n == Read + 1
           l == output[n]
<1>1. /\ carry.from \in Nat /\ carry.length \in Nat /\ Len(output) \in Nat /\ fed \in Nat
      /\ carry.from + carry.length = fed /\ fed <= 3 * Len(output)
      /\ Read \in Nat /\ Whole \in 0 .. Read /\ PerLine = 3
  BY ReadBounds DEF IInv, TypeOK, CarryFollows, PerLine
<1>3. ~flushed
  BY TakeLineReads
<1>4. carry.from = 3 * Read /\ Whole = Read
  BY <1>1, <1>3, ReadBounds
<1>5. Newline = 3 * n
  <2>1. (3 * Read) \div 3 = Read
    BY <1>1
  <2> QED
    BY <1>1, <1>4, <2>1 DEF Newline
<1>6. /\ carry'.from = 3 * n /\ carry'.length = fed - 3 * n
      /\ carry' \in [from : Nat, length : Nat]
      /\ 3 * n <= fed
      /\ UNCHANGED <<output, ended, fed, flushed, expected>>
  BY <1>1, <1>5 DEF TakeLine, HasLine
<1>7. Read' = n /\ Whole' = n
  <2>1. n \in Nat /\ PerLine' = 3
    BY <1>1 DEF PerLine
  <2> HIDE DEF n
  <2>2. (3 * n + 2) \div 3 = n /\ (3 * n) \div 3 = n
    BY <2>1, Thirds
  <2> QED
    BY <1>6, <2>1, <2>2 DEF Read, Whole, PerLine
<1>8. n \in 1 .. Len(output) /\ l \in Line
  BY <1>1, <1>6, ElementTyped DEF IInv, TypeOK
<1>9. ReadWhole(l)
  BY TakeLineReads
<1>10. Reads(l)
  BY <1>8, <1>9, LineReads
<1>11. /\ sections' \in Seq([target : BOOLEAN, counts : Counts])
       /\ orphans' \in Counts
       /\ CurrentIsLast' /\ current' \in 0 .. Len(sections')
       /\ Counted'
  BY <1>3, <1>6, <1>7, <1>8, <1>10, ReadsCounted
<1>12. TypeOK' /\ CarryFollows'
  <2>1. n \in Nat
    BY <1>1
  <2> HIDE DEF n
  <2>2. (3 * n) % 3 = 0
    BY <2>1, Thirds
  <2> QED
    BY <1>1, <1>3, <1>6, <1>11, <2>1, <2>2 DEF IInv, TypeOK, CarryFollows, PerLine
<1>13. Printed'
  BY <1>6 DEF IInv, Printed, Numbered, SectionAt, CaseOnce, CasesNamed
<1>14. /\ l.section = Len(sections) + (IF l.kind = "heading" THEN 1 ELSE 0)
       /\ Len(sections) \in Nat /\ current = Len(sections)
       /\ sections \in Seq([target : BOOLEAN, counts : Counts]) /\ orphans \in Counts
  BY <1>3, <1>8, <1>1 DEF IInv, TypeOK, Printed, Numbered, SectionsFollow, CurrentIsLast
<1>15. /\ Len(sections') = l.section
       /\ \A i \in 1 .. Len(sections) : sections'[i].target = sections[i].target
       /\ l.kind = "heading" => sections'[l.section].target = l.target
       /\ total(orphans) \in Nat /\ total(orphans') \in Nat /\ total(orphans') >= total(orphans)
       /\ l.kind = "case" /\ l.section = 0 => total(orphans') > 0
  <2> HIDE DEF l
  <2>1. CASE l.kind = "heading" /\ ReadHeading(l.target)
    <3>1. /\ Len(sections') = Len(sections) + 1
          /\ \A i \in 1 .. Len(sections) : sections'[i].target = sections[i].target
          /\ sections'[Len(sections) + 1].target = l.target
          /\ total(orphans') \in Nat /\ total(orphans') >= total(orphans)
      BY <2>1, ReadHeadingKeeps
    <3> QED
      BY <1>14, <2>1, <3>1, SameTotal
  <2>2. CASE l.kind = "case" /\ ReadCase(classifyOutcome(l.outcome))
    <3>1. classifyOutcome(l.outcome) \in STATUSES
      BY <1>8, ClassifiedOk DEF Line
    <3>2. /\ Len(sections') = Len(sections)
          /\ \A i \in 1 .. Len(sections) : sections'[i].target = sections[i].target
          /\ total(orphans') \in Nat /\ total(orphans') >= total(orphans)
          /\ Len(sections) = 0 => total(orphans') > 0
      BY <2>2, <3>1, ReadCaseKeeps
    <3> QED
      BY <1>14, <2>2, <3>2, SameTotal
  <2>3. CASE l.kind = "garbled" /\ UNCHANGED counted
    BY <1>14, <2>3, SameTotal DEF counted
  <2> QED
    BY <1>9, <2>1, <2>2, <2>3 DEF ReadWhole
<1>16. SectionsFollow'
  <2>1. Read' # 0 /\ output' = output
    BY <1>1, <1>6, <1>7
  <2>2. SectionAt(Read)' = l.section
    BY <1>7, <2>1 DEF SectionAt
  <2> QED
    BY <1>15, <2>2 DEF SectionsFollow
<1>17. Blocks'
  <2>1. \A j \in 1 .. n : j \in 1 .. Whole \/ j = n
    BY <1>1, <1>4
  <2>2. HeadingsAreTargets'
    <3> SUFFICES ASSUME NEW j \in 1 .. n, Heading(j), output[j].target
                 PROVE  /\ output[j].section \in 1 .. Len(sections')
                        /\ sections'[output[j].section].target
      BY <1>6, <1>7 DEF HeadingsAreTargets, Heading
    <3>1. CASE j \in 1 .. Whole
      BY <1>14, <1>15, <3>1 DEF IInv, Blocks, HeadingsAreTargets
    <3>2. CASE j = n
      BY <1>14, <1>15, <3>2 DEF Heading
    <3> QED
      BY <2>1, <3>1, <3>2
  <2>3. OrphansAreKept'
    <3> SUFFICES ASSUME NEW j \in 1 .. n, output[j].kind = "case", output[j].section = 0
                 PROVE  total(orphans') > 0
      BY <1>6, <1>7 DEF OrphansAreKept, total
    <3>1. CASE j \in 1 .. Whole
      BY <1>15, <3>1 DEF IInv, Blocks, OrphansAreKept
    <3>2. CASE j = n
      BY <1>15, <3>2
    <3> QED
      BY <2>1, <3>1, <3>2
  <2> QED
    BY <2>2, <2>3 DEF Blocks
<1> QED
  BY <1>11, <1>12, <1>13, <1>16, <1>17 DEF IInv

-----------------------------------------------------------------------------
(* flush() reads what is left, a cut line if anything.                     *)
LEMMA FlushIInv ==
  ASSUME IInv, Flush
  PROVE  IInv'
<1> DEFINE n == Read + 1
           l == output[n]
<1>1. /\ carry.from \in Nat /\ carry.length \in Nat /\ Len(output) \in Nat /\ fed \in Nat
      /\ carry.from + carry.length = fed /\ fed <= 3 * Len(output)
      /\ Read \in Nat /\ Whole = Read /\ PerLine = 3 /\ carry.from = 3 * Read /\ ~flushed
  BY ReadBounds DEF Flush, IInv, TypeOK, CarryFollows, PerLine
<1>2. carry.length \in 0 .. 2
  <2>1. (3 * Read) \div 3 = Read
    BY <1>1, Thirds
  <2>2. Newline = 3 * Read + 3
    BY <1>1, <2>1 DEF Newline
  <2> QED
    BY <1>1, <2>2 DEF Flush, HasLine
<1>3. /\ carry'.from = fed /\ carry'.length = 0 /\ carry' \in [from : Nat, length : Nat]
      /\ flushed' = TRUE
      /\ UNCHANGED <<output, ended, fed, expected>>
  BY <1>1 DEF Flush
<1>4. Whole' = Read /\ Read' = (IF carry.length = 0 THEN Read ELSE n)
  <2>1. fed \in 3 * Read .. 3 * Read + 2 /\ PerLine' = 3
    BY <1>1, <1>2 DEF PerLine
  <2>2. Whole' = Whole
    BY <1>1, <1>3, <2>1 DEF Whole, PerLine
  <2>3. CASE carry.length = 0
    <3>1. carry'.from = carry.from
      BY <1>1, <1>3, <2>3
    <3>2. Read' = Read
      BY <3>1 DEF Read
    <3> QED
      BY <1>1, <2>2, <2>3, <3>2
  <2>4. CASE carry.length > 0
    <3>1. fed \in 3 * n - 2 .. 3 * n - 1 /\ n \in Nat
      BY <1>1, <1>2, <2>4
    <3> HIDE DEF n
    <3>2. (fed + 2) \div 3 = n
      BY <3>1
    <3> QED
      BY <1>1, <1>3, <2>2, <2>4, <3>2 DEF Read, PerLine
  <2> QED
    BY <1>1, <1>2, <2>3, <2>4
<1>5. TypeOK' /\ CarryFollows' /\ CurrentIsLast' /\ Counted'
  <2>1. CASE carry.length = 0
    <3>1. UNCHANGED <<sections, current, orphans, output>> /\ Read' = Read
      BY <1>3, <1>4, <2>1 DEF Flush, counted
    <3>2. TypeOK' /\ CarryFollows' /\ CurrentIsLast'
      BY <1>1, <1>3, <3>1 DEF IInv, TypeOK, CarryFollows, CurrentIsLast, PerLine
    <3>3. Counted'
      BY <3>1 DEF IInv, Counted, OkIsBounded, PassedBy, TargetsAreHeadings, Heading
    <3> QED
      BY <3>2, <3>3
  <2>2. CASE carry.length > 0
    <3>1. n \in 1 .. Len(output) /\ l \in Line /\ Read' = n
      BY <1>1, <1>4, <2>2, ElementTyped DEF IInv, TypeOK
    <3>2. ReadWhole(l) \/ ReadPart(l)
      <4>1. (carry.from \div PerLine) + 1 = n
        BY <1>1, Thirds
      <4> QED
        BY <1>1, <2>2, <4>1 DEF Flush, line
    <3>3. Reads(l)
      BY <3>1, <3>2, LineReads
    <3>4. /\ sections' \in Seq([target : BOOLEAN, counts : Counts])
          /\ orphans' \in Counts
          /\ CurrentIsLast' /\ current' \in 0 .. Len(sections')
          /\ Counted'
      BY <1>1, <1>3, <3>1, <3>3, ReadsCounted
    <3> QED
      BY <1>1, <1>3, <3>4 DEF IInv, TypeOK, CarryFollows, PerLine
  <2> QED
    BY <1>1, <2>1, <2>2
<1>6. Printed' /\ SectionsFollow'
  BY <1>3 DEF IInv, Printed, Numbered, SectionAt, CaseOnce, CasesNamed, SectionsFollow
<1>7. /\ Len(sections) \in Nat /\ Len(sections') \in Nat /\ Len(sections') >= Len(sections)
      /\ \A i \in 1 .. Len(sections) : sections'[i].target = sections[i].target
      /\ total(orphans) \in Nat /\ total(orphans') \in Nat /\ total(orphans') >= total(orphans)
  <2>1. Len(sections) \in Nat /\ total(orphans) \in Nat
    BY SameTotal DEF IInv, TypeOK
  <2>2. UNCHANGED counted \/ \E m : Reads(m)
    <3>1. CASE carry.length > 0
      <4>1. n \in 1 .. Len(output) /\ l \in Line
        BY <1>1, <3>1, ElementTyped DEF IInv, TypeOK
      <4>2. ReadWhole(l) \/ ReadPart(l)
        <5>1. (carry.from \div PerLine) + 1 = n
          BY <1>1, Thirds
        <5> QED
          BY <1>1, <3>1, <5>1 DEF Flush, line
      <4> QED
        BY <4>1, <4>2, LineReads
    <3> QED
      BY <1>2, <3>1 DEF Flush
  <2>3. ASSUME NEW target, ReadHeading(target) PROVE <1>7!1 /\ <1>7!2 /\ <1>7!3
    BY <2>1, <2>3, ReadHeadingKeeps
  <2>4. ASSUME NEW status \in STATUSES, ReadCase(status) PROVE <1>7!1 /\ <1>7!2 /\ <1>7!3
    BY <2>1, <2>4, ReadCaseKeeps
  <2>5. ASSUME UNCHANGED counted PROVE <1>7!1 /\ <1>7!2 /\ <1>7!3
    BY <2>1, <2>5, SameTotal DEF counted
  <2> QED
    BY <2>2, <2>3, <2>4, <2>5 DEF Reads
<1>8. Blocks'
  <2>1. HeadingsAreTargets'
    <3> SUFFICES ASSUME NEW j \in 1 .. Read, Heading(j), output[j].target
                 PROVE  /\ output[j].section \in 1 .. Len(sections')
                        /\ sections'[output[j].section].target
      BY <1>1, <1>3, <1>4 DEF HeadingsAreTargets, Heading
    <3>1. output[j].section \in 1 .. Len(sections) /\ sections[output[j].section].target
      BY <1>1 DEF IInv, Blocks, HeadingsAreTargets
    <3> QED
      BY <1>7, <3>1
  <2>2. OrphansAreKept'
    <3> SUFFICES ASSUME NEW j \in 1 .. Read, output[j].kind = "case", output[j].section = 0
                 PROVE  total(orphans') > 0
      BY <1>1, <1>3, <1>4 DEF OrphansAreKept, total
    <3>1. total(orphans) > 0
      BY <1>1 DEF IInv, Blocks, OrphansAreKept
    <3> QED
      BY <1>7, <3>1
  <2> QED
    BY <2>1, <2>2 DEF Blocks
<1> QED
  BY <1>5, <1>6, <1>8 DEF IInv

-----------------------------------------------------------------------------
LEMMA LastSectionTyped ==
  ASSUME IInv
  PROVE  LastSection \in Nat
<1>1. output \in Seq(Line) /\ Len(output) \in Nat
  BY DEF IInv, TypeOK
<1>2. CASE output # <<>>
  <2>1. Len(output) \in 1 .. Len(output)
    BY <1>1, <1>2
  <2>2. output[Len(output)] \in Line
    BY <1>1, <2>1, ElementTyped
  <2> QED
    BY <1>2, <2>2 DEF LastSection, Line
<1> QED
  BY <1>2 DEF LastSection

LEMMA StepIInv == IInv /\ [Next]_vars => IInv'
<1> SUFFICES ASSUME IInv, [Next]_vars PROVE IInv'
  OBVIOUS
<1>1. ASSUME NEW target \in BOOLEAN, PrintHeading(target) PROVE IInv'
  <2> DEFINE l == [kind |-> "heading", section |-> LastSection + 1, target |-> target,
                   case |-> NoCase, outcome |-> {}]
  <2>1. LastSection \in Nat
    BY LastSectionTyped
  <2>2. l \in Line /\ Prints(l)
    BY <1>1, <2>1 DEF Line, PrintHeading
  <2> QED
    <3>1. l.section = LastSection + (IF l.kind = "heading" THEN 1 ELSE 0) /\ l.kind # "case"
      BY <2>1
    <3> HIDE DEF l
    <3> QED
      BY <2>2, <3>1, PrintsIInv
<1>2. ASSUME NEW c \in Cases, NEW o \in Outcomes, NEW kind \in {"case", "garbled"},
             PrintCase(c, o, kind)
      PROVE  IInv'
  <2> DEFINE l == [kind |-> kind, section |-> LastSection, target |-> FALSE,
                   case |-> c, outcome |-> o]
  <2>1. LastSection \in Nat
    BY LastSectionTyped
  <2>2. l \in Line /\ Prints(l)
    BY <1>2, <2>1, OutcomesAssumption DEF Line, PrintCase
  <2>3. \A j \in 1 .. Len(output) : output[j].section = l.section => output[j].case # l.case
    BY <1>2 DEF PrintCase
  <2> QED
    <3>1. l.section = LastSection + (IF l.kind = "heading" THEN 1 ELSE 0) /\ l.case \in Cases
      BY <2>1
    <3> HIDE DEF l
    <3> QED
      BY <2>2, <2>3, <3>1, PrintsIInv
<1>3. ASSUME End \/ UNCHANGED vars PROVE IInv'
  <2>1. /\ UNCHANGED <<output, fed, flushed, expected, sections, current, orphans, carry>>
        /\ ended' \in BOOLEAN
    BY <1>3 DEF End, vars, IInv, TypeOK
  <2>2. Read' = Read /\ Whole' = Whole
    BY <2>1 DEF Read, Whole
  <2>3. TypeOK' /\ Printed' /\ CarryFollows' /\ CurrentIsLast' /\ SectionsFollow'
    BY <2>1, <2>2 DEF IInv, TypeOK, Printed, Numbered, SectionAt, CaseOnce, CasesNamed,
       CarryFollows, CurrentIsLast, SectionsFollow
  <2>4. Counted'
    BY <2>1, <2>2 DEF IInv, Counted, OkIsBounded, PassedBy, TargetsAreHeadings, Heading
  <2>5. Blocks'
    BY <2>1, <2>2 DEF IInv, Blocks, HeadingsAreTargets, OrphansAreKept, total, Heading
  <2> QED
    BY <2>3, <2>4, <2>5 DEF IInv
<1>4. ASSUME NEW length \in 1 .. (PerLine * MaxLines), Feed(length) PROVE IInv'
  BY <1>4, FeedIInv
<1>5. CASE TakeLine
  BY <1>5, TakeLineIInv
<1>6. CASE Flush
  BY <1>6, FlushIInv
<1> QED
  BY <1>1, <1>2, <1>3, <1>4, <1>5, <1>6 DEF Next

(* The inductive invariant holds in every reachable state. *)
THEOREM Invariance == Spec => []IInv
<1> QED
  BY InitIInv, StepIInv, PTL DEF Spec

(* Every variable keeps its type; the section being counted is one of those *)
(* listed.                                                                  *)
THEOREM TypeCorrect == Spec => []TypeOK
<1>1. IInv => TypeOK
  BY DEF IInv
<1> QED
  BY <1>1, Invariance, PTL

(* verdict() says pass only of a run in which every declared case passed in *)
(* the one section of the target, for any cases, any output and any slicing *)
(* of it.                                                                   *)
THEOREM PassAlwaysEarned == Spec => []PassIsEarned
<1>1. ASSUME IInv, Pass PROVE PassIsEarned
  <2>1. PICK s \in targets :
          /\ targets = {s} /\ total(orphans) = 0 /\ expected > 0
          /\ sections[s].counts["OK"] = expected
    BY <1>1 DEF Pass
  <2>2. s \in 1 .. Len(sections) /\ sections[s].target
    BY <2>1 DEF targets
  <2>3. expected = Cardinality(Cases)
    BY <1>1, <2>1 DEF IInv, TypeOK, Unknown
  <2>4. Read \in 0 .. Len(output) /\ Whole \in 0 .. Read /\ Len(output) \in Nat /\ s \in Nat
    BY <1>1, <2>2, ReadBounds DEF IInv, TypeOK
  <2>5. PassedBy(Read, s) = Cases
    <3>1. Cardinality(Cases) <= Cardinality(PassedBy(Read, s))
      BY <1>1, <2>1, <2>2, <2>3 DEF IInv, Counted, OkIsBounded
    <3>2. PassedBy(Read, s) \in SUBSET Cases
      BY DEF PassedBy
    <3>3. Cardinality(Cases) \in Nat /\ Cardinality(PassedBy(Read, s)) \in Nat
      BY <2>4, PassedByFinite, CasesAssumption, FS_CardinalityType
    <3>4. Cardinality(PassedBy(Read, s)) <= Cardinality(Cases)
      BY <3>2, CasesAssumption, FS_Subset
    <3>5. Cardinality(PassedBy(Read, s)) = Cardinality(Cases)
      BY <3>1, <3>3, <3>4
    <3> QED
      BY <3>2, <3>5, CasesAssumption, FS_Subset
  <2>6. \A c \in Cases : Passed(c, s)
    BY <2>4, <2>5 DEF PassedBy, Passed
  <2>7. \E j \in 1 .. Len(output) : Heading(j) /\ output[j].section = s /\ output[j].target
    BY <1>1, <2>2, <2>4 DEF IInv, Counted, TargetsAreHeadings
  <2>8. ASSUME NEW j \in 1 .. (carry.from \div PerLine)
        PROVE  /\ Heading(j) /\ output[j].target => output[j].section = s
               /\ output[j].kind = "case" => output[j].section > 0
    <3>1. j \in 1 .. Whole /\ j \in 1 .. Len(output)
      BY <2>4 DEF Whole
    <3>2. Heading(j) /\ output[j].target => output[j].section = s
      <4>1. Heading(j) /\ output[j].target => output[j].section \in targets
        BY <1>1, <3>1 DEF IInv, Blocks, HeadingsAreTargets, targets
      <4> QED
        BY <2>1, <4>1
    <3>3. output[j].section \in Nat
      <4>1. output[j] \in Line
        BY <1>1, <3>1, ElementTyped DEF IInv, TypeOK
      <4> QED
        BY <4>1 DEF Line
    <3>4. output[j].kind = "case" => output[j].section # 0
      BY <1>1, <2>1, <3>1 DEF IInv, Blocks, OrphansAreKept
    <3> QED
      BY <3>2, <3>3, <3>4
  <2> QED
    BY <2>2, <2>6, <2>7, <2>8 DEF PassIsEarned
<1>2. IInv => PassIsEarned
  BY <1>1 DEF PassIsEarned
<1> QED
  BY <1>2, Invariance, PTL

-----------------------------------------------------------------------------
(* While no line was cut, the counts are exact.                            *)

(* The cases with an outcome in section s, among the first n lines. *)
NamedBy(n, s) ==
  {c \in Cases : \E j \in 1 .. n : /\ output[j].kind = "case" /\ output[j].section = s
                                   /\ output[j].case = c}

SectionsReached == \A j \in 1 .. Read : output[j].section <= Len(sections)
HeadingOnce ==
  \A j, k \in 1 .. Read :
    Heading(j) /\ Heading(k) /\ output[j].section = output[k].section => j = k
CountsAreExact ==
  \A i \in 1 .. Len(sections) :
    /\ sections[i].counts["OK"] = Cardinality(PassedBy(Read, i))
    /\ total(sections[i].counts) = Cardinality(NamedBy(Read, i))
EveryTargetCounts ==
  \A j \in 1 .. Read : Heading(j) /\ output[j].target =>
    /\ output[j].section \in 1 .. Len(sections)
    /\ sections[output[j].section].target
OrphansAreExact ==
  total(orphans) > 0 <=> \E j \in 1 .. Read : output[j].kind = "case" /\ output[j].section = 0

Exact ==
  SectionsReached /\ HeadingOnce /\ CountsAreExact /\ EveryTargetCounts /\ OrphansAreExact

(* flush() had nothing to read, or a line that lacked only its newline.    *)
NoneCut == flushed => fed >= PerLine * Len(output) - 1

XInv == (flushed => ended) /\ (NoneCut => Exact)

LEMMA NamedByFinite ==
  ASSUME NEW n \in Nat, NEW s \in Nat
  PROVE  IsFiniteSet(NamedBy(n, s)) /\ Cardinality(NamedBy(n, s)) \in Nat
<1>1. NamedBy(n, s) \in SUBSET Cases
  BY DEF NamedBy
<1> QED
  BY <1>1, CasesAssumption, FS_Subset, FS_CardinalityType

LEMMA ClassifiedOkExactly ==
  ASSUME NEW outcome \in SUBSET Words
  PROVE  classifyOutcome(outcome) = "OK" <=> "ok" \in outcome
BY DEF classifyOutcome, Words

LEMMA InitXInv == Init => XInv
<1> SUFFICES ASSUME Init PROVE XInv
  OBVIOUS
<1>1. Read = 0
  BY DEF Init, Read, PerLine
<1>2. Len(sections) = 0 /\ total(orphans) = 0
  BY DEF Init, total, emptyCounts, STATUSES
<1> QED
  BY <1>1, <1>2 DEF Init, XInv, Exact, SectionsReached, HeadingOnce, CountsAreExact,
     EveryTargetCounts, OrphansAreExact

(* One more line, read whole, keeps the counts exact. *)
LEMMA WholeLineExact ==
  ASSUME IInv, Exact, ~flushed, UNCHANGED output,
         Read + 1 <= Len(output), Read' = Read + 1, ReadWhole(output[Read + 1])
  PROVE  Exact'
<1> DEFINE n == Read + 1
           l == output[n]
           k == Len(sections)
<1>1. Read \in Nat /\ n \in 1 .. Len(output) /\ l \in Line /\ n \in Nat
  BY ReadBounds, ElementTyped DEF IInv, TypeOK
<1>2. /\ k \in Nat /\ current = k
      /\ sections \in Seq([target : BOOLEAN, counts : Counts]) /\ orphans \in Counts
  BY DEF IInv, TypeOK, CurrentIsLast
<1>3. l.section = k + (IF l.kind = "heading" THEN 1 ELSE 0)
  BY <1>1 DEF IInv, Printed, Numbered, SectionsFollow
<1>4. l.outcome \in SUBSET Words /\ l.target \in BOOLEAN
  BY <1>1 DEF Line
<1>5. 1 .. n = (1 .. Read) \cup {n} /\ n \notin 1 .. Read
  BY <1>1
<1>6. \A j \in 1 .. Read : output[j].section \in Nat /\ output[j].section <= k
  <2>1. \A j \in 1 .. Read : output[j] \in Line
    BY <1>1, ElementTyped DEF IInv, TypeOK
  <2> QED
    BY <2>1 DEF Line, Exact, SectionsReached
<1>7. n = Read + 1 /\ Read' = n /\ output' = output /\ l = output[n]
  OBVIOUS
<1>8. \A i : PassedBy(Read, i)' = PassedBy(n, i) /\ NamedBy(Read, i)' = NamedBy(n, i)
  BY <1>7 DEF PassedBy, NamedBy
<1>9. l.kind = "case" => l.case \in Cases
  BY <1>1 DEF IInv, Printed, CasesNamed
<1>10. l.kind = "case" =>
         \A j \in 1 .. Read : output[j].kind = "case" /\ output[j].section = l.section
                                => output[j].case # l.case
  BY <1>1, <1>5 DEF IInv, Printed, CaseOnce
<1>11. HeadingOnce
  BY DEF Exact
<1>12. \A i \in 1 .. k : /\ sections[i] \in [target : BOOLEAN, counts : Counts]
                         /\ sections[i].counts["OK"] = Cardinality(PassedBy(Read, i))
                         /\ total(sections[i].counts) = Cardinality(NamedBy(Read, i))
  BY <1>2, ElementTyped DEF Exact, CountsAreExact
<1>13. \A j \in 1 .. Read : Heading(j) /\ output[j].target =>
         output[j].section \in 1 .. k /\ sections[output[j].section].target
  BY DEF Exact, EveryTargetCounts
<1>14. total(orphans) > 0 <=> \E j \in 1 .. Read : output[j].kind = "case" /\ output[j].section = 0
  BY DEF Exact, OrphansAreExact
<1>15. \A j : Heading(j)' <=> Heading(j)
  BY <1>7 DEF Heading
<1>16. ReadWhole(l)
  OBVIOUS
(* What lines that are no case leave alone. *)
<1>17. \A i : l.kind # "case" \/ l.section # i =>
         PassedBy(n, i) = PassedBy(Read, i) /\ NamedBy(n, i) = NamedBy(Read, i)
  BY <1>5, <1>7 DEF PassedBy, NamedBy
<1> HIDE DEF n, l, k
<1>20. CASE l.kind = "heading" /\ ReadHeading(l.target)
  <2>1. /\ Len(sections') = k + 1 /\ orphans' = orphans /\ l.section = k + 1
        /\ \A i \in 1 .. k : sections'[i] = sections[i]
        /\ sections'[k + 1] = [target |-> l.target, counts |-> emptyCounts]
    BY <1>2, <1>3, <1>4, <1>20 DEF ReadHeading, k
  <2>2. SectionsReached'
    BY <1>2, <1>5, <1>6, <1>7, <2>1 DEF SectionsReached
  <2>3. HeadingOnce'
    <3>1. \A j \in 1 .. Read : output[j].section # l.section
      BY <1>2, <1>6, <2>1
    <3> QED
      BY <1>5, <1>7, <1>11, <1>15, <3>1 DEF HeadingOnce
  <2>4. CountsAreExact'
    <3> SUFFICES ASSUME NEW i \in 1 .. k + 1
                 PROVE  /\ sections'[i].counts["OK"] = Cardinality(PassedBy(n, i))
                        /\ total(sections'[i].counts) = Cardinality(NamedBy(n, i))
      BY <1>8, <2>1 DEF CountsAreExact, total
    <3>1. PassedBy(n, i) = PassedBy(Read, i) /\ NamedBy(n, i) = NamedBy(Read, i)
      BY <1>17, <1>20
    <3>2. CASE i \in 1 .. k
      BY <1>12, <2>1, <3>1, <3>2 DEF total
    <3>3. CASE i = k + 1
      <4>1. PassedBy(Read, i) = {} /\ NamedBy(Read, i) = {}
        BY <1>2, <1>6, <3>3 DEF PassedBy, NamedBy
      <4>2. emptyCounts["OK"] = 0 /\ total(emptyCounts) = 0
        BY DEF emptyCounts, STATUSES, total
      <4>3. sections'[i].counts = emptyCounts
        BY <2>1, <3>3
      <4> QED
        BY <3>1, <4>1, <4>2, <4>3, FS_EmptySet DEF total
    <3> QED
      BY <1>2, <3>2, <3>3
  <2>5. EveryTargetCounts'
    <3> SUFFICES ASSUME NEW j \in 1 .. n, Heading(j), output[j].target
                 PROVE  /\ output[j].section \in 1 .. k + 1
                        /\ sections'[output[j].section].target
      BY <1>7, <1>15, <2>1 DEF EveryTargetCounts
    <3>1. CASE j \in 1 .. Read
      <4>1. output[j].section \in 1 .. k /\ sections[output[j].section].target
        BY <1>13, <3>1
      <4> QED
        BY <1>2, <2>1, <4>1
    <3>2. CASE j = n
      <4>1. output[j].section = k + 1 /\ sections'[k + 1].target = l.target /\ l.target
        BY <1>7, <2>1, <3>2
      <4> QED
        BY <1>2, <4>1
    <3> QED
      BY <1>5, <3>1, <3>2
  <2>6. OrphansAreExact'
    BY <1>5, <1>7, <1>14, <1>20, <2>1 DEF OrphansAreExact, total
  <2> QED
    BY <2>2, <2>3, <2>4, <2>5, <2>6 DEF Exact
<1>21. CASE l.kind = "case" /\ ReadCase(classifyOutcome(l.outcome))
  <2> DEFINE status == classifyOutcome(l.outcome)
  <2>1. status \in STATUSES /\ (status = "OK" <=> "ok" \in l.outcome) /\ "OK" \in STATUSES
    BY <1>4, ClassifiedOk, ClassifiedOkExactly DEF STATUSES
  <2>2. l.section = k /\ l.case \in Cases
    BY <1>2, <1>3, <1>9, <1>21
  <2>20. ReadCase(status)
    BY <1>21
  <2> HIDE DEF status
  <2>3. /\ Len(sections') = k
        /\ \A i \in 1 .. k : sections'[i].target = sections[i].target
    BY <2>1, <2>20, ReadCaseKeeps DEF k
  <2>4. SectionsReached'
    BY <1>2, <1>5, <1>6, <1>7, <2>2, <2>3 DEF SectionsReached
  <2>5. HeadingOnce'
    BY <1>5, <1>7, <1>11, <1>15, <1>21 DEF HeadingOnce, Heading
  <2>6. EveryTargetCounts'
    <3> SUFFICES ASSUME NEW j \in 1 .. n, Heading(j), output[j].target
                 PROVE  /\ output[j].section \in 1 .. k
                        /\ sections'[output[j].section].target
      BY <1>7, <1>15, <2>3 DEF EveryTargetCounts
    <3>1. j \in 1 .. Read
      BY <1>5, <1>7, <1>21 DEF Heading
    <3> QED
      BY <1>13, <2>3, <3>1
  <2>7. CASE k = 0
    <3>1. orphans' = [orphans EXCEPT ![status] = @ + 1]
      BY <1>2, <2>7, <2>20 DEF ReadCase
    <3>2. total([orphans EXCEPT ![status] = @ + 1]) = total(orphans) + 1 /\ total(orphans) \in Nat
      BY <1>2, <2>1, OneMore
    <3>3. total(orphans)' > 0
      BY <3>1, <3>2 DEF total
    <3>4. OrphansAreExact'
      BY <1>5, <1>7, <1>21, <2>2, <2>7, <3>3 DEF OrphansAreExact
    <3>5. CountsAreExact'
      BY <2>3, <2>7 DEF CountsAreExact
    <3> QED
      BY <2>4, <2>5, <2>6, <3>4, <3>5 DEF Exact
  <2>8. CASE k > 0
    <3> DEFINE raised == [sections[k].counts EXCEPT ![status] = @ + 1]
    <3>1. orphans' = orphans
      BY <1>2, <2>8, <2>20 DEF ReadCase
    <3>2. OrphansAreExact'
      BY <1>2, <1>5, <1>7, <1>14, <2>2, <2>8, <3>1 DEF OrphansAreExact, total
    <3>3. k \in 1 .. k /\ sections[k].counts \in Counts
      BY <1>2, <1>12, <2>8
    <3>4. sections' = [sections EXCEPT ![k] = [sections[k] EXCEPT !.counts = raised]]
      BY <1>2, <2>8, <2>20 DEF ReadCase
    <3>5. /\ raised \in Counts
          /\ raised["OK"] = sections[k].counts["OK"] + (IF "ok" \in l.outcome THEN 1 ELSE 0)
          /\ total(raised) = total(sections[k].counts) + 1
      <4>1. sections[k].counts \in [STATUSES -> Nat]
        BY <3>3 DEF Counts
      <4>2. raised \in [STATUSES -> Nat]
        BY <2>1, <4>1
      <4>3. raised["OK"] = sections[k].counts["OK"] + (IF status = "OK" THEN 1 ELSE 0)
        BY <2>1, <4>1
      <4>4. total(raised) = total(sections[k].counts) + 1
        BY <2>1, <3>3, OneMore
      <4> QED
        BY <2>1, <4>2, <4>3, <4>4 DEF Counts
    <3>6. /\ \A i \in 1 .. k : i # k => sections'[i] = sections[i]
          /\ sections'[k].counts = raised
      <4> HIDE DEF raised
      <4>1. k \in 1 .. Len(sections) /\ sections[k] \in [target : BOOLEAN, counts : Counts]
        BY <1>2, <1>12, <3>3 DEF k
      <4> QED
        BY <1>2, <3>4, <3>5, <4>1 DEF k
    <3> HIDE DEF raised
    <3>7. l.case \notin NamedBy(Read, k) /\ l.case \notin PassedBy(Read, k)
      BY <1>10, <1>21, <2>2 DEF NamedBy, PassedBy
    <3>8. NamedBy(n, k) = NamedBy(Read, k) \cup {l.case}
      BY <1>5, <1>7, <1>21, <2>2 DEF NamedBy
    <3>9. PassedBy(n, k) =
            IF "ok" \in l.outcome THEN PassedBy(Read, k) \cup {l.case} ELSE PassedBy(Read, k)
      BY <1>5, <1>7, <1>21, <2>2 DEF PassedBy
    <3>10. /\ IsFiniteSet(PassedBy(Read, k)) /\ Cardinality(PassedBy(Read, k)) \in Nat
           /\ IsFiniteSet(NamedBy(Read, k)) /\ Cardinality(NamedBy(Read, k)) \in Nat
      BY <1>1, <1>2, PassedByFinite, NamedByFinite
    <3>11. Cardinality(NamedBy(n, k)) = Cardinality(NamedBy(Read, k)) + 1
      BY <3>7, <3>8, <3>10, FS_AddElement
    <3>12. Cardinality(PassedBy(n, k)) =
             Cardinality(PassedBy(Read, k)) + (IF "ok" \in l.outcome THEN 1 ELSE 0)
      <4>1. CASE "ok" \in l.outcome
        BY <3>7, <3>9, <3>10, <4>1, FS_AddElement
      <4>2. CASE "ok" \notin l.outcome
        BY <3>9, <3>10, <4>2
      <4> QED
        BY <4>1, <4>2
    <3>13. CountsAreExact'
      <4> SUFFICES ASSUME NEW i \in 1 .. k
                   PROVE  /\ sections'[i].counts["OK"] = Cardinality(PassedBy(n, i))
                          /\ total(sections'[i].counts) = Cardinality(NamedBy(n, i))
        BY <1>8, <2>3 DEF CountsAreExact, total
      <4>1. CASE i = k
        BY <1>12, <3>3, <3>5, <3>6, <3>11, <3>12, <4>1 DEF total
      <4>2. CASE i # k
        <5>1. PassedBy(n, i) = PassedBy(Read, i) /\ NamedBy(n, i) = NamedBy(Read, i)
          BY <1>17, <2>2, <4>2
        <5> QED
          BY <1>12, <3>6, <4>2, <5>1 DEF total
      <4> QED
        BY <4>1, <4>2
    <3> QED
      BY <2>4, <2>5, <2>6, <3>2, <3>13 DEF Exact
  <2> QED
    BY <1>2, <2>7, <2>8
<1>22. CASE l.kind = "garbled" /\ UNCHANGED counted
  <2>1. UNCHANGED <<sections, orphans>> /\ l.section = k
    BY <1>2, <1>3, <1>22 DEF counted
  <2>2. SectionsReached'
    BY <1>2, <1>5, <1>6, <1>7, <2>1 DEF SectionsReached, k
  <2>3. HeadingOnce'
    BY <1>5, <1>7, <1>11, <1>15, <1>22 DEF HeadingOnce, Heading
  <2>4. CountsAreExact'
    <3>1. \A i : PassedBy(n, i) = PassedBy(Read, i) /\ NamedBy(n, i) = NamedBy(Read, i)
      BY <1>17, <1>22
    <3> QED
      BY <1>8, <1>12, <2>1, <3>1 DEF CountsAreExact, total, k
  <2>5. EveryTargetCounts'
    BY <1>5, <1>7, <1>13, <1>15, <1>22, <2>1 DEF EveryTargetCounts, Heading, k
  <2>6. OrphansAreExact'
    BY <1>5, <1>7, <1>14, <1>22, <2>1 DEF OrphansAreExact, total
  <2> QED
    BY <2>2, <2>3, <2>4, <2>5, <2>6 DEF Exact
<1> QED
  BY <1>16, <1>20, <1>21, <1>22 DEF ReadWhole

(* flush() reads what is left: nothing, a cut line, or one that lacked only *)
(* its newline.                                                             *)
LEMMA FlushReads ==
  ASSUME IInv, Flush
  PROVE  /\ ~flushed /\ ended /\ UNCHANGED <<output, ended, fed, expected>>
         /\ \/ Read' = Read /\ UNCHANGED counted
            \/ fed < PerLine * Len(output) - 1
            \/ /\ Read + 1 <= Len(output) /\ Read' = Read + 1
               /\ ReadWhole(output[Read + 1])
<1> DEFINE n == Read + 1
<1>1. /\ carry.from \in Nat /\ carry.length \in Nat /\ Len(output) \in Nat /\ fed \in Nat
      /\ carry.from + carry.length = fed /\ fed <= 3 * Len(output)
      /\ Read \in Nat /\ PerLine = 3 /\ carry.from = 3 * Read /\ ~flushed
  BY ReadBounds DEF Flush, IInv, TypeOK, CarryFollows, PerLine
<1>2. (carry.from \div PerLine) + 1 = n /\ carry.from % PerLine = 0 /\ Newline = 3 * n
  <2>1. (3 * Read) \div 3 = Read /\ (3 * Read) % 3 = 0
    BY <1>1, Thirds
  <2> QED
    BY <1>1, <2>1 DEF Newline
<1>3. carry.length \in 0 .. 2
  BY <1>1, <1>2 DEF Flush, HasLine
<1>4. ended /\ carry'.from = fed /\ UNCHANGED <<output, ended, fed, expected>>
  BY <1>1 DEF Flush
<1>5. CASE carry.length = 0
  <2>1. Read' = Read
    BY <1>1, <1>4, <1>5 DEF Read, PerLine
  <2> QED
    BY <1>1, <1>4, <1>5, <2>1 DEF Flush
<1>6. CASE carry.length = 1
  <2>1. fed = 3 * Read + 1 /\ Read + 1 <= Len(output)
    BY <1>1, <1>6
  <2> QED
    BY <1>1, <1>4, <2>1
<1>7. CASE carry.length = 2
  <2>1. fed = 3 * n - 1 /\ n <= Len(output) /\ n \in Nat
    BY <1>1, <1>7
  <2>2. Read' = n
    <3>1. fed + 2 = 3 * n + 1 /\ PerLine' = 3
      BY <2>1 DEF PerLine
    <3> HIDE DEF n
    <3>2. (3 * n + 1) \div 3 = n
      BY <2>1, Thirds
    <3> QED
      BY <1>4, <3>1, <3>2 DEF Read, PerLine
  <2>3. ReadWhole(output[n])
    BY <1>1, <1>2, <1>7 DEF Flush, line
  <2> QED
    BY <1>1, <1>4, <2>1, <2>2, <2>3
<1> QED
  BY <1>3, <1>5, <1>6, <1>7

(* Nothing read and nothing printed among the lines read. *)
LEMMA SameExact ==
  ASSUME Exact, Read' = Read, UNCHANGED <<sections, orphans>>,
         \A j \in 1 .. Read : output'[j] = output[j]
  PROVE  Exact'
<1>1. \A i : PassedBy(Read, i)' = PassedBy(Read, i) /\ NamedBy(Read, i)' = NamedBy(Read, i)
  BY DEF PassedBy, NamedBy
<1>2. SectionsReached' /\ HeadingOnce' /\ EveryTargetCounts'
  BY DEF Exact, SectionsReached, HeadingOnce, EveryTargetCounts, Heading
<1>3. CountsAreExact'
  BY <1>1 DEF Exact, CountsAreExact, total
<1>4. OrphansAreExact'
  BY DEF Exact, OrphansAreExact, total
<1> QED
  BY <1>2, <1>3, <1>4 DEF Exact

LEMMA StepXInv == IInv /\ XInv /\ [Next]_vars => XInv'
<1> SUFFICES ASSUME IInv, XInv, [Next]_vars PROVE XInv'
  OBVIOUS
<1>1. Read \in 0 .. Len(output) /\ Len(output) \in Nat /\ output \in Seq(Line)
  BY ReadBounds DEF IInv, TypeOK
<1>2. ASSUME NEW l, Prints(l) PROVE XInv'
  <2>1. ~ended /\ ended' = ended /\ flushed' = flushed /\ ~flushed
    BY <1>2 DEF Prints, XInv
  <2>2. Exact
    BY <2>1 DEF XInv, NoneCut
  <2>3. \A j \in 1 .. Read : output'[j] = output[j]
    BY <1>1, <1>2 DEF Prints
  <2>4. Read' = Read /\ UNCHANGED <<sections, orphans>>
    BY <1>2 DEF Prints, Read
  <2> QED
    BY <2>1, <2>2, <2>3, <2>4, SameExact DEF XInv
<1>3. ASSUME UNCHANGED <<output, fed, flushed, sections, orphans>>, Read' = Read, ended => ended'
      PROVE  XInv'
  BY <1>3, SameExact DEF XInv, NoneCut, PerLine
<1>4. CASE End \/ UNCHANGED vars
  <2>1. UNCHANGED <<output, fed, flushed, sections, orphans, carry>> /\ (ended => ended')
    BY <1>4 DEF End, vars
  <2> QED
    BY <1>3, <2>1 DEF Read
<1>5. ASSUME NEW length \in 1 .. (PerLine * MaxLines), Feed(length) PROVE XInv'
  <2>1. ~flushed /\ UNCHANGED <<output, ended, flushed, sections, orphans>>
    BY <1>5 DEF Feed
  <2>2. carry'.from = carry.from
    BY <1>5 DEF Feed, IInv, TypeOK
  <2>3. Read' = Read /\ Exact
    BY <2>1, <2>2 DEF Read, XInv, NoneCut
  <2> QED
    BY <2>1, <2>3, SameExact DEF XInv
<1>6. CASE TakeLine
  <2>1. /\ ~flushed /\ Read + 1 <= Len(output) /\ Read' = Read + 1
        /\ ReadWhole(output[Read + 1])
        /\ UNCHANGED <<output, ended, fed, flushed, expected>>
    BY <1>6, TakeLineReads
  <2>2. Exact
    BY <2>1 DEF XInv, NoneCut
  <2>3. Exact'
    BY <2>1, <2>2, WholeLineExact
  <2> QED
    BY <2>1, <2>3 DEF XInv
<1>7. CASE Flush
  <2>1. ~flushed /\ ended /\ UNCHANGED <<output, ended, fed, expected>>
    BY <1>7, FlushReads
  <2>2. Exact
    BY <2>1 DEF XInv, NoneCut
  <2>3. CASE Read' = Read /\ UNCHANGED counted
    BY <2>1, <2>2, <2>3, SameExact DEF XInv, counted
  <2>4. CASE fed < PerLine * Len(output) - 1
    <3>1. fed \in Nat /\ PerLine = 3 /\ PerLine' = 3 /\ flushed' = TRUE
      BY <1>7 DEF Flush, IInv, TypeOK, PerLine
    <3>2. ~NoneCut'
      BY <1>1, <2>1, <2>4, <3>1 DEF NoneCut
    <3> QED
      BY <2>1, <3>2 DEF XInv
  <2>5. CASE Read + 1 <= Len(output) /\ Read' = Read + 1 /\ ReadWhole(output[Read + 1])
    BY <2>1, <2>2, <2>5, WholeLineExact DEF XInv
  <2> QED
    BY <1>7, <2>3, <2>4, <2>5, FlushReads
<1> QED
  BY <1>2, <1>4, <1>5, <1>6, <1>7 DEF Next, PrintHeading, PrintCase

(* Once the output was read to its end, but perhaps for the last newline,   *)
(* verdict() says pass exactly of the runs that deserve it, for any cases,  *)
(* any output and any slicing of it.                                        *)
THEOREM VerdictAlwaysExact == Spec => []VerdictIsExact
<1>1. ASSUME IInv, XInv, flushed, fed >= PerLine * Len(output) - 1, expected > 0
      PROVE  Pass <=> Perfect
  <2>1. Exact /\ expected = Cardinality(Cases) /\ Cardinality(Cases) \in Nat
    BY <1>1, CasesAssumption, FS_CardinalityType DEF XInv, NoneCut, IInv, TypeOK, Unknown
  <2>2. Read = Len(output) /\ Len(output) \in Nat
    <3>1. /\ carry.from \in Nat /\ carry.length = 0 /\ carry.from = fed /\ Len(output) \in Nat
          /\ fed <= 3 * Len(output) /\ fed >= 3 * Len(output) - 1
      BY <1>1 DEF IInv, TypeOK, CarryFollows, PerLine
    <3> QED
      BY <3>1 DEF Read, PerLine
  <2>3. \A j \in 1 .. Len(output) : output[j].section \in Nat
    <3>1. \A j \in 1 .. Len(output) : output[j] \in Line
      BY <1>1, ElementTyped DEF IInv, TypeOK
    <3> QED
      BY <3>1 DEF Line
  <2>4. total(orphans) \in Nat
    BY <1>1, SameTotal
  <2>5. \A j \in 1 .. Len(output) : Heading(j) /\ output[j].target => output[j].section \in targets
    BY <2>1, <2>2 DEF Exact, EveryTargetCounts, targets
  <2>6. \A i \in targets : \E j \in 1 .. Len(output) :
          Heading(j) /\ output[j].section = i /\ output[j].target
    BY <1>1, <2>2 DEF IInv, Counted, TargetsAreHeadings, targets
  <2>7. \A j, k \in 1 .. Len(output) :
          Heading(j) /\ Heading(k) /\ output[j].section = output[k].section => j = k
    BY <2>1, <2>2 DEF Exact, HeadingOnce
  <2>8. \A s \in Nat : (\A c \in Cases : Passed(c, s)) <=> PassedBy(Len(output), s) = Cases
    BY DEF Passed, PassedBy
  <2>9. targets \subseteq 1 .. Len(sections) /\ Len(sections) \in Nat
    BY <1>1 DEF targets, IInv, TypeOK
  <2>10. \A i \in targets :
           /\ sections[i].counts["OK"] = Cardinality(PassedBy(Len(output), i))
           /\ total(sections[i].counts) = Cardinality(NamedBy(Len(output), i))
    BY <2>1, <2>2, <2>9 DEF Exact, CountsAreExact
  <2>11. total(orphans) = 0 <=>
           \A j \in 1 .. Len(output) : output[j].kind = "case" => output[j].section > 0
    BY <2>1, <2>2, <2>3, <2>4 DEF Exact, OrphansAreExact
  <2>12. ASSUME Pass PROVE Perfect
    <3>1. PICK i \in targets : targets = {i} /\ total(orphans) = 0
                               /\ sections[i].counts["OK"] = expected
      BY <2>12 DEF Pass
    <3>2. PassedBy(Len(output), i) = Cases
      <4>1. PassedBy(Len(output), i) \in SUBSET Cases
        BY DEF PassedBy
      <4>2. Cardinality(PassedBy(Len(output), i)) = Cardinality(Cases)
        BY <2>1, <2>10, <3>1
      <4> QED
        BY <4>1, <4>2, CasesAssumption, FS_Subset
    <3>3. PICK h \in 1 .. Len(output) : Heading(h) /\ output[h].section = i /\ output[h].target
      BY <2>6, <3>1
    <3>4. {j \in 1 .. Len(output) : Heading(j) /\ output[j].target} = {h}
      BY <2>5, <2>7, <3>1, <3>3
    <3>5. \A c \in Cases : Passed(c, output[h].section)
      BY <2>8, <2>9, <3>2, <3>3
    <3> QED
      BY <2>11, <3>1, <3>4, <3>5 DEF Perfect
  <2>13. ASSUME Perfect PROVE Pass
    <3>1. PICK h \in 1 .. Len(output) :
            /\ {j \in 1 .. Len(output) : Heading(j) /\ output[j].target} = {h}
            /\ \A c \in Cases : Passed(c, output[h].section)
      BY <2>13 DEF Perfect
    <3> DEFINE i == output[h].section
    <3>2. i \in targets /\ i \in Nat
      BY <2>3, <2>5, <3>1
    <3>3. targets = {i}
      BY <2>6, <3>1, <3>2
    <3>4. PassedBy(Len(output), i) = Cases
      BY <2>8, <3>1, <3>2
    <3>5. NamedBy(Len(output), i) = Cases
      BY <3>4 DEF NamedBy, PassedBy
    <3>6. total(orphans) = 0
      BY <2>11, <2>13 DEF Perfect
    <3>7. total(sections[i].counts) = expected /\ sections[i].counts["OK"] = expected
      BY <2>1, <2>10, <3>2, <3>4, <3>5
    <3> QED
      BY <1>1, <3>2, <3>3, <3>6, <3>7 DEF Pass
  <2> QED
    BY <2>12, <2>13
<1>2. IInv /\ XInv => VerdictIsExact
  BY <1>1 DEF VerdictIsExact
<1>3. Spec => []XInv
  BY InitXInv, StepXInv, Invariance, PTL DEF Spec
<1> QED
  BY <1>2, <1>3, Invariance, PTL

=============================================================================
