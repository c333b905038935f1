--------------------------- MODULE ProbeDataProofs ---------------------------
(***************************************************************************)
(* Theorems about what the probe stage computes: the video memory read off *)
(* a report of any length, whole or cut short anywhere, and the options    *)
(* that a file of any shape makes of the defaults.                         *)
(*                                                                         *)
(* The computations are recursive functions, so each proof first shows by  *)
(* induction that the function is there.  The library states induction     *)
(* with an operator as its parameter; here it is stated with a set.        *)
(***************************************************************************)
EXTENDS HardwareProbe, Config, SequenceTheorems, WellFoundedInduction, TLAPS

-----------------------------------------------------------------------------
(***************************************************************************)
(* Induction over the naturals                                             *)
(***************************************************************************)

\* A set of naturals that is not empty has a least member.
LEMMA Least ==
  ASSUME NEW T, T \subseteq Nat, T # {}
  PROVE  \E x \in T : \A y \in T : x <= y
<1>1. IsWellFoundedOn(OpToRel(<, Nat), Nat)
  BY NatLessThanWellFounded
<1>2. PICK x \in T : \A y \in T : <<y, x>> \notin OpToRel(<, Nat)
  BY <1>1, WFMin
<1>3. \A y \in T : ~(y < x)
  BY <1>2 DEF OpToRel
<1>4. QED BY <1>3

\* A set with 0 in it and with each of its members' successors has them all.
LEMMA Induct ==
  ASSUME NEW S, 0 \in S, \A n \in Nat : n \in S => n + 1 \in S
  PROVE  Nat \subseteq S
<1>1. SUFFICES ASSUME Nat \ S # {} PROVE FALSE
  OBVIOUS
<1>2. PICK x \in Nat \ S : \A y \in Nat \ S : x <= y
  BY <1>1, Least
<1>3. x # 0 /\ x - 1 \in Nat /\ x - 1 \notin S
  BY <1>2
<1>4. QED BY <1>2, <1>3

-----------------------------------------------------------------------------
(***************************************************************************)
(* The sum over the GPUs                                                   *)
(***************************************************************************)
IsSumOfFb(sum, gpus, n) ==
  sum = [i \in 0..n |-> IF i = 0 THEN 0 ELSE sum[i - 1] + gpus[i].fb]

\* The sums up to each GPU are there.
LEMMA SumExists ==
  ASSUME NEW gpus, NEW n \in Nat
  PROVE  \E sum : IsSumOfFb(sum, gpus, n)
<1> DEFINE S == {m \in Nat : \E sum : IsSumOfFb(sum, gpus, m)}
<1>1. 0 \in S
  <2> DEFINE sum == [i \in 0..0 |-> 0]
  <2>1. IsSumOfFb(sum, gpus, 0) BY DEF IsSumOfFb
  <2>2. QED BY <2>1
<1>2. ASSUME NEW m \in Nat, m \in S PROVE m + 1 \in S
  <2>1. PICK sum : IsSumOfFb(sum, gpus, m) BY <1>2
  <2> DEFINE next == [i \in 0..m + 1 |-> IF i = m + 1 THEN sum[m] + gpus[m + 1].fb ELSE sum[i]]
  <2>2. \A i \in 0..m : sum[i] = IF i = 0 THEN 0 ELSE sum[i - 1] + gpus[i].fb
    BY <2>1 DEF IsSumOfFb
  <2>3. next[0] = 0 BY <2>2
  <2>4. \A i \in 1..m : next[i] = next[i - 1] + gpus[i].fb BY <2>2
  <2>5. next[m + 1] = next[m] + gpus[m + 1].fb OBVIOUS
  <2>6. \A i \in 0..m + 1 : next[i] = IF i = 0 THEN 0 ELSE next[i - 1] + gpus[i].fb
    <3> HIDE DEF next
    <3>1. QED BY <2>3, <2>4, <2>5
  <2>7. next = [i \in 0..m + 1 |-> next[i]] OBVIOUS
  <2>8. IsSumOfFb(next, gpus, m + 1)
    <3> HIDE DEF next
    <3>1. QED BY <2>6, <2>7 DEF IsSumOfFb
  <2>9. QED
    <3> HIDE DEF next
    <3>1. QED BY <2>8
<1>3. QED
  <2> HIDE DEF S
  <2>1. Nat \subseteq S BY <1>1, <1>2, Induct
  <2>2. QED BY <2>1 DEF S

\* SumOfFb is the last of them.
LEMMA SumOfFbIs ==
  ASSUME NEW gpus, Len(gpus) \in Nat
  PROVE  \E sum : IsSumOfFb(sum, gpus, Len(gpus)) /\ SumOfFb(gpus) = sum[Len(gpus)]
<1> DEFINE sum == CHOOSE f : IsSumOfFb(f, gpus, Len(gpus))
<1>1. IsSumOfFb(sum, gpus, Len(gpus)) BY SumExists
<1>2. SumOfFb(gpus) = sum[Len(gpus)] BY DEF SumOfFb, IsSumOfFb
<1>3. QED
  <2> HIDE DEF sum
  <2>1. QED BY <1>1, <1>2

\* The sums, one by one.
LEMMA SumsStep ==
  ASSUME NEW gpus, NEW n \in Nat, NEW sum, IsSumOfFb(sum, gpus, n)
  PROVE  sum[0] = 0 /\ \A i \in 0..n - 1 : sum[i + 1] = sum[i] + gpus[i + 1].fb
<1>1. \A i \in 0..n : sum[i] = IF i = 0 THEN 0 ELSE sum[i - 1] + gpus[i].fb
  BY DEF IsSumOfFb
<1>2. sum[0] = 0
  <2>1. 0 \in 0..n OBVIOUS
  <2>2. QED BY <1>1, <2>1
<1>3. ASSUME NEW i \in 0..n - 1 PROVE sum[i + 1] = sum[i] + gpus[i + 1].fb
  <2>1. i + 1 \in 0..n /\ i + 1 # 0 /\ (i + 1) - 1 = i OBVIOUS
  <2>2. sum[i + 1] = sum[(i + 1) - 1] + gpus[i + 1].fb BY <1>1, <2>1
  <2>3. QED BY <2>1, <2>2
<1>4. QED BY <1>2, <1>3

\* The sums are naturals.
LEMMA SumsAreNatural ==
  ASSUME NEW gpus, NEW n \in Nat, \A i \in 1..n : gpus[i].fb \in Nat,
         NEW sum, IsSumOfFb(sum, gpus, n)
  PROVE  \A i \in 0..n : sum[i] \in Nat
<1> DEFINE S == {i \in Nat : i <= n => sum[i] \in Nat}
<1>1. 0 \in S
  <2>1. sum[0] = 0 BY SumsStep
  <2>2. QED BY <2>1
<1>2. ASSUME NEW i \in Nat, i \in S PROVE i + 1 \in S
  <2>1. CASE i + 1 <= n
    <3>1. i \in 0..n - 1 /\ sum[i] \in Nat BY <1>2, <2>1
    <3>2. sum[i + 1] = sum[i] + gpus[i + 1].fb BY <3>1, SumsStep
    <3>3. gpus[i + 1].fb \in Nat BY <2>1
    <3>4. QED BY <3>1, <3>2, <3>3
  <2>2. CASE ~(i + 1 <= n)
    BY <2>2
  <2>3. QED BY <2>1, <2>2
<1>3. QED
  <2> HIDE DEF S
  <2>1. Nat \subseteq S BY <1>1, <1>2, Induct
  <2>2. QED BY <2>1 DEF S

\* The sums grow with the GPUs.
LEMMA SumsGrow ==
  ASSUME NEW gpus, NEW n \in Nat, \A i \in 1..n : gpus[i].fb \in Nat,
         NEW sum, IsSumOfFb(sum, gpus, n), NEW m \in 0..n
  PROVE  sum[m] <= sum[n]
<1> DEFINE S == {i \in Nat : m <= i /\ i <= n => sum[m] <= sum[i]}
<1>1. 0 \in S
  <2>1. sum[0] \in Nat BY SumsAreNatural
  <2>2. m <= 0 => m = 0 OBVIOUS
  <2>3. QED BY <2>1, <2>2
<1>2. ASSUME NEW i \in Nat, i \in S PROVE i + 1 \in S
  <2>1. CASE m <= i /\ i + 1 <= n
    <3>1. i \in 0..n - 1 /\ sum[m] <= sum[i] BY <1>2, <2>1
    <3>2. sum[i + 1] = sum[i] + gpus[i + 1].fb BY <3>1, SumsStep
    <3>3. gpus[i + 1].fb \in Nat BY <2>1
    <3>4. sum[m] \in Nat /\ sum[i] \in Nat BY <3>1, SumsAreNatural
    <3>5. QED BY <3>1, <3>2, <3>3, <3>4
  <2>2. CASE m = i + 1
    <3>1. m <= n /\ sum[m] \in Nat BY SumsAreNatural
    <3>2. QED BY <2>2, <3>1
  <2>3. CASE ~(m <= i + 1 /\ i + 1 <= n)
    BY <2>3
  <2>4. QED BY <2>1, <2>2, <2>3
<1>3. QED
  <2> HIDE DEF S
  <2>1. Nat \subseteq S BY <1>1, <1>2, Induct
  <2>2. QED BY <2>1 DEF S

-----------------------------------------------------------------------------
(***************************************************************************)
(* The loop over the lines                                                 *)
(***************************************************************************)
Unread == [inBlock |-> FALSE, sum |-> 0]

IsReading(read, lines, n) ==
  read = [l \in 0..n |-> IF l = 0 THEN Unread ELSE ReadLine(read[l - 1], lines[l])]

\* What is known after each line is there.
LEMMA ReadingExists ==
  ASSUME NEW lines, NEW n \in Nat
  PROVE  \E read : IsReading(read, lines, n)
<1> DEFINE S == {m \in Nat : \E read : IsReading(read, lines, m)}
<1>1. 0 \in S
  <2> DEFINE read == [l \in 0..0 |-> Unread]
  <2>1. IsReading(read, lines, 0) BY DEF IsReading
  <2>2. QED BY <2>1
<1>2. ASSUME NEW m \in Nat, m \in S PROVE m + 1 \in S
  <2>1. PICK read : IsReading(read, lines, m) BY <1>2
  <2> DEFINE next == [l \in 0..m + 1 |-> IF l = m + 1 THEN ReadLine(read[m], lines[m + 1])
                                                       ELSE read[l]]
  <2>2. \A l \in 0..m : read[l] = IF l = 0 THEN Unread ELSE ReadLine(read[l - 1], lines[l])
    BY <2>1 DEF IsReading
  <2>3. next[0] = Unread BY <2>2
  <2>4. \A l \in 1..m : next[l] = ReadLine(next[l - 1], lines[l]) BY <2>2
  <2>5. next[m + 1] = ReadLine(next[m], lines[m + 1]) OBVIOUS
  <2>6. next = [l \in 0..m + 1 |-> next[l]] OBVIOUS
  <2> HIDE DEF next
  <2>7. \A l \in 0..m + 1 : next[l] = IF l = 0 THEN Unread ELSE ReadLine(next[l - 1], lines[l])
    BY <2>3, <2>4, <2>5
  <2>8. IsReading(next, lines, m + 1) BY <2>6, <2>7 DEF IsReading
  <2>9. QED BY <2>8
<1>3. QED
  <2> HIDE DEF S
  <2>1. Nat \subseteq S BY <1>1, <1>2, Induct
  <2>2. QED BY <2>1 DEF S

\* VramTotalMib is the sum that is known after the last line.
LEMMA VramTotalMibIs ==
  ASSUME NEW lines, Len(lines) \in Nat
  PROVE  \E read : IsReading(read, lines, Len(lines)) /\ VramTotalMib(lines) = read[Len(lines)].sum
<1> DEFINE read == CHOOSE f : IsReading(f, lines, Len(lines))
<1>1. IsReading(read, lines, Len(lines)) BY ReadingExists
<1>2. VramTotalMib(lines) = read[Len(lines)].sum BY DEF VramTotalMib, IsReading, Unread
<1> HIDE DEF read
<1>3. QED BY <1>1, <1>2

\* The loop, line by line.
LEMMA ReadingStep ==
  ASSUME NEW lines, NEW n \in Nat, NEW read, IsReading(read, lines, n)
  PROVE  /\ read[0] = Unread
         /\ \A l \in 0..n - 1 : read[l + 1] = ReadLine(read[l], lines[l + 1])
<1>1. \A l \in 0..n : read[l] = IF l = 0 THEN Unread ELSE ReadLine(read[l - 1], lines[l])
  BY DEF IsReading
<1>2. read[0] = Unread
  <2>1. 0 \in 0..n OBVIOUS
  <2>2. QED BY <1>1, <2>1
<1>3. ASSUME NEW l \in 0..n - 1 PROVE read[l + 1] = ReadLine(read[l], lines[l + 1])
  <2>1. l + 1 \in 0..n /\ l + 1 # 0 /\ (l + 1) - 1 = l OBVIOUS
  <2>2. read[l + 1] = ReadLine(read[(l + 1) - 1], lines[l + 1]) BY <1>1, <2>1
  <2>3. QED BY <2>1, <2>2
<1>4. QED BY <1>2, <1>3

\* What a line does: a header opens a block, the first total with a number
\* closes it, and any other line changes nothing.
LEMMA LineRead ==
  ASSUME NEW acc, NEW line
  PROVE  /\ line.is = "fb" => ReadLine(acc, line).inBlock /\ ReadLine(acc, line).sum = acc.sum
         /\ line.is = "total" /\ acc.inBlock /\ line.mib # NotAvailable =>
              ~ReadLine(acc, line).inBlock /\ ReadLine(acc, line).sum = acc.sum + line.mib
         /\ line.is # "fb" /\ ~(acc.inBlock /\ line.is = "total" /\ line.mib # NotAvailable) =>
              ReadLine(acc, line) = acc
<1>1. CASE line.is = "fb"
  <2>1. ReadLine(acc, line) = [inBlock |-> TRUE, sum |-> acc.sum] BY <1>1, Zenon DEF ReadLine
  <2>2. line.is # "total" BY <1>1
  <2>3. QED BY <1>1, <2>1, <2>2
<1>2. CASE line.is = "total" /\ acc.inBlock /\ line.mib # NotAvailable
  <2>1. line.is # "fb" BY <1>2
  <2>2. ReadLine(acc, line) = [inBlock |-> FALSE, sum |-> acc.sum + line.mib]
    BY <1>2, <2>1, Zenon DEF ReadLine
  <2>3. QED BY <1>2, <2>1, <2>2
<1>3. CASE line.is # "fb" /\ ~(acc.inBlock /\ line.is = "total" /\ line.mib # NotAvailable)
  BY <1>3, Zenon DEF ReadLine
<1>4. QED BY <1>1, <1>2, <1>3

\* A line adds nothing, or its number.
LEMMA LineAdds ==
  ASSUME NEW acc, NEW line, acc.sum \in Nat, line.mib \in Nat
  PROVE  ReadLine(acc, line).sum \in Nat
<1>1. ReadLine(acc, line).sum \in {acc.sum, acc.sum + line.mib}
  BY LineRead, Zenon
<1>2. QED BY <1>1

\* Whatever the lines say, the sum is a natural number.
LEMMA VramIsNatural ==
  ASSUME NEW lines, Len(lines) \in Nat, \A l \in 1..Len(lines) : lines[l].mib \in Nat
  PROVE  VramTotalMib(lines) \in Nat
<1>1. PICK read : /\ IsReading(read, lines, Len(lines))
                  /\ VramTotalMib(lines) = read[Len(lines)].sum
  BY VramTotalMibIs
<1> DEFINE S == {l \in Nat : l <= Len(lines) => read[l].sum \in Nat}
<1>2. 0 \in S
  <2>1. read[0] = Unread BY <1>1, ReadingStep
  <2>2. read[0].sum \in Nat BY <2>1 DEF Unread
  <2>3. QED BY <2>2
<1>3. ASSUME NEW l \in Nat, l \in S PROVE l + 1 \in S
  <2>1. CASE l + 1 <= Len(lines)
    <3>1. l \in 0..Len(lines) - 1 /\ read[l].sum \in Nat
      BY <1>3, <2>1
    <3>2. read[l + 1] = ReadLine(read[l], lines[l + 1]) BY <1>1, <3>1, ReadingStep
    <3>3. lines[l + 1].mib \in Nat BY <2>1
    <3>4. QED BY <3>1, <3>2, <3>3, LineAdds
  <2>2. CASE ~(l + 1 <= Len(lines))
    BY <2>2
  <2>3. QED BY <2>1, <2>2
<1>4. QED
  <2> HIDE DEF S
  <2>1. Nat \subseteq S BY <1>2, <1>3, Induct
  <2>2. read[Len(lines)].sum \in Nat BY <2>1 DEF S
  <2>3. QED BY <1>1, <2>2

-----------------------------------------------------------------------------
(***************************************************************************)
(* The report of nvidia-smi -q                                             *)
(***************************************************************************)

\* The r-th of the four lines of the GPU after the first q.
LEMMA ReportLine ==
  ASSUME NEW gpus, Len(gpus) \in Nat, NEW q \in 0..Len(gpus) - 1, NEW r \in 0..3
  PROVE  /\ 4 * q + r + 1 \in 1..4 * Len(gpus)
         /\ Report(gpus)[4 * q + r + 1] = Block(gpus[q + 1])[r + 1]
<1>1. 4 * q + r + 1 \in 1..4 * Len(gpus) OBVIOUS
<1>2. (4 * q + r) \div 4 = q /\ (4 * q + r) % 4 = r OBVIOUS
<1>3. ((4 * q + r + 1) - 1) \div 4 = q /\ ((4 * q + r + 1) - 1) % 4 = r BY <1>2
<1>4. 1 + q = q + 1 /\ 1 + r = r + 1 OBVIOUS
<1>5. QED BY <1>1, <1>3, <1>4 DEF Report

\* The four lines that a GPU has in the report.
LEMMA BlockLines ==
  ASSUME NEW gpu
  PROVE  /\ Block(gpu)[1].is = "fb" /\ Block(gpu)[1].mib = 0
         /\ Block(gpu)[2].is = "total" /\ Block(gpu)[2].mib = gpu.fb
         /\ Block(gpu)[3].is = "bar1" /\ Block(gpu)[3].mib = 0
         /\ Block(gpu)[4].is = "total" /\ Block(gpu)[4].mib = gpu.bar1
BY DEF Block, Header, Total, NotAvailable

\* Each line carries a natural number.
LEMMA ReportNumbers ==
  ASSUME NEW gpus, Len(gpus) \in Nat,
         \A i \in 1..Len(gpus) : gpus[i].fb \in Nat /\ gpus[i].bar1 \in Nat
  PROVE  /\ Len(Report(gpus)) = 4 * Len(gpus)
         /\ \A l \in 1..Len(Report(gpus)) : Report(gpus)[l].mib \in Nat
<1>1. Len(Report(gpus)) = 4 * Len(gpus)
  <2>1. DOMAIN Report(gpus) = 1..4 * Len(gpus) BY DEF Report
  <2>2. 4 * Len(gpus) \in Nat OBVIOUS
  <2>3. QED BY <2>1, <2>2
<1>2. ASSUME NEW l \in 1..4 * Len(gpus) PROVE Report(gpus)[l].mib \in Nat
  <2>1. PICK q \in 0..Len(gpus) - 1, r \in 0..3 : l = 4 * q + r + 1
    <3>1. PICK n \in 0..4 * Len(gpus) - 1 : l = n + 1 OBVIOUS
    <3>2. n \div 4 \in Nat /\ n % 4 \in 0..3 /\ n = 4 * (n \div 4) + (n % 4)
      BY <3>1
    <3>3. n \div 4 \in 0..Len(gpus) - 1 BY <3>1, <3>2
    <3>4. QED BY <3>1, <3>2, <3>3
  <2>2. Report(gpus)[l] = Block(gpus[q + 1])[r + 1] BY <2>1, ReportLine
  <2>3. gpus[q + 1].fb \in Nat /\ gpus[q + 1].bar1 \in Nat
    <3>1. q + 1 \in 1..Len(gpus) OBVIOUS
    <3>2. QED BY <3>1
  <2>4. r \in {0, 1, 2, 3} OBVIOUS
  <2>5. \A k \in {1, 2, 3, 4} : Block(gpus[q + 1])[k].mib \in Nat
    BY <2>3, BlockLines, SMTT(30)
  <2>6. r + 1 \in {1, 2, 3, 4} BY <2>4
  <2>7. QED BY <2>2, <2>5, <2>6
<1>3. QED BY <1>1, <1>2

\* What is known after r lines of the block of the GPU after the first q, when
\* each GPU reports a number: whether a block is open, and the sum.
KnownAfter(read, sum, q, r) ==
  /\ read[4 * q + r].inBlock <=> r = 1
  /\ read[4 * q + r].sum = IF r <= 1 THEN sum[q] ELSE sum[q + 1]

\* One more line.
LEMMA KnownNext ==
  ASSUME NEW gpus, Len(gpus) \in Nat, \A i \in 1..Len(gpus) : gpus[i].fb # NotAvailable,
         NEW sum, IsSumOfFb(sum, gpus, Len(gpus)),
         NEW q \in 0..Len(gpus) - 1, NEW r \in 0..3, NEW read, NEW line,
         line = Block(gpus[q + 1])[r + 1],
         KnownAfter(read, sum, q, r),
         read[4 * q + r + 1] = ReadLine(read[4 * q + r], line)
  PROVE  IF r = 3 THEN KnownAfter(read, sum, q + 1, 0) ELSE KnownAfter(read, sum, q, r + 1)
<1>1. gpus[q + 1].fb # NotAvailable
  <2>1. q + 1 \in 1..Len(gpus) OBVIOUS
  <2>2. QED BY <2>1
<1>2. sum[q + 1] = sum[q] + gpus[q + 1].fb
  BY SumsStep
<1> DEFINE acc == read[4 * q + r]
           next == read[4 * q + (r + 1)]
<1>3. next = ReadLine(acc, line) /\ (acc.inBlock <=> r = 1)
      /\ acc.sum = IF r <= 1 THEN sum[q] ELSE sum[q + 1]
  <2>1. 4 * q + r + 1 = 4 * q + (r + 1) OBVIOUS
  <2>2. QED BY <2>1 DEF KnownAfter
<1>4. r = 3 => next = read[4 * (q + 1) + 0]
  <2>1. 4 * q + (3 + 1) = 4 * (q + 1) + 0 OBVIOUS
  <2>2. QED BY <2>1
<1> SUFFICES /\ next.inBlock <=> r = 0
             /\ next.sum = IF r = 0 THEN sum[q] ELSE sum[q + 1]
  <2>1. r # 3 => ((r + 1 = 1 <=> r = 0) /\ (r + 1 <= 1 <=> r = 0)) OBVIOUS
  <2>2. CASE r = 3
    <3>1. read[4 * (q + 1) + 0] = next BY <1>4, <2>2
    <3>2. ~read[4 * (q + 1) + 0].inBlock /\ read[4 * (q + 1) + 0].sum = sum[q + 1]
      BY <2>2, <3>1
    <3>3. QED BY <2>2, <3>2 DEF KnownAfter
  <2>3. CASE r # 3
    BY <2>1, <2>3 DEF KnownAfter
  <2>4. QED BY <2>2, <2>3
<1> HIDE DEF acc, next
<1>5. CASE r = 0
  <2>1. line.is = "fb" BY <1>5, BlockLines
  <2>2. next.inBlock /\ next.sum = acc.sum BY <1>3, <2>1, LineRead
  <2>3. QED BY <1>3, <1>5, <2>2
<1>6. CASE r = 1
  <2>1. line.is = "total" /\ line.mib = gpus[q + 1].fb BY <1>6, BlockLines
  <2>2. acc.inBlock BY <1>3, <1>6
  <2>3. ~next.inBlock /\ next.sum = acc.sum + line.mib
    BY <1>1, <1>3, <2>1, <2>2, LineRead
  <2>4. QED BY <1>2, <1>3, <1>6, <2>1, <2>3
<1>7. CASE r = 2
  <2>1. line.is = "bar1" BY <1>7, BlockLines
  <2>2. next = acc BY <1>3, <2>1, LineRead
  <2>3. QED BY <1>3, <1>7, <2>2
<1>8. CASE r = 3
  <2>1. line.is = "total" BY <1>8, BlockLines
  <2>2. ~acc.inBlock BY <1>3, <1>8
  <2>3. next = acc BY <1>3, <2>1, <2>2, LineRead
  <2>4. QED BY <1>3, <1>8, <2>3
<1>9. QED BY <1>5, <1>6, <1>7, <1>8

\* A report that stops after n lines, and what is known after each of them.
LEMMA ReportRead ==
  ASSUME NEW gpus, Len(gpus) \in Nat, \A i \in 1..Len(gpus) : gpus[i].fb # NotAvailable,
         NEW sum, IsSumOfFb(sum, gpus, Len(gpus)),
         NEW n \in 0..4 * Len(gpus),
         NEW lines, \A l \in 1..n : lines[l] = Report(gpus)[l],
         NEW read, IsReading(read, lines, n)
  PROVE  \A q \in Nat, r \in 0..3 : 4 * q + r <= n => KnownAfter(read, sum, q, r)
<1> DEFINE S == {l \in Nat : l <= n =>
                   \A q \in Nat, r \in 0..3 : l = 4 * q + r => KnownAfter(read, sum, q, r)}
<1>1. 0 \in S
  <2>1. read[0] = Unread /\ sum[0] = 0 BY ReadingStep, SumsStep
  <2>2. ~read[0].inBlock /\ read[0].sum = sum[0] BY <2>1 DEF Unread
  <2>3. KnownAfter(read, sum, 0, 0)
    <3>1. 4 * 0 + 0 = 0 OBVIOUS
    <3>2. QED BY <2>2, <3>1 DEF KnownAfter
  <2>4. \A q \in Nat, r \in 0..3 : 0 = 4 * q + r => q = 0 /\ r = 0 OBVIOUS
  <2>5. QED BY <2>3, <2>4
<1>2. ASSUME NEW l \in Nat, l \in S PROVE l + 1 \in S
  <2> SUFFICES ASSUME l + 1 <= n, NEW k \in Nat, NEW t \in 0..3, l + 1 = 4 * k + t
               PROVE  KnownAfter(read, sum, k, t)
    OBVIOUS
  <2>1. PICK q \in Nat, r \in 0..3 : l = 4 * q + r
    <3>1. CASE t = 0
      <4>1. k - 1 \in Nat /\ 3 \in 0..3 /\ l = 4 * (k - 1) + 3 BY <3>1
      <4>2. QED BY <4>1
    <3>2. CASE t # 0
      <4>1. t - 1 \in 0..3 /\ l = 4 * k + (t - 1) BY <3>2
      <4>2. QED BY <4>1
    <3>3. QED BY <3>1, <3>2
  <2>2. q \in 0..Len(gpus) - 1 /\ l \in 0..n - 1 /\ 4 * q + r + 1 \in 1..n BY <2>1
  <2>3. KnownAfter(read, sum, q, r)
    <3>1. l <= n BY <2>2
    <3>2. QED BY <1>2, <2>1, <3>1
  <2>4. lines[4 * q + r + 1] = Block(gpus[q + 1])[r + 1] BY <2>2, ReportLine
  <2>5. read[4 * q + r + 1] = ReadLine(read[4 * q + r], lines[4 * q + r + 1])
    BY <2>1, <2>2, ReadingStep
  <2>6. IF r = 3 THEN KnownAfter(read, sum, q + 1, 0) ELSE KnownAfter(read, sum, q, r + 1)
    BY <2>2, <2>3, <2>4, <2>5, KnownNext
  <2>7. IF r = 3 THEN k = q + 1 /\ t = 0 ELSE k = q /\ t = r + 1
    BY <2>1
  <2>8. QED BY <2>6, <2>7
<1>3. QED
  <2> HIDE DEF S
  <2>1. Nat \subseteq S BY <1>1, <1>2, Induct
  <2>2. ASSUME NEW q \in Nat, NEW r \in 0..3, 4 * q + r <= n
        PROVE  KnownAfter(read, sum, q, r)
    <3>1. 4 * q + r \in S BY <2>1
    <3>2. QED BY <2>2, <3>1 DEF S
  <2>3. QED BY <2>2

\* The video memory that is read off a report is the sum over the host's GPUs,
\* however many they are, as long as each reports a number; off a report that
\* stops anywhere it is at most the sum.
THEOREM VramOfReport ==
  ASSUME NEW gpus, Len(gpus) \in Nat,
         \A i \in 1..Len(gpus) : gpus[i].fb \in Nat \ {NotAvailable},
         NEW n \in 0..4 * Len(gpus),
         NEW lines, Len(lines) = n, \A l \in 1..n : lines[l] = Report(gpus)[l]
  PROVE  /\ VramTotalMib(lines) <= SumOfFb(gpus)
         /\ n = 4 * Len(gpus) => VramTotalMib(lines) = SumOfFb(gpus)
<1>1. PICK sum : IsSumOfFb(sum, gpus, Len(gpus)) /\ SumOfFb(gpus) = sum[Len(gpus)]
  BY SumOfFbIs
<1>2. PICK read : IsReading(read, lines, n) /\ VramTotalMib(lines) = read[n].sum
  <2>1. Len(lines) \in Nat OBVIOUS
  <2>2. QED BY <2>1, VramTotalMibIs
<1>3. PICK q \in Nat, r \in 0..3 : n = 4 * q + r
  <2>1. n \div 4 \in Nat /\ n % 4 \in 0..3 /\ n = 4 * (n \div 4) + (n % 4) OBVIOUS
  <2>2. QED BY <2>1
<1>4. KnownAfter(read, sum, q, r)
  <2>1. 4 * q + r <= n BY <1>3
  <2>2. \A i \in 1..Len(gpus) : gpus[i].fb # NotAvailable OBVIOUS
  <2>3. QED BY <1>1, <1>2, <2>1, <2>2, ReportRead
<1>5. VramTotalMib(lines) = IF r <= 1 THEN sum[q] ELSE sum[q + 1]
  BY <1>2, <1>3, <1>4 DEF KnownAfter
<1>6. q \in 0..Len(gpus) /\ (r # 0 => q + 1 \in 0..Len(gpus))
      /\ (n = 4 * Len(gpus) => q = Len(gpus) /\ r = 0)
  BY <1>3
<1>7. \A m \in 0..Len(gpus) : sum[m] <= sum[Len(gpus)]
  BY <1>1, SumsGrow
<1>8. CASE r <= 1
  BY <1>1, <1>5, <1>6, <1>7, <1>8
<1>9. CASE r > 1
  <2>1. r # 0 /\ ~(r <= 1) BY <1>9
  <2>2. QED BY <1>1, <1>5, <1>6, <1>7, <2>1
<1>10. QED BY <1>8, <1>9

\* A record that says OK was made of a whole report.
LEMMA OkIsWhole ==
  ASSUME NEW outcome \in Outcomes
  PROVE  outcome.status \in Status /\ (outcome.status = "ok" => outcome.whole)
<1>1. PICK exits \in [Commands -> Exit] :
        /\ outcome.status = OverallStatus([c \in Commands |-> RunCommand(exits[c])])
        /\ outcome.whole <=> exits["nvidia_smi_q"] = "zero"
  <2>1. PICK exits \in [Commands -> Exit] :
          outcome = [status |-> OverallStatus([c \in Commands |-> RunCommand(exits[c])]),
                     whole  |-> exits["nvidia_smi_q"] = "zero"]
    BY DEF Outcomes
  <2>2. QED BY <2>1, Zenon
<1> DEFINE status == [c \in Commands |-> RunCommand(exits[c])]
<1>2. status["nvidia_smi_q"] = RunCommand(exits["nvidia_smi_q"]) /\ "nvidia_smi_q" \in Commands
  BY DEF Commands
<1>3. OverallStatus(status) \in Status
  BY DEF OverallStatus, Status
<1>4. OverallStatus(status) = "ok" =>
        \A s \in {"error", "timeout", "unsupported", "skipped"} :
          s \notin {status[c] : c \in Commands}
  BY DEF OverallStatus
<1>5. RunCommand(exits["nvidia_smi_q"]) \in {"error", "timeout", "unsupported", "skipped"}
      \/ exits["nvidia_smi_q"] = "zero"
  BY DEF RunCommand
<1>6. QED BY <1>1, <1>2, <1>3, <1>4, <1>5

\* What the hardware record says of a host: a number, whatever nvidia-smi had to
\* say; the sum over the GPUs, or less where the report was cut short, as long
\* as each of them reports one.
THEOREM HardwareRecordIs ==
  ASSUME NEW gpus \in Seq([fb : Nat, bar1 : Nat]), NEW record \in HardwareRecords(gpus)
  PROVE  /\ record \in [status : Status, vram : Nat]
         /\ (\A i \in DOMAIN gpus : gpus[i].fb # NotAvailable) =>
              /\ record.vram <= SumOfFb(gpus)
              /\ record.status = "ok" => record.vram = SumOfFb(gpus)
<1>1. /\ Len(gpus) \in Nat /\ DOMAIN gpus = 1..Len(gpus)
      /\ \A i \in 1..Len(gpus) : gpus[i].fb \in Nat /\ gpus[i].bar1 \in Nat
  <2>1. \A i \in 1..Len(gpus) : gpus[i] \in [fb : Nat, bar1 : Nat]
    BY ElementOfSeq
  <2>2. QED BY <2>1
<1>2. /\ Len(Report(gpus)) = 4 * Len(gpus)
      /\ \A l \in 1..4 * Len(gpus) : Report(gpus)[l].mib \in Nat
  BY <1>1, ReportNumbers
<1>3. PICK outcome, n, lines :
        /\ outcome \in Outcomes /\ n \in 0..4 * Len(gpus)
        /\ record = [status |-> outcome.status, vram |-> VramTotalMib(lines)]
        /\ Len(lines) = n /\ \A l \in 1..n : lines[l] = Report(gpus)[l]
        /\ outcome.whole => n = 4 * Len(gpus)
  <2>1. CASE \E outcome \in Outcomes :
               record = [status |-> outcome.status, vram |-> VramTotalMib(Report(gpus))]
    <3>1. 4 * Len(gpus) \in 0..4 * Len(gpus) BY <1>1
    <3>2. QED BY <1>2, <2>1, <3>1
  <2>2. CASE \E outcome \in Outcomes, n \in 0..4 * Len(gpus) :
               /\ ~outcome.whole
               /\ record = [status |-> outcome.status,
                            vram   |-> VramTotalMib(SubSeq(Report(gpus), 1, n))]
    <3>1. PICK outcome \in Outcomes, n \in 0..4 * Len(gpus) :
               /\ ~outcome.whole
               /\ record = [status |-> outcome.status,
                            vram   |-> VramTotalMib(SubSeq(Report(gpus), 1, n))]
      BY <2>2
    <3>2. /\ Len(SubSeq(Report(gpus), 1, n)) = n
          /\ \A l \in 1..n : SubSeq(Report(gpus), 1, n)[l] = Report(gpus)[l]
      <4> DEFINE Lines == {Report(gpus)[l] : l \in 1..n}
      <4>1. \A l \in 1..n : Report(gpus)[l] \in Lines OBVIOUS
      <4> HIDE DEF Lines
      <4>2. /\ Len(SubSeq(Report(gpus), 1, n)) = IF 1 <= n THEN n - 1 + 1 ELSE 0
            /\ \A l \in 1..n - 1 + 1 : SubSeq(Report(gpus), 1, n)[l] = Report(gpus)[1 + l - 1]
        BY <4>1, SubSeqProperties
      <4>3. QED BY <4>2
    <3>3. QED BY <3>1, <3>2
  <2>3. QED
    <3>1. Prefixes(Report(gpus)) = {SubSeq(Report(gpus), 1, n) : n \in 0..4 * Len(gpus)}
      BY <1>2 DEF Prefixes
    <3>2. \/ \E outcome \in Outcomes :
                record = [status |-> outcome.status, vram |-> VramTotalMib(Report(gpus))]
          \/ \E outcome \in Outcomes, n \in 0..4 * Len(gpus) :
                /\ ~outcome.whole
                /\ record = [status |-> outcome.status,
                             vram   |-> VramTotalMib(SubSeq(Report(gpus), 1, n))]
      <4>1. CASE \E outcome \in {o \in Outcomes : o.whole}, lines \in {Report(gpus)} :
                   record = [status |-> outcome.status, vram |-> VramTotalMib(lines)]
        BY <4>1, Zenon
      <4>2. CASE \E outcome \in {o \in Outcomes : ~o.whole}, lines \in Prefixes(Report(gpus)) :
                   record = [status |-> outcome.status, vram |-> VramTotalMib(lines)]
        <5>1. PICK outcome \in {o \in Outcomes : ~o.whole}, lines \in Prefixes(Report(gpus)) :
                   record = [status |-> outcome.status, vram |-> VramTotalMib(lines)]
          BY <4>2, Zenon
        <5>2. PICK n \in 0..4 * Len(gpus) : lines = SubSeq(Report(gpus), 1, n)
          BY <3>1, Zenon
        <5>3. QED BY <5>1, <5>2, Zenon
      <4>3. QED
        <5> DEFINE Of(outcomes, reports) ==
                     {[status |-> outcome.status, vram |-> VramTotalMib(lines)] :
                        outcome \in outcomes, lines \in reports}
                   whole == {o \in Outcomes : o.whole}
                   cut   == {o \in Outcomes : ~o.whole}
        <5>1. record \in Of(whole, {Report(gpus)}) \cup Of(cut, Prefixes(Report(gpus)))
          BY DEF HardwareRecords
        <5>2. \A outcomes, reports : record \in Of(outcomes, reports) =>
                \E outcome \in outcomes, lines \in reports :
                  record = [status |-> outcome.status, vram |-> VramTotalMib(lines)]
          OBVIOUS
        <5> HIDE DEF Of
        <5>3. QED BY <4>1, <4>2, <5>1, <5>2
    <3>3. QED BY <2>1, <2>2, <3>2
<1>4. record \in [status : Status, vram : Nat]
  <2>1. VramTotalMib(lines) \in Nat
    <3>1. Len(lines) \in Nat /\ \A l \in 1..Len(lines) : lines[l].mib \in Nat BY <1>2, <1>3
    <3>2. QED BY <3>1, VramIsNatural
  <2>2. QED BY <1>3, <2>1, OkIsWhole
<1>5. ASSUME \A i \in DOMAIN gpus : gpus[i].fb # NotAvailable
      PROVE  /\ record.vram <= SumOfFb(gpus)
             /\ record.status = "ok" => record.vram = SumOfFb(gpus)
  <2>1. \A i \in 1..Len(gpus) : gpus[i].fb \in Nat \ {NotAvailable} BY <1>1, <1>5
  <2>2. /\ VramTotalMib(lines) <= SumOfFb(gpus)
        /\ n = 4 * Len(gpus) => VramTotalMib(lines) = SumOfFb(gpus)
    BY <1>1, <1>3, <2>1, VramOfReport
  <2>3. QED BY <1>3, <2>2, OkIsWhole
<1>6. QED BY <1>4, <1>5

-----------------------------------------------------------------------------
(***************************************************************************)
(* What there is at a path of keys                                         *)
(***************************************************************************)
IsWalk(item, tree, path, n) ==
  item = [i \in 0..n |-> IF i = 0 THEN tree ELSE Item(item[i - 1], path[i])]

\* What there is at each prefix of a path is there.
LEMMA WalkExists ==
  ASSUME NEW tree, NEW path, NEW n \in Nat
  PROVE  \E item : IsWalk(item, tree, path, n)
<1> DEFINE S == {m \in Nat : \E item : IsWalk(item, tree, path, m)}
<1>1. 0 \in S
  <2> DEFINE item == [i \in 0..0 |-> tree]
  <2>1. IsWalk(item, tree, path, 0) BY DEF IsWalk
  <2>2. QED BY <2>1
<1>2. ASSUME NEW m \in Nat, m \in S PROVE m + 1 \in S
  <2>1. PICK item : IsWalk(item, tree, path, m) BY <1>2
  <2> DEFINE next == [i \in 0..m + 1 |-> IF i = m + 1 THEN Item(item[m], path[m + 1])
                                                       ELSE item[i]]
  <2>2. \A i \in 0..m : item[i] = IF i = 0 THEN tree ELSE Item(item[i - 1], path[i])
    BY <2>1 DEF IsWalk
  <2>3. next[0] = tree BY <2>2
  <2>4. \A i \in 1..m : next[i] = Item(next[i - 1], path[i]) BY <2>2
  <2>5. next[m + 1] = Item(next[m], path[m + 1]) OBVIOUS
  <2>6. next = [i \in 0..m + 1 |-> next[i]] OBVIOUS
  <2> HIDE DEF next
  <2>7. \A i \in 0..m + 1 : next[i] = IF i = 0 THEN tree ELSE Item(next[i - 1], path[i])
    BY <2>3, <2>4, <2>5
  <2>8. IsWalk(next, tree, path, m + 1) BY <2>6, <2>7 DEF IsWalk
  <2>9. QED BY <2>8
<1>3. QED
  <2> HIDE DEF S
  <2>1. Nat \subseteq S BY <1>1, <1>2, Induct
  <2>2. QED BY <2>1 DEF S

\* At is the end of the walk.
LEMMA AtIs ==
  ASSUME NEW tree, NEW path, Len(path) \in Nat
  PROVE  \E item : IsWalk(item, tree, path, Len(path)) /\ At(tree, path) = item[Len(path)]
<1> DEFINE item == CHOOSE f : IsWalk(f, tree, path, Len(path))
<1>1. IsWalk(item, tree, path, Len(path)) BY WalkExists
<1>2. At(tree, path) = item[Len(path)] BY DEF At, IsWalk
<1> HIDE DEF item
<1>3. QED BY <1>1, <1>2

\* The walk, key by key.
LEMMA WalkStep ==
  ASSUME NEW tree, NEW path, NEW n \in Nat, NEW item, IsWalk(item, tree, path, n)
  PROVE  item[0] = tree /\ \A i \in 0..n - 1 : item[i + 1] = Item(item[i], path[i + 1])
<1>1. \A i \in 0..n : item[i] = IF i = 0 THEN tree ELSE Item(item[i - 1], path[i])
  BY DEF IsWalk
<1>2. item[0] = tree
  <2>1. 0 \in 0..n OBVIOUS
  <2>2. QED BY <1>1, <2>1
<1>3. ASSUME NEW i \in 0..n - 1 PROVE item[i + 1] = Item(item[i], path[i + 1])
  <2>1. i + 1 \in 0..n /\ i + 1 # 0 /\ (i + 1) - 1 = i OBVIOUS
  <2>2. item[i + 1] = Item(item[(i + 1) - 1], path[i + 1]) BY <1>1, <2>1
  <2>3. QED BY <2>1, <2>2
<1>4. QED BY <1>2, <1>3

\* Two walks agree as far as their paths do.
LEMMA SameWalk ==
  ASSUME NEW tree, NEW one, NEW other, NEW n \in Nat, \A i \in 1..n : one[i] = other[i],
         NEW k \in Nat, n <= k, NEW m \in Nat, n <= m,
         NEW item, IsWalk(item, tree, one, k), NEW item2, IsWalk(item2, tree, other, m)
  PROVE  item[n] = item2[n]
<1> DEFINE S == {i \in Nat : i <= n => item[i] = item2[i]}
<1>1. 0 \in S
  <2>1. item[0] = tree BY ONLY IsWalk(item, tree, one, k), k \in Nat, WalkStep, Zenon
  <2>2. item2[0] = tree BY ONLY IsWalk(item2, tree, other, m), m \in Nat, WalkStep, Zenon
  <2>3. QED BY <2>1, <2>2
<1>2. ASSUME NEW i \in Nat, i \in S PROVE i + 1 \in S
  <2>1. CASE i + 1 <= n
    <3>1. item[i] = item2[i] BY <1>2, <2>1
    <3>2. i \in 0..k - 1 /\ i \in 0..m - 1 /\ i + 1 \in 1..n BY <2>1
    <3>3. item[i + 1] = Item(item[i], one[i + 1]) BY <3>2, WalkStep
    <3>4. item2[i + 1] = Item(item2[i], other[i + 1]) BY <3>2, WalkStep
    <3>5. one[i + 1] = other[i + 1] BY <3>2
    <3>6. QED BY <3>1, <3>3, <3>4, <3>5
  <2>2. CASE ~(i + 1 <= n)
    BY <2>2
  <2>3. QED BY <2>1, <2>2
<1>3. QED
  <2> HIDE DEF S
  <2>1. Nat \subseteq S BY <1>1, <1>2, Induct
  <2>2. QED BY <2>1 DEF S

\* At the empty path there is the tree itself.
LEMMA AtRoot ==
  ASSUME NEW tree, NEW path, Len(path) = 0
  PROVE  At(tree, path) = tree
<1>1. PICK item : IsWalk(item, tree, path, 0) /\ At(tree, path) = item[0]
  BY AtIs
<1>2. QED BY <1>1, WalkStep

\* What is at a path that is one key longer is that key's item.
LEMMA AtLonger ==
  ASSUME NEW tree, NEW n \in Nat, NEW m \in Nat, m = n + 1,
         NEW short, Len(short) = n, NEW path, Len(path) = m,
         \A i \in 1..n : path[i] = short[i]
  PROVE  At(tree, path) = Item(At(tree, short), path[m])
<1>1. PICK item : IsWalk(item, tree, path, m) /\ At(tree, path) = item[m]
  BY AtIs
<1>2. PICK item2 : IsWalk(item2, tree, short, n) /\ At(tree, short) = item2[n]
  BY AtIs
<1>3. item[m] = Item(item[n], path[m])
  <2>1. \A i \in 0..m - 1 : item[i + 1] = Item(item[i], path[i + 1])
    BY ONLY <1>1, m \in Nat, WalkStep
  <2>2. n \in 0..m - 1 OBVIOUS
  <2>3. QED BY <2>1, <2>2
<1>4. item[n] = item2[n]
  <2>1. n <= m /\ n <= n OBVIOUS
  <2>2. QED
    BY ONLY <1>1, <1>2, <2>1, n \in Nat, m \in Nat, \A i \in 1..n : path[i] = short[i],
       SameWalk, SMTT(30)
<1>5. QED BY <1>1, <1>2, <1>3, <1>4

\* The first three keys.
LEMMA AtFirst ==
  ASSUME NEW n \in 1..3, NEW tree, NEW path, Len(path) = n
  PROVE  /\ n = 1 => At(tree, path) = Item(tree, path[1])
         /\ n = 2 => At(tree, path) = Item(Item(tree, path[1]), path[2])
         /\ n = 3 => At(tree, path) = Item(Item(Item(tree, path[1]), path[2]), path[3])
<1>0. n \in Nat OBVIOUS
<1>1. PICK item : IsWalk(item, tree, path, n) /\ At(tree, path) = item[n]
  BY <1>0, AtIs
<1>2. item[0] = tree /\ \A i \in 0..n - 1 : item[i + 1] = Item(item[i], path[i + 1])
  BY ONLY <1>0, <1>1, WalkStep
<1>3. \A i \in 0..n - 1 : /\ i = 0 => item[1] = Item(item[0], path[1])
                          /\ i = 1 => item[2] = Item(item[1], path[2])
                          /\ i = 2 => item[3] = Item(item[2], path[3])
  BY <1>2
<1>4. CASE n = 1
  <2>1. 0 \in 0..n - 1 BY <1>4
  <2>2. QED BY <1>1, <1>2, <1>3, <1>4, <2>1
<1>5. CASE n = 2
  <2>1. 0 \in 0..n - 1 /\ 1 \in 0..n - 1 BY <1>5
  <2>2. QED BY <1>1, <1>2, <1>3, <1>5, <2>1
<1>6. CASE n = 3
  <2>1. 0 \in 0..n - 1 /\ 1 \in 0..n - 1 /\ 2 \in 0..n - 1 BY <1>6
  <2>2. QED BY <1>1, <1>2, <1>3, <1>6, <2>1
<1>7. QED BY <1>4, <1>5, <1>6

\* The same for a path by whatever name: one key.
LEMMA AtOne ==
  ASSUME NEW tree, NEW a, NEW path, path = <<a>>
  PROVE  At(tree, path) = Item(tree, a)
<1>1. Len(path) = 1 /\ path[1] = a /\ 1 \in 1..3 OBVIOUS
<1>2. QED BY ONLY <1>1, AtFirst

\* Two keys.
LEMMA AtTwo ==
  ASSUME NEW tree, NEW a, NEW b, NEW path, path = <<a, b>>
  PROVE  At(tree, path) = Item(Item(tree, a), b)
<1>1. Len(path) = 2 /\ path[1] = a /\ path[2] = b /\ 2 \in 1..3 OBVIOUS
<1>2. QED BY ONLY <1>1, AtFirst

\* Three keys.
LEMMA AtThree ==
  ASSUME NEW tree, NEW a, NEW b, NEW c, NEW path, path = <<a, b, c>>
  PROVE  At(tree, path) = Item(Item(Item(tree, a), b), c)
<1>1. Len(path) = 3 /\ path[1] = a /\ path[2] = b /\ path[3] = c /\ 3 \in 1..3 OBVIOUS
<1>2. QED BY ONLY <1>1, AtFirst

-----------------------------------------------------------------------------
(***************************************************************************)
(* The defaults                                                            *)
(***************************************************************************)

DefaultServers == {Mapping([model |-> Null, port |-> Value("p")]),
                   Mapping([model_file |-> Null, port |-> Value("p")])}

DefaultRuntimes == {Mapping([docker_server |-> server]) : server \in DefaultServers}

\* What the defaults may have at a path, by its length.
DefaultLevel(n) ==
  IF n = 0 THEN {DefaultRuntimeOptions}
  ELSE {Absent} \cup IF n = 1 THEN DefaultRuntimes
                     ELSE IF n = 2 THEN DefaultServers ELSE {Null, Value("p")}

\* A key leads to the next level, from a mapping.
LEMMA DefaultItem ==
  ASSUME NEW n \in Nat, NEW tree \in DefaultLevel(n), NEW key
  PROVE  /\ Item(tree, key) \in DefaultLevel(n + 1)
         /\ tree.is = "mapping" => n <= 2 /\ DOMAIN tree.at \subseteq OptionNames
<1>1. n + 1 # 0 /\ (n + 1 = 1 <=> n = 0) /\ (n + 1 = 2 <=> n = 1)
  OBVIOUS
<1>2. CASE n = 0
  <2>1. tree = DefaultRuntimeOptions BY <1>2 DEF DefaultLevel
  <2>2. tree.is = "mapping" /\ DOMAIN tree.at = {"vllm", "llama_cpp"}
    BY <2>1 DEF DefaultRuntimeOptions, Mapping
  <2>3. tree.at["vllm"] \in DefaultRuntimes /\ tree.at["llama_cpp"] \in DefaultRuntimes
    BY <2>1 DEF DefaultRuntimeOptions, Mapping, DefaultRuntimes, DefaultServers
  <2>4. Item(tree, key) \in {Absent} \cup DefaultRuntimes BY <2>2, <2>3 DEF Item
  <2>5. DefaultLevel(n + 1) = {Absent} \cup DefaultRuntimes BY <1>1, <1>2 DEF DefaultLevel
  <2>6. DOMAIN tree.at \subseteq OptionNames BY <2>2 DEF OptionNames
  <2>7. QED BY <1>2, <2>4, <2>5, <2>6
<1>3. CASE n = 1
  <2>1. tree = Absent \/ tree \in DefaultRuntimes BY <1>3 DEF DefaultLevel
  <2>2. CASE tree = Absent
    <3>1. tree.is # "mapping" BY <2>2 DEF Absent
    <3>2. Item(tree, key) = Absent BY <3>1 DEF Item
    <3>3. QED BY <1>1, <1>3, <3>1, <3>2 DEF DefaultLevel
  <2>3. CASE tree \in DefaultRuntimes
    <3>1. PICK server \in DefaultServers : tree = Mapping([docker_server |-> server])
      BY <2>3 DEF DefaultRuntimes
    <3>2. /\ tree.is = "mapping" /\ DOMAIN tree.at = {"docker_server"}
          /\ tree.at["docker_server"] = server
      BY <3>1 DEF Mapping
    <3>3. Item(tree, key) \in {Absent} \cup DefaultServers BY <3>2 DEF Item
    <3>4. DefaultLevel(n + 1) = {Absent} \cup DefaultServers BY <1>1, <1>3 DEF DefaultLevel
    <3>5. DOMAIN tree.at \subseteq OptionNames BY <3>2 DEF OptionNames
    <3>6. QED BY <1>3, <3>3, <3>4, <3>5
  <2>4. QED BY <2>1, <2>2, <2>3
<1>4. CASE n = 2
  <2>1. tree = Absent \/ tree \in DefaultServers BY <1>4 DEF DefaultLevel
  <2>2. CASE tree = Absent
    <3>1. tree.is # "mapping" BY <2>2 DEF Absent
    <3>2. Item(tree, key) = Absent BY <3>1 DEF Item
    <3>3. QED BY <1>1, <1>4, <3>1, <3>2 DEF DefaultLevel
  <2>3. CASE tree \in DefaultServers
    <3>1. /\ tree.is = "mapping"
          /\ \A k \in DOMAIN tree.at : k \in OptionNames /\ tree.at[k] \in {Null, Value("p")}
      <4>1. CASE tree = Mapping([model |-> Null, port |-> Value("p")])
        BY <4>1 DEF Mapping, OptionNames
      <4>2. CASE tree = Mapping([model_file |-> Null, port |-> Value("p")])
        BY <4>2 DEF Mapping, OptionNames
      <4>3. QED BY <2>3, <4>1, <4>2 DEF DefaultServers
    <3>2. Item(tree, key) \in {Absent, Null, Value("p")} BY <3>1 DEF Item
    <3>3. QED BY <1>1, <1>4, <3>1, <3>2 DEF DefaultLevel
  <2>4. QED BY <2>1, <2>2, <2>3
<1>5. CASE n > 2
  <2>1. tree \in {Absent, Null, Value("p")} BY <1>5 DEF DefaultLevel
  <2>2. tree.is # "mapping" BY <2>1 DEF Absent, Null, Value
  <2>3. Item(tree, key) = Absent BY <2>2 DEF Item
  <2>4. QED BY <1>1, <1>5, <2>2, <2>3 DEF DefaultLevel
<1>6. QED BY <1>2, <1>3, <1>4, <1>5

\* The defaults are three levels deep: merging goes no further down.
LEMMA DefaultAt ==
  ASSUME NEW path \in Seq(OptionNames)
  PROVE  At(DefaultRuntimeOptions, path) \in DefaultLevel(Len(path))
<1> DEFINE S == {n \in Nat : \A p \in Seq(OptionNames) :
                   Len(p) = n => At(DefaultRuntimeOptions, p) \in DefaultLevel(n)}
<1>1. 0 \in S
  BY AtRoot DEF DefaultLevel
<1>2. ASSUME NEW n \in Nat, n \in S PROVE n + 1 \in S
  <2> SUFFICES ASSUME NEW p \in Seq(OptionNames), Len(p) = n + 1
               PROVE  At(DefaultRuntimeOptions, p) \in DefaultLevel(n + 1)
    OBVIOUS
  <2> DEFINE short == SubSeq(p, 1, n)
  <2>1. \A i \in 1..n : p[i] \in OptionNames
    <3>1. \A i \in 1..n : i \in 1..Len(p) OBVIOUS
    <3>2. QED BY <3>1, ElementOfSeq
  <2>2. /\ short \in Seq(OptionNames)
        /\ Len(short) = IF 1 <= n THEN n - 1 + 1 ELSE 0
        /\ \A i \in 1..n - 1 + 1 : short[i] = p[1 + i - 1]
    BY <2>1, SubSeqProperties
  <2>3. Len(short) = n /\ \A i \in 1..n : p[i] = short[i] BY <2>2
  <2> HIDE DEF short
  <2>4. At(DefaultRuntimeOptions, short) \in DefaultLevel(n) BY <1>2, <2>2, <2>3
  <2>5. PICK m \in Nat : m = n + 1 OBVIOUS
  <2>6. Len(p) = m BY <2>5
  <2>7. At(DefaultRuntimeOptions, p) = Item(At(DefaultRuntimeOptions, short), p[m])
    BY <2>3, <2>5, <2>6, AtLonger
  <2>8. QED BY <2>4, <2>5, <2>7, DefaultItem
<1>3. QED
  <2> HIDE DEF S
  <2>1. Nat \subseteq S BY <1>1, <1>2, Induct
  <2>2. Len(path) \in S BY <2>1
  <2>3. QED BY <2>2 DEF S

-----------------------------------------------------------------------------
(***************************************************************************)
(* The merge                                                               *)
(***************************************************************************)

\* What the merge makes under each key of a path.
Below(merged, path) == [key \in OptionNames |-> merged[Append(path, key)]]

\* What it makes at each path, out of what it makes one key further down.
OneMore(overrides, merged) ==
  [path \in Seq(OptionNames) |->
     MergeItem(At(DefaultRuntimeOptions, path), At(overrides, path), Below(merged, path))]

IsMerge(merged, overrides) == merged = OneMore(overrides, merged)

\* Its three cases.
LEMMA NotMerged ==
  ASSUME NEW default, NEW override, NEW below,
         override = Absent \/ override.is # "mapping" \/ default.is # "mapping"
  PROVE  /\ override = Absent => MergeItem(default, override, below) = default
         /\ override # Absent => MergeItem(default, override, below) = override
<1>1. Absent.is # "mapping"
  BY DEF Absent
<1>2. override = Absent => MergeItem(default, override, below) = default
  BY <1>1, Zenon DEF MergeItem
<1>3. override # Absent => MergeItem(default, override, below) = override
  BY <1>1, Zenon DEF MergeItem
<1>4. QED BY <1>2, <1>3

\* Where both have a mapping the merge is a mapping of the keys of both: what is
\* merged under the default's keys, and what the file has under the others.
LEMMA Merged ==
  ASSUME NEW default, NEW override, NEW below,
         override.is = "mapping", default.is = "mapping"
  PROVE  MergeItem(default, override, below) =
           Mapping([key \in DOMAIN default.at \cup DOMAIN override.at |->
                      IF key \in DOMAIN default.at THEN below[key] ELSE override.at[key]])
<1>1. override # Absent
  BY DEF Absent
<1>2. QED BY <1>1, Zenon DEF MergeItem

\* Where the defaults have no mapping nothing is merged, so what the merge makes
\* at a path depends only on what it makes at most three keys down.
LEMMA MergeDepends ==
  ASSUME NEW overrides, NEW one, NEW other, NEW n \in 0..3,
         \A path \in Seq(OptionNames) :
           n < Len(path) /\ Len(path) <= 3 => one[path] = other[path],
         NEW path \in Seq(OptionNames), n <= Len(path)
  PROVE  OneMore(overrides, one)[path] = OneMore(overrides, other)[path]
<1> DEFINE default  == At(DefaultRuntimeOptions, path)
           override == At(overrides, path)
<1>1. SUFFICES MergeItem(default, override, Below(one, path))
                 = MergeItem(default, override, Below(other, path))
  BY DEF OneMore
<1>2. CASE ~(override.is = "mapping" /\ default.is = "mapping")
  <2>1. ASSUME NEW below
        PROVE  MergeItem(default, override, below)
                 = IF override = Absent THEN default ELSE override
    <3> HIDE DEF default, override
    <3>1. QED BY <1>2, NotMerged
  <2>2. QED BY <2>1
<1>3. CASE override.is = "mapping" /\ default.is = "mapping"
  <2>1. Len(path) <= 2
    BY <1>3, DefaultAt, DefaultItem
  <2>2. ASSUME NEW key \in OptionNames
        PROVE  one[Append(path, key)] = other[Append(path, key)]
    <3>1. Append(path, key) \in Seq(OptionNames) /\ Len(Append(path, key)) = Len(path) + 1
      BY AppendProperties
    <3>2. n < Len(path) + 1 /\ Len(path) + 1 <= 3
      BY <2>1, LenProperties
    <3>3. QED BY <3>1, <3>2
  <2>3. Below(one, path) = Below(other, path)
    BY <2>2 DEF Below
  <2>4. QED BY <2>3
<1>4. QED BY <1>2, <1>3

\* The merge is there: four rounds are enough.
LEMMA MergeExists ==
  ASSUME NEW overrides
  PROVE  \E merged : IsMerge(merged, overrides)
<1> DEFINE f1 == OneMore(overrides, <<>>)
           f2 == OneMore(overrides, f1)
           f3 == OneMore(overrides, f2)
           f4 == OneMore(overrides, f3)
           f5 == OneMore(overrides, f4)
<1>1. \A path \in Seq(OptionNames) : 3 <= Len(path) => f1[path] = f2[path]
  BY MergeDepends
<1>2. \A path \in Seq(OptionNames) : 2 <= Len(path) => f2[path] = f3[path]
  BY <1>1, MergeDepends
<1>3. \A path \in Seq(OptionNames) : 1 <= Len(path) => f3[path] = f4[path]
  BY <1>2, MergeDepends
<1>4. \A path \in Seq(OptionNames) : f4[path] = f5[path]
  <2>1. \A path \in Seq(OptionNames) : 0 < Len(path) /\ Len(path) <= 3 => f3[path] = f4[path]
    BY <1>3
  <2>2. \A path \in Seq(OptionNames) : 0 <= Len(path) OBVIOUS
  <2> HIDE DEF f3, f4, f5
  <2>3. \A path \in Seq(OptionNames) :
          OneMore(overrides, f3)[path] = OneMore(overrides, f4)[path]
    BY <2>1, <2>2, MergeDepends
  <2>4. QED BY <2>3 DEF f4, f5
<1>5. f4 = f5
  BY <1>4 DEF OneMore
<1>6. QED BY <1>5 DEF IsMerge

\* DeepMerge is what the merge makes at the root.
LEMMA DeepMergeIs ==
  ASSUME NEW overrides
  PROVE  \E merged : /\ IsMerge(merged, overrides)
                     /\ DeepMerge(DefaultRuntimeOptions, overrides) = merged[<<>>]
<1> DEFINE merged == CHOOSE f : IsMerge(f, overrides)
<1>1. IsMerge(merged, overrides) BY MergeExists
<1>2. DeepMerge(DefaultRuntimeOptions, overrides) = merged[<<>>]
  BY DEF DeepMerge, IsMerge, OneMore, Below
<1> HIDE DEF merged
<1>3. QED BY <1>1, <1>2

\* A mapping and its items.
LEMMA Items ==
  ASSUME NEW at, NEW key
  PROVE  /\ Mapping(at).is = "mapping" /\ Mapping(at).at = at
         /\ key \in DOMAIN at => Item(Mapping(at), key) = at[key]
         /\ Item(Absent, key) = Absent
         /\ \A tree : tree.is # "mapping" => Item(tree, key) = Absent
BY DEF Mapping, Item, Absent

\* The defaults along a path to an option.
DefaultAlong(runtime, section, option, d0, d1, d2) ==
  /\ runtime \in OptionNames /\ section \in OptionNames /\ option \in OptionNames
  /\ DefaultRuntimeOptions = Mapping(d0)
  /\ runtime \in DOMAIN d0 /\ d0[runtime] = Mapping(d1)
  /\ section \in DOMAIN d1 /\ d1[section] = Mapping(d2)
  /\ option \in DOMAIN d2 /\ d2[option].is = "value"

\* Each option has a path of three keys along which the defaults have mappings,
\* and a value at the end.
LEMMA DefaultPath ==
  ASSUME NEW path \in OptionPaths
  PROVE  \E runtime, option, d0, d1, d2 :
           /\ path = <<runtime, "docker_server", option>>
           /\ DefaultAlong(runtime, "docker_server", option, d0, d1, d2)
<1> DEFINE v2 == [model |-> Null, port |-> Value("p")]
           v1 == [docker_server |-> Mapping(v2)]
           l2 == [model_file |-> Null, port |-> Value("p")]
           l1 == [docker_server |-> Mapping(l2)]
           d  == [vllm |-> Mapping(v1), llama_cpp |-> Mapping(l1)]
<1>1. Null.is = "value" /\ Value("p").is = "value"
  BY DEF Null, Value
<1>2. /\ DefaultAlong("vllm", "docker_server", "model", d, v1, v2)
      /\ DefaultAlong("vllm", "docker_server", "port", d, v1, v2)
      /\ DefaultAlong("llama_cpp", "docker_server", "model_file", d, l1, l2)
      /\ DefaultAlong("llama_cpp", "docker_server", "port", d, l1, l2)
  <2> HIDE DEF Null, Value
  <2>1. DefaultRuntimeOptions = Mapping(d) BY DEF DefaultRuntimeOptions
  <2>2. /\ "vllm" \in DOMAIN d /\ d["vllm"] = Mapping(v1)
        /\ "llama_cpp" \in DOMAIN d /\ d["llama_cpp"] = Mapping(l1)
    OBVIOUS
  <2>3. /\ "docker_server" \in DOMAIN v1 /\ v1["docker_server"] = Mapping(v2)
        /\ "docker_server" \in DOMAIN l1 /\ l1["docker_server"] = Mapping(l2)
    OBVIOUS
  <2>4. /\ "model" \in DOMAIN v2 /\ v2["model"].is = "value"
        /\ "port" \in DOMAIN v2 /\ v2["port"].is = "value"
        /\ "model_file" \in DOMAIN l2 /\ l2["model_file"].is = "value"
        /\ "port" \in DOMAIN l2 /\ l2["port"].is = "value"
    BY <1>1
  <2> HIDE DEF d, v1, v2, l1, l2
  <2>5. QED BY <2>1, <2>2, <2>3, <2>4 DEF DefaultAlong, OptionNames
<1>3. path \in {<<"vllm", "docker_server", "model">>, <<"vllm", "docker_server", "port">>,
                <<"llama_cpp", "docker_server", "model_file">>,
                <<"llama_cpp", "docker_server", "port">>}
  BY DEF OptionPaths, ModelPaths, VllmModel, LlamaCppModel
<1> HIDE DEF d, v1, v2, l1, l2
<1>4. QED BY <1>2, <1>3

\* What the merge makes at a section: the default where the file has nothing,
\* what the file has where that is no mapping, else a mapping of both, with what
\* is merged under each of the default's keys.
LEMMA MergedSection ==
  ASSUME NEW overrides, NEW merged, IsMerge(merged, overrides),
         NEW path \in Seq(OptionNames), NEW override, At(overrides, path) = override,
         NEW d, At(DefaultRuntimeOptions, path) = Mapping(d),
         NEW key \in OptionNames, key \in DOMAIN d, NEW longer, Append(path, key) = longer
  PROVE  /\ override = Absent => merged[path] = Mapping(d)
         /\ override.is = "mapping" =>
              \E m : merged[path] = Mapping(m) /\ key \in DOMAIN m /\ m[key] = merged[longer]
         /\ override # Absent /\ override.is # "mapping" => merged[path] = override
<1>1. merged[path] = MergeItem(Mapping(d), override, Below(merged, path))
  BY DEF IsMerge, OneMore
<1>2. Mapping(d).is = "mapping" /\ Mapping(d).at = d
  BY Items
<1>3. override = Absent => merged[path] = Mapping(d)
  BY <1>1, NotMerged
<1>4. override # Absent /\ override.is # "mapping" => merged[path] = override
  BY <1>1, NotMerged
<1>5. ASSUME override.is = "mapping"
      PROVE  \E m : merged[path] = Mapping(m) /\ key \in DOMAIN m /\ m[key] = merged[longer]
  <2> DEFINE m == [k \in DOMAIN d \cup DOMAIN override.at |->
                     IF k \in DOMAIN d THEN Below(merged, path)[k] ELSE override.at[k]]
  <2>1. merged[path] = Mapping(m)
    <3>1. MergeItem(Mapping(d), override, Below(merged, path))
            = Mapping([k \in DOMAIN Mapping(d).at \cup DOMAIN override.at |->
                        IF k \in DOMAIN Mapping(d).at THEN Below(merged, path)[k]
                                                      ELSE override.at[k]])
      BY ONLY <1>2, <1>5, Merged, ZenonT(60)
    <3>2. QED BY <1>1, <1>2, <3>1
  <2>2. key \in DOMAIN m /\ m[key] = Below(merged, path)[key]
    OBVIOUS
  <2>3. Below(merged, path)[key] = merged[longer]
    BY DEF Below
  <2> HIDE DEF m
  <2>4. QED BY <2>1, <2>2, <2>3
<1>6. QED BY <1>3, <1>4, <1>5

\* One key more, up to three.
LEMMA PathsGrow ==
  ASSUME NEW S, NEW a \in S, NEW b \in S, NEW c \in S
  PROVE  /\ Append(<<>>, a) = <<a>>
         /\ Append(<<a>>, b) = <<a, b>>
         /\ Append(<<a, b>>, c) = <<a, b, c>>
<1>1. Append(<<>>, a) = <<a>>
  OBVIOUS
<1>2. Append(<<a>>, b) = <<a, b>>
  <2>1. Append(<<a>>, b) \in Seq(S) /\ <<a, b>> \in Seq(S) OBVIOUS
  <2>2. Len(Append(<<a>>, b)) = 2 /\ \A i \in 1..2 : Append(<<a>>, b)[i] = <<a, b>>[i]
    OBVIOUS
  <2>3. QED BY <2>1, <2>2, SeqEqual
<1>3. Append(<<a, b>>, c) = <<a, b, c>>
  <2>1. Append(<<a, b>>, c) \in Seq(S) /\ <<a, b, c>> \in Seq(S) OBVIOUS
  <2>2. /\ Len(Append(<<a, b>>, c)) = 3
        /\ \A i \in 1..3 : Append(<<a, b>>, c)[i] = <<a, b, c>>[i]
    OBVIOUS
  <2>3. QED BY <2>1, <2>2, SeqEqual
<1>4. QED BY <1>1, <1>2, <1>3

\* What there is in the merged options along the path to an option, before the
\* model is put there: mappings down to the first section that the file has
\* replaced, and then the option.
MergedAlong(options, overrides, runtime, section, option, default) ==
  LET given1 == Item(overrides, runtime)
      given2 == Item(given1, section)
      given3 == Item(given2, option)
      made1  == Item(options, runtime)
      made2  == Item(made1, section)
  IN /\ \E m0 : options = Mapping(m0) /\ runtime \in DOMAIN m0
     /\ made1.is = "mapping" => \E m1 : made1 = Mapping(m1) /\ section \in DOMAIN m1
     /\ made2.is = "mapping" => \E m2 : made2 = Mapping(m2) /\ option \in DOMAIN m2
     /\ Item(made2, option) =
          CASE given3 # Absent                                -> given3
            [] given1.is = "value" \/ given2.is = "value"     -> Absent
            [] OTHER                                          -> default

\* Whatever a file has along the path to an option, the merge is as just said.
LEMMA MergedPath ==
  ASSUME NEW overrides, overrides.is = "mapping",
         NEW runtime, NEW section, NEW option, NEW d0, NEW d1, NEW d2,
         DefaultAlong(runtime, section, option, d0, d1, d2),
         \A given \in {Item(overrides, runtime), Item(Item(overrides, runtime), section)} :
           given = Absent \/ given.is \in {"value", "mapping"}
  PROVE  MergedAlong(DeepMerge(DefaultRuntimeOptions, overrides), overrides,
                     runtime, section, option, d2[option])
<1> DEFINE given1 == Item(overrides, runtime)
           given2 == Item(given1, section)
           given3 == Item(given2, option)
<1> DEFINE p0 == <<>>
           p1 == <<runtime>>
           p2 == <<runtime, section>>
           p3 == <<runtime, section, option>>
<1>1. PICK merged : /\ IsMerge(merged, overrides)
                    /\ DeepMerge(DefaultRuntimeOptions, overrides) = merged[p0]
  BY DeepMergeIs
<1>2. /\ p0 \in Seq(OptionNames) /\ p1 \in Seq(OptionNames) /\ p2 \in Seq(OptionNames)
      /\ p3 \in Seq(OptionNames)
      /\ Append(p0, runtime) = p1 /\ Append(p1, section) = p2 /\ Append(p2, option) = p3
  <2>1. runtime \in OptionNames /\ section \in OptionNames /\ option \in OptionNames
    BY DEF DefaultAlong
  <2>2. /\ p0 \in Seq(OptionNames) /\ p1 \in Seq(OptionNames) /\ p2 \in Seq(OptionNames)
        /\ p3 \in Seq(OptionNames)
    BY ONLY <2>1
  <2>3. QED BY ONLY <2>1, <2>2, PathsGrow
<1>3. /\ At(DefaultRuntimeOptions, p0) = Mapping(d0)
      /\ At(DefaultRuntimeOptions, p1) = Mapping(d1)
      /\ At(DefaultRuntimeOptions, p2) = Mapping(d2)
      /\ At(DefaultRuntimeOptions, p3) = d2[option]
  <2>1. /\ Item(Mapping(d0), runtime) = Mapping(d1)
        /\ Item(Mapping(d1), section) = Mapping(d2)
        /\ Item(Mapping(d2), option) = d2[option]
    BY Items DEF DefaultAlong
  <2>2. DefaultRuntimeOptions = Mapping(d0) BY DEF DefaultAlong
  <2>3. Len(p0) = 0 OBVIOUS
  <2>4. QED BY <2>1, <2>2, <2>3, AtRoot, AtOne, AtTwo, AtThree
<1>4. /\ At(overrides, p0) = overrides /\ At(overrides, p1) = given1
      /\ At(overrides, p2) = given2 /\ At(overrides, p3) = given3
  <2>1. Len(p0) = 0 OBVIOUS
  <2>2. QED BY <2>1, AtRoot, AtOne, AtTwo, AtThree
<1> HIDE DEF p0, p1, p2, p3, given1, given2, given3
<1> USE DEF DefaultAlong
<1>5. PICK m0 : /\ merged[p0] = Mapping(m0)
                /\ runtime \in DOMAIN m0 /\ m0[runtime] = merged[p1]
  <2>1. /\ IsMerge(merged, overrides) /\ p0 \in Seq(OptionNames) /\ At(overrides, p0) = overrides
        /\ At(DefaultRuntimeOptions, p0) = Mapping(d0)
        /\ runtime \in OptionNames /\ runtime \in DOMAIN d0 /\ Append(p0, runtime) = p1
    BY <1>1, <1>2, <1>3, <1>4
  <2>2. overrides.is = "mapping"
    OBVIOUS
  <2>3. QED BY ONLY <2>1, <2>2, MergedSection
<1>6. /\ given1 = Absent => merged[p1] = Mapping(d1)
      /\ given1.is = "mapping" =>
           \E m : merged[p1] = Mapping(m) /\ section \in DOMAIN m /\ m[section] = merged[p2]
      /\ given1 # Absent /\ given1.is # "mapping" => merged[p1] = given1
  <2>1. /\ IsMerge(merged, overrides) /\ p1 \in Seq(OptionNames) /\ At(overrides, p1) = given1
        /\ At(DefaultRuntimeOptions, p1) = Mapping(d1)
        /\ section \in OptionNames /\ section \in DOMAIN d1 /\ Append(p1, section) = p2
    BY <1>1, <1>2, <1>3, <1>4
  <2>2. QED BY ONLY <2>1, MergedSection
<1>7. /\ given2 = Absent => merged[p2] = Mapping(d2)
      /\ given2.is = "mapping" =>
           \E m : merged[p2] = Mapping(m) /\ option \in DOMAIN m /\ m[option] = merged[p3]
      /\ given2 # Absent /\ given2.is # "mapping" => merged[p2] = given2
  <2>1. /\ IsMerge(merged, overrides) /\ p2 \in Seq(OptionNames) /\ At(overrides, p2) = given2
        /\ At(DefaultRuntimeOptions, p2) = Mapping(d2)
        /\ option \in OptionNames /\ option \in DOMAIN d2 /\ Append(p2, option) = p3
    BY <1>1, <1>2, <1>3, <1>4
  <2>2. QED BY ONLY <2>1, MergedSection
<1>8. merged[p3] = IF given3 = Absent THEN d2[option] ELSE given3
  <2>1. merged[p3] = MergeItem(d2[option], given3, Below(merged, p3))
    BY <1>1, <1>2, <1>3, <1>4 DEF IsMerge, OneMore
  <2>2. d2[option].is # "mapping" OBVIOUS
  <2>3. QED BY ONLY <2>1, <2>2, NotMerged
<1>9. Absent.is = "absent"
  BY DEF Absent
<1>10. /\ given1 = Absent \/ given1.is \in {"value", "mapping"}
       /\ given2 = Absent \/ given2.is \in {"value", "mapping"}
       /\ given1.is # "mapping" => given2 = Absent
       /\ given2.is # "mapping" => given3 = Absent
  BY Items DEF given1, given2, given3
<1> DEFINE made1 == Item(merged[p0], runtime)
           made2 == Item(made1, section)
<1>11. made1 = merged[p1]
  BY <1>5, Items
<1> SUFFICES
      /\ made1.is = "mapping" => \E m1 : made1 = Mapping(m1) /\ section \in DOMAIN m1
      /\ made2.is = "mapping" => \E m2 : made2 = Mapping(m2) /\ option \in DOMAIN m2
      /\ Item(made2, option) = CASE given3 # Absent                            -> given3
                                 [] given1.is = "value" \/ given2.is = "value" -> Absent
                                 [] OTHER                                      -> d2[option]
  BY <1>1, <1>5 DEF MergedAlong, given1, given2, given3
<1> HIDE DEF made1
<1>12. CASE given1 = Absent
  <2>1. made1 = Mapping(d1) /\ made2 = Mapping(d2)
    BY <1>6, <1>11, <1>12, Items
  <2>2. given2 = Absent /\ given3 = Absent BY <1>9, <1>10, <1>12
  <2>3. Item(made2, option) = d2[option] BY <2>1, Items
  <2>4. QED BY <1>9, <1>12, <2>1, <2>2, <2>3
<1>13. CASE given1.is = "value"
  <2>1. made1 = given1 BY <1>6, <1>9, <1>11, <1>13
  <2>2. made2 = Absent BY <1>13, <2>1, Items
  <2>3. given3 = Absent BY <1>9, <1>10, <1>13
  <2>4. Item(made2, option) = Absent BY <2>2, Items
  <2>5. QED BY <1>9, <1>13, <2>1, <2>2, <2>3, <2>4
<1>14. CASE given1.is = "mapping"
  <2>1. PICK m1 : /\ made1 = Mapping(m1)
                  /\ section \in DOMAIN m1 /\ m1[section] = merged[p2]
    BY <1>6, <1>11, <1>14
  <2>2. made2 = merged[p2] BY <2>1, Items
  <2> HIDE DEF made2
  <2>3. CASE given2 = Absent
    <3>1. made2 = Mapping(d2) BY <1>7, <2>2, <2>3
    <3>2. given3 = Absent BY <1>9, <1>10, <2>3
    <3>3. Item(made2, option) = d2[option] BY <3>1, Items
    <3>4. QED BY <1>9, <1>14, <2>1, <2>3, <3>1, <3>2, <3>3
  <2>4. CASE given2.is = "value"
    <3>1. made2 = given2 BY <1>7, <1>9, <2>2, <2>4
    <3>2. given3 = Absent BY <1>9, <1>10, <2>4
    <3>3. Item(made2, option) = Absent BY <2>4, <3>1, Items
    <3>4. QED BY <1>14, <2>1, <2>4, <3>1, <3>2, <3>3
  <2>5. CASE given2.is = "mapping"
    <3>1. PICK m2 : /\ made2 = Mapping(m2)
                    /\ option \in DOMAIN m2 /\ m2[option] = merged[p3]
      BY <1>7, <2>2, <2>5
    <3>2. Item(made2, option) = IF given3 = Absent THEN d2[option] ELSE given3
      BY <1>8, <3>1, Items
    <3>3. QED BY <1>14, <2>1, <2>5, <3>1, <3>2
  <2>6. QED BY <1>10, <2>3, <2>4, <2>5
<1>15. QED BY <1>10, <1>12, <1>13, <1>14

-----------------------------------------------------------------------------
(***************************************************************************)
(* The model among the options                                             *)
(***************************************************************************)

\* A mapping with a mapping in it with a mapping in it, and what becomes of it
\* when the model is put into the innermost: nothing else changes.
Nested(f0, f1, f2, a, b) ==
  a \in DOMAIN f0 /\ f0[a] = Mapping(f1) /\ b \in DOMAIN f1 /\ f1[b] = Mapping(f2)

HasModel(made, f0, f2, a, b, c, model) ==
  \E g0, g1, g2 :
    /\ made = Mapping(g0) /\ Nested(g0, g1, g2, a, b)
    /\ DOMAIN g0 = DOMAIN f0 /\ \A k \in DOMAIN f0 : k # a => g0[k] = f0[k]
    /\ DOMAIN g2 = DOMAIN f2 \cup {c} /\ g2[c] = model
    /\ \A k \in DOMAIN f2 : k # c => g2[k] = f2[k]

\* Putting the model at a path through nested mappings makes just that change.
LEMMA Put ==
  ASSUME NEW f0, NEW f1, NEW f2, NEW a, NEW b, NEW c, NEW path, path = <<a, b, c>>, NEW model,
         Nested(f0, f1, f2, a, b)
  PROVE  HasModel(PutAt(Mapping(f0), path, model), f0, f2, a, b, c, model)
<1> USE DEF Nested
<1> DEFINE g2 == [key \in DOMAIN f2 \cup {c} |-> IF key = c THEN model ELSE f2[key]]
           g1 == [f1 EXCEPT ![b] = Mapping(g2)]
           g0 == [f0 EXCEPT ![a] = Mapping(g1)]
<1>1. /\ DOMAIN g2 = DOMAIN f2 \cup {c} /\ g2[c] = model
      /\ \A k \in DOMAIN f2 : k # c => g2[k] = f2[k]
  OBVIOUS
<1>2. PutAt(Mapping(f0), path, model) = Mapping(g0)
  BY DEF PutAt, Mapping
<1>3. /\ DOMAIN g0 = DOMAIN f0 /\ \A k \in DOMAIN f0 : k # a => g0[k] = f0[k]
      /\ g0[a] = Mapping(g1)
  OBVIOUS
<1>4. b \in DOMAIN g1 /\ g1[b] = Mapping(g2)
  OBVIOUS
<1> HIDE DEF g0, g1, g2
<1>5. QED BY <1>1, <1>2, <1>3, <1>4 DEF HasModel

\* The sections above an option.
LEMMA SectionsAbove ==
  ASSUME NEW a, NEW b, NEW c
  PROVE  /\ SubSeq(<<a, b, c>>, 1, 1) = <<a>>
         /\ SubSeq(<<a, b, c>>, 1, 2) = <<a, b>>
         /\ SubSeq(<<a, b, c>>, 1, 3) = <<a, b, c>>
         /\ Front(<<a, b, c>>) = <<a, b>>
<1> DEFINE S == {a, b, c}
<1>1. /\ <<a>> \in Seq(S) /\ <<a, b>> \in Seq(S) /\ <<a, b, c>> \in Seq(S)
      /\ Len(<<a>>) = 1 /\ Len(<<a, b>>) = 2 /\ Len(<<a, b, c>>) = 3
  OBVIOUS
<1>2. ASSUME NEW n \in 1..3
      PROVE  /\ SubSeq(<<a, b, c>>, 1, n) \in Seq(S) /\ Len(SubSeq(<<a, b, c>>, 1, n)) = n
             /\ \A i \in 1..n : SubSeq(<<a, b, c>>, 1, n)[i] = <<a, b, c>>[i]
  <2>1. \A i \in 1..n : <<a, b, c>>[i] \in S OBVIOUS
  <2>2. /\ SubSeq(<<a, b, c>>, 1, n) \in Seq(S)
        /\ Len(SubSeq(<<a, b, c>>, 1, n)) = IF 1 <= n THEN n - 1 + 1 ELSE 0
        /\ \A i \in 1..n - 1 + 1 : SubSeq(<<a, b, c>>, 1, n)[i] = <<a, b, c>>[1 + i - 1]
    BY <2>1, SubSeqProperties
  <2>3. QED BY <2>2
<1>3. SubSeq(<<a, b, c>>, 1, 1) = <<a>>
  <2>1. \A i \in 1..1 : <<a, b, c>>[i] = <<a>>[i] OBVIOUS
  <2>2. 1 \in 1..3 OBVIOUS
  <2>3. /\ SubSeq(<<a, b, c>>, 1, 1) \in Seq(S) /\ Len(SubSeq(<<a, b, c>>, 1, 1)) = 1
        /\ \A i \in 1..1 : SubSeq(<<a, b, c>>, 1, 1)[i] = <<a>>[i]
    BY <1>2, <2>1, <2>2
  <2>4. QED BY <1>1, <2>3, SeqEqual
<1>4. SubSeq(<<a, b, c>>, 1, 2) = <<a, b>>
  <2>1. \A i \in 1..2 : <<a, b, c>>[i] = <<a, b>>[i] OBVIOUS
  <2>2. 2 \in 1..3 OBVIOUS
  <2>3. /\ SubSeq(<<a, b, c>>, 1, 2) \in Seq(S) /\ Len(SubSeq(<<a, b, c>>, 1, 2)) = 2
        /\ \A i \in 1..2 : SubSeq(<<a, b, c>>, 1, 2)[i] = <<a, b>>[i]
    BY <1>2, <2>1, <2>2
  <2>4. QED BY <1>1, <2>3, SeqEqual
<1>5. SubSeq(<<a, b, c>>, 1, 3) = <<a, b, c>>
  <2>1. 3 \in 1..3 OBVIOUS
  <2>2. /\ SubSeq(<<a, b, c>>, 1, 3) \in Seq(S) /\ Len(SubSeq(<<a, b, c>>, 1, 3)) = 3
        /\ \A i \in 1..3 : SubSeq(<<a, b, c>>, 1, 3)[i] = <<a, b, c>>[i]
    BY <1>2, <2>1
  <2>3. QED BY <1>1, <2>2, SeqEqual
<1>6. Front(<<a, b, c>>) = <<a, b>>
  BY <1>1, <1>4 DEF Front
<1>7. QED BY <1>3, <1>4, <1>5, <1>6

\* A file whose sections are made of nothing, scalars, lists and mappings.
SectionsAreParts(file) ==
  \A section \in Sections :
    LET part == At(file.runtime_options, section) IN
    part = Absent \/ part.is \in {"value", "mapping"}

\* The merged options along the path to each of the options.
LEMMA MergedOptions ==
  ASSUME NEW file, SectionsAreParts(file),
         EnsureMapping(file.runtime_options).is = "mapping",
         NEW runtime, NEW option, <<runtime, "docker_server", option>> \in OptionPaths
  PROVE  LET options == DeepMerge(DefaultRuntimeOptions, EnsureMapping(file.runtime_options))
             made1   == Item(options, runtime)
             made2   == Item(made1, "docker_server")
         IN /\ \E m0 : options = Mapping(m0) /\ runtime \in DOMAIN m0
            /\ made1.is = "mapping" => \E m1 : made1 = Mapping(m1) /\ "docker_server" \in DOMAIN m1
            /\ made2.is = "mapping" => \E m2 : made2 = Mapping(m2) /\ option \in DOMAIN m2
            /\ Item(made2, option) = WithoutModel(file, <<runtime, "docker_server", option>>)
<1> DEFINE path      == <<runtime, "docker_server", option>>
           given     == file.runtime_options
           overrides == EnsureMapping(given)
           options   == DeepMerge(DefaultRuntimeOptions, overrides)
<1>1. PICK d0, d1, d2 : DefaultAlong(runtime, "docker_server", option, d0, d1, d2)
  BY DefaultPath
<1>2. Item(overrides, runtime) = Item(given, runtime)
  <2>1. CASE given \in {Absent, Null}
    <3>1. given.is # "mapping" BY <2>1 DEF Absent, Null, Value
    <3>2. overrides = Mapping(<<>>) BY <2>1 DEF EnsureMapping
    <3>3. runtime \notin DOMAIN <<>> OBVIOUS
    <3>4. Item(overrides, runtime) = Absent BY <3>2, <3>3, Items DEF Item
    <3>5. QED BY <3>1, <3>4, Items
  <2>2. CASE given \notin {Absent, Null}
    BY <2>2 DEF EnsureMapping
  <2>3. QED BY <2>1, <2>2
<1>3. /\ SubSeq(path, 1, 1) = <<runtime>> /\ SubSeq(path, 1, 2) = <<runtime, "docker_server">>
      /\ SubSeq(path, 1, 3) = path
  BY SectionsAbove
<1>4. /\ At(given, <<runtime>>) = Item(overrides, runtime)
      /\ At(given, <<runtime, "docker_server">>) = Item(Item(overrides, runtime), "docker_server")
      /\ At(given, path) = Item(Item(Item(overrides, runtime), "docker_server"), option)
  BY <1>2, AtOne, AtTwo, AtThree
<1>5. \A part \in {Item(overrides, runtime), Item(Item(overrides, runtime), "docker_server")} :
        part = Absent \/ part.is \in {"value", "mapping"}
  <2>1. <<runtime>> \in Sections /\ <<runtime, "docker_server">> \in Sections
    BY <1>3 DEF Sections
  <2>2. QED BY <1>4, <2>1 DEF SectionsAreParts
<1>6. At(DefaultRuntimeOptions, path) = d2[option]
  <2>1. Item(DefaultRuntimeOptions, runtime) = Mapping(d1) BY <1>1, Items DEF DefaultAlong
  <2>2. Item(Mapping(d1), "docker_server") = Mapping(d2) BY <1>1, Items DEF DefaultAlong
  <2>3. Item(Mapping(d2), option) = d2[option] BY <1>1, Items DEF DefaultAlong
  <2>4. At(DefaultRuntimeOptions, path)
          = Item(Item(Item(DefaultRuntimeOptions, runtime), "docker_server"), option)
    BY AtThree
  <2>5. QED BY <2>1, <2>2, <2>3, <2>4
<1>7. MergedAlong(options, overrides, runtime, "docker_server", option, d2[option])
  BY <1>1, <1>5, MergedPath
<1>8. WithoutModel(file, path) =
        CASE At(given, path) # Absent                                      -> At(given, path)
          [] \/ At(given, <<runtime>>).is = "value"
             \/ At(given, <<runtime, "docker_server">>).is = "value"       -> Absent
          [] OTHER                                                         -> d2[option]
  <2>1. (\E n \in 1..2 : At(given, SubSeq(path, 1, n)).is = "value")
          <=> \/ At(given, <<runtime>>).is = "value"
              \/ At(given, <<runtime, "docker_server">>).is = "value"
    <3>1. \A n \in 1..2 : n = 1 \/ n = 2 OBVIOUS
    <3>2. 1 \in 1..2 /\ 2 \in 1..2 OBVIOUS
    <3> HIDE DEF path, given
    <3>3. QED BY <1>3, <3>1, <3>2
  <2> HIDE DEF path
  <2>2. QED BY <1>3, <1>6, <2>1, Zenon DEF WithoutModel
<1>9. QED
  <2> DEFINE made1 == Item(options, runtime)
             made2 == Item(made1, "docker_server")
  <2>1. /\ \E m0 : options = Mapping(m0) /\ runtime \in DOMAIN m0
        /\ made1.is = "mapping" => \E m1 : made1 = Mapping(m1) /\ "docker_server" \in DOMAIN m1
        /\ made2.is = "mapping" => \E m2 : made2 = Mapping(m2) /\ option \in DOMAIN m2
    BY <1>7, Zenon DEF MergedAlong
  <2>2. Item(made2, option) = WithoutModel(file, path)
    <3> HIDE DEF options, overrides, given, path
    <3>1. QED BY <1>4, <1>7, <1>8, Zenon DEF MergedAlong
  <2>3. QED BY <2>1, <2>2

\* Mappings are equal only if they have the same items.
LEMMA SameMapping ==
  ASSUME NEW one, NEW other, Mapping(one) = Mapping(other)
  PROVE  one = other
<1>1. Mapping(one).at = one /\ Mapping(other).at = other
  BY Items
<1>2. QED BY <1>1

\* The merged options around an option whose server's section is a mapping.
LEMMA MergedServer ==
  ASSUME NEW file, SectionsAreParts(file),
         EnsureMapping(file.runtime_options).is = "mapping",
         NEW options,
         options = DeepMerge(DefaultRuntimeOptions, EnsureMapping(file.runtime_options)),
         NEW runtime, NEW option, NEW path,
         path = <<runtime, "docker_server", option>>, path \in OptionPaths,
         At(options, <<runtime, "docker_server">>).is = "mapping"
  PROVE  \E m0, m1, m2 : /\ options = Mapping(m0)
                         /\ runtime \in DOMAIN m0 /\ m0[runtime] = Mapping(m1)
                         /\ "docker_server" \in DOMAIN m1 /\ m1["docker_server"] = Mapping(m2)
                         /\ option \in DOMAIN m2 /\ m2[option] = WithoutModel(file, path)
<1> DEFINE made1 == Item(options, runtime)
           made2 == Item(made1, "docker_server")
<1>1. /\ \E m0 : options = Mapping(m0) /\ runtime \in DOMAIN m0
      /\ made1.is = "mapping" => \E m1 : made1 = Mapping(m1) /\ "docker_server" \in DOMAIN m1
      /\ made2.is = "mapping" => \E m2 : made2 = Mapping(m2) /\ option \in DOMAIN m2
      /\ Item(made2, option) = WithoutModel(file, path)
  BY MergedOptions
<1>2. made2 = At(options, <<runtime, "docker_server">>)
  BY AtTwo
<1>3. made2.is = "mapping"
  BY <1>2
<1>4. made1.is = "mapping"
  <2>1. ASSUME made1.is # "mapping" PROVE FALSE
    <3>1. made2 = Absent BY <2>1, Items
    <3>2. Absent.is = "absent" BY DEF Absent
    <3>3. QED BY <1>3, <3>1, <3>2
  <2>2. QED BY <2>1
<1>5. PICK m0 : options = Mapping(m0) /\ runtime \in DOMAIN m0
  BY <1>1
<1> HIDE DEF made1, made2
<1>6. PICK m1 : made1 = Mapping(m1) /\ "docker_server" \in DOMAIN m1
  BY <1>1, <1>4
<1>7. PICK m2 : made2 = Mapping(m2) /\ option \in DOMAIN m2
  BY <1>1, <1>3
<1>8. m0[runtime] = Mapping(m1)
  <2>1. Item(Mapping(m0), runtime) = m0[runtime] BY <1>5, Items
  <2>2. QED BY <1>5, <1>6, <2>1 DEF made1
<1>9. m1["docker_server"] = Mapping(m2)
  <2>1. Item(Mapping(m1), "docker_server") = m1["docker_server"] BY <1>6, Items
  <2>2. QED BY <1>6, <1>7, <2>1 DEF made2
<1>10. m2[option] = WithoutModel(file, path)
  <2>1. Item(Mapping(m2), option) = m2[option] BY <1>7, Items
  <2>2. QED BY <1>1, <1>7, <2>1
<1>11. QED BY <1>5, <1>6, <1>7, <1>8, <1>9, <1>10

\* What is at three keys of nested mappings.
LEMMA AtNested ==
  ASSUME NEW a, NEW b, NEW c, NEW path, path = <<a, b, c>>,
         NEW f0, NEW f1, NEW f2,
         a \in DOMAIN f0, f0[a] = Mapping(f1), b \in DOMAIN f1, f1[b] = Mapping(f2),
         c \in DOMAIN f2
  PROVE  At(Mapping(f0), path) = f2[c]
<1>1. Item(Mapping(f0), a) = Mapping(f1) BY Items
<1>2. Item(Mapping(f1), b) = Mapping(f2) BY Items
<1>3. Item(Mapping(f2), c) = f2[c] BY Items
<1>4. At(Mapping(f0), path) = Item(Item(Item(Mapping(f0), a), b), c) BY AtThree
<1>5. QED BY <1>1, <1>2, <1>3, <1>4

\* The model's place and the other options of the merged options, when each
\* server's section is a mapping.
LEMMA ModelPut ==
  ASSUME NEW file, SectionsAreParts(file),
         EnsureMapping(file.runtime_options).is = "mapping",
         NEW options,
         options = DeepMerge(DefaultRuntimeOptions, EnsureMapping(file.runtime_options)),
         \A path \in ModelPaths : At(options, Front(path)).is = "mapping",
         NEW model, NEW path \in OptionPaths
  PROVE  At(PutModel(options, model), path)
           = IF path \in ModelPaths THEN model ELSE WithoutModel(file, path)
<1> DEFINE pv == <<"vllm", "docker_server", "port">>
           pl == <<"llama_cpp", "docker_server", "port">>
<1>1. /\ VllmModel \in OptionPaths /\ LlamaCppModel \in OptionPaths
      /\ pv \in OptionPaths /\ pl \in OptionPaths
      /\ VllmModel \in ModelPaths /\ LlamaCppModel \in ModelPaths
      /\ pv \notin ModelPaths /\ pl \notin ModelPaths
      /\ path \in {VllmModel, LlamaCppModel, pv, pl}
  <2>1. /\ VllmModel \in ModelPaths /\ LlamaCppModel \in ModelPaths
        /\ VllmModel \in OptionPaths /\ LlamaCppModel \in OptionPaths
    BY DEF ModelPaths, OptionPaths
  <2>2. pv \in OptionPaths /\ pl \in OptionPaths /\ path \in {VllmModel, LlamaCppModel, pv, pl}
    BY DEF ModelPaths, OptionPaths
  <2>3. pv[3] = "port" /\ pl[3] = "port" /\ VllmModel[3] = "model"
        /\ LlamaCppModel[3] = "model_file"
    BY DEF VllmModel, LlamaCppModel
  <2>4. pv \notin ModelPaths /\ pl \notin ModelPaths BY <2>3 DEF ModelPaths
  <2>5. QED BY <2>1, <2>2, <2>4
<1>2. /\ VllmModel = <<"vllm", "docker_server", "model">>
      /\ LlamaCppModel = <<"llama_cpp", "docker_server", "model_file">>
      /\ pv = <<"vllm", "docker_server", "port">>
      /\ pl = <<"llama_cpp", "docker_server", "port">>
  BY DEF VllmModel, LlamaCppModel
<1>3. /\ At(options, <<"vllm", "docker_server">>).is = "mapping"
      /\ At(options, <<"llama_cpp", "docker_server">>).is = "mapping"
  <2>1. /\ Front(VllmModel) = <<"vllm", "docker_server">>
        /\ Front(LlamaCppModel) = <<"llama_cpp", "docker_server">>
    BY SectionsAbove DEF VllmModel, LlamaCppModel
  <2>2. QED BY <1>1, <2>1
<1> HIDE DEF pv, pl
<1> DEFINE server == "docker_server"
<1>4. PICK m0, v1, v2 : /\ options = Mapping(m0)
                        /\ "vllm" \in DOMAIN m0 /\ m0["vllm"] = Mapping(v1)
                        /\ server \in DOMAIN v1 /\ v1[server] = Mapping(v2)
                        /\ "port" \in DOMAIN v2 /\ v2["port"] = WithoutModel(file, pv)
  BY <1>1, <1>2, <1>3, MergedServer
<1>5. PICK l1, l2 : /\ "llama_cpp" \in DOMAIN m0 /\ m0["llama_cpp"] = Mapping(l1)
                    /\ server \in DOMAIN l1 /\ l1[server] = Mapping(l2)
                    /\ "port" \in DOMAIN l2 /\ l2["port"] = WithoutModel(file, pl)
  <2>1. PICK n0, l1, l2 : /\ options = Mapping(n0)
                          /\ "llama_cpp" \in DOMAIN n0 /\ n0["llama_cpp"] = Mapping(l1)
                          /\ server \in DOMAIN l1 /\ l1[server] = Mapping(l2)
                          /\ "port" \in DOMAIN l2 /\ l2["port"] = WithoutModel(file, pl)
    BY <1>1, <1>2, <1>3, MergedServer
  <2>2. n0 = m0 BY <1>4, <2>1, SameMapping
  <2>3. QED BY <2>1, <2>2
<1>6. PICK g0, g1, g2 :
        /\ PutAt(options, VllmModel, model) = Mapping(g0)
        /\ DOMAIN g0 = DOMAIN m0 /\ \A k \in DOMAIN m0 : k # "vllm" => g0[k] = m0[k]
        /\ g0["vllm"] = Mapping(g1) /\ server \in DOMAIN g1 /\ g1[server] = Mapping(g2)
        /\ DOMAIN g2 = DOMAIN v2 \cup {"model"} /\ g2["model"] = model
        /\ \A k \in DOMAIN v2 : k # "model" => g2[k] = v2[k]
  <2>1. Nested(m0, v1, v2, "vllm", server) BY <1>4 DEF Nested
  <2>2. HasModel(PutAt(Mapping(m0), VllmModel, model), m0, v2, "vllm", server, "model", model)
    BY ONLY <1>2, <2>1, Put
  <2>3. QED BY <1>4, <2>2 DEF HasModel, Nested
<1>7. g0["llama_cpp"] = Mapping(l1) /\ "llama_cpp" \in DOMAIN g0
  BY <1>5, <1>6
<1>8. PICK h0, h1, h2 :
        /\ PutAt(Mapping(g0), LlamaCppModel, model) = Mapping(h0)
        /\ DOMAIN h0 = DOMAIN g0 /\ \A k \in DOMAIN g0 : k # "llama_cpp" => h0[k] = g0[k]
        /\ h0["llama_cpp"] = Mapping(h1) /\ server \in DOMAIN h1 /\ h1[server] = Mapping(h2)
        /\ DOMAIN h2 = DOMAIN l2 \cup {"model_file"} /\ h2["model_file"] = model
        /\ \A k \in DOMAIN l2 : k # "model_file" => h2[k] = l2[k]
  <2>1. Nested(g0, l1, l2, "llama_cpp", server) BY <1>5, <1>7 DEF Nested
  <2>2. HasModel(PutAt(Mapping(g0), LlamaCppModel, model), g0, l2, "llama_cpp", server,
                 "model_file", model)
    BY ONLY <1>2, <2>1, Put
  <2>3. QED BY <2>2 DEF HasModel, Nested
<1>9. PutModel(options, model) = Mapping(h0)
  BY <1>6, <1>8 DEF PutModel
<1>10. /\ "vllm" \in DOMAIN h0 /\ h0["vllm"] = Mapping(g1) /\ "llama_cpp" \in DOMAIN h0
       /\ "model" \in DOMAIN g2 /\ "port" \in DOMAIN g2 /\ g2["port"] = v2["port"]
       /\ "model_file" \in DOMAIN h2 /\ "port" \in DOMAIN h2 /\ h2["port"] = l2["port"]
  BY <1>4, <1>5, <1>6, <1>8
<1>11. At(Mapping(h0), VllmModel) = model
  BY <1>2, <1>6, <1>10, AtNested
<1>12. At(Mapping(h0), LlamaCppModel) = model
  BY <1>2, <1>8, <1>10, AtNested
<1>13. At(Mapping(h0), pv) = WithoutModel(file, pv)
  BY <1>2, <1>4, <1>6, <1>10, AtNested
<1>14. At(Mapping(h0), pl) = WithoutModel(file, pl)
  BY <1>2, <1>5, <1>8, <1>10, AtNested
<1>15. QED BY <1>1, <1>9, <1>11, <1>12, <1>13, <1>14

\* What load_config makes of a file whose sections are parts of a YAML tree:
\* it rejects the file, or has a mapping.
LEMMA LoadedIs ==
  ASSUME NEW file, SectionsAreParts(file)
  PROVE  LoadConfig(file).is \in {"mapping", "rejected"}
<1> DEFINE given   == EnsureMapping(file.runtime_options)
           options == DeepMerge(DefaultRuntimeOptions, given)
<1>1. Rejected.is = "rejected" BY DEF Rejected
<1>2. CASE ~file.valid \/ given.is # "mapping"
  BY <1>1, <1>2 DEF LoadConfig
<1>3. CASE file.valid /\ given.is = "mapping"
  <2>1. /\ VllmModel \in OptionPaths /\ LlamaCppModel \in OptionPaths
    BY DEF ModelPaths, OptionPaths
  <2>2. \E m0 : options = Mapping(m0)
    BY <1>3, <2>1, MergedOptions, Zenon DEF VllmModel
  <2>3. options.is = "mapping" BY <2>2, Items
  <2>4. PutModel(options, file.model).is = "mapping"
    BY <2>3 DEF PutModel, PutAt
  <2> HIDE DEF options
  <2>5. \/ LoadConfig(file) = options
        \/ LoadConfig(file) = Rejected
        \/ LoadConfig(file) = PutModel(options, file.model)
    BY <1>3 DEF LoadConfig, options
  <2>6. QED BY <1>1, <2>3, <2>4, <2>5
<1>4. QED BY <1>2, <1>3

\* load_config, path by path: each option of a configuration that is accepted
\* is the model where one is configured and the option names it, else what the
\* file has there, else the default, unless the file has replaced a section
\* above it by something that is no mapping.
THEOREM LoadConfigByPath ==
  ASSUME NEW file, SectionsAreParts(file), LoadConfig(file).is = "mapping",
         NEW path \in OptionPaths
  PROVE  At(LoadConfig(file), path) = Expected(file, path)
<1> DEFINE given   == EnsureMapping(file.runtime_options)
           options == DeepMerge(DefaultRuntimeOptions, given)
           loaded  == LoadConfig(file)
<1>1. Rejected.is = "rejected" BY DEF Rejected
<1>2. file.valid /\ given.is = "mapping"
  BY <1>1 DEF LoadConfig
<1>3. Expected(file, path) = IF path \in ModelPaths /\ file.model # Null
                             THEN file.model ELSE WithoutModel(file, path)
  BY DEF Expected
<1>4. CASE file.model = Null
  <2>1. loaded = options BY <1>2, <1>4 DEF LoadConfig
  <2>2. PICK runtime, option : path = <<runtime, "docker_server", option>>
    BY DefaultPath
  <2>3. Item(Item(Item(options, runtime), "docker_server"), option) = WithoutModel(file, path)
    BY <1>2, <2>2, MergedOptions
  <2>4. At(options, path) = WithoutModel(file, path)
    BY <2>2, <2>3, AtThree
  <2>5. QED BY <1>3, <1>4, <2>1, <2>4
<1>5. CASE file.model # Null
  <2>1. loaded # Rejected BY <1>1
  <2>2. loaded = PutModel(options, file.model)
        /\ ~ \E place \in ModelPaths : At(options, Front(place)).is # "mapping"
    BY <1>2, <1>5, <2>1 DEF LoadConfig
  <2>3. \A place \in ModelPaths : At(options, Front(place)).is = "mapping"
    BY <2>2
  <2>4. At(PutModel(options, file.model), path)
          = IF path \in ModelPaths THEN file.model ELSE WithoutModel(file, path)
    BY <1>2, <2>3, ModelPut, Zenon
  <2>5. QED BY <1>3, <1>5, <2>2, <2>4
<1>6. QED BY <1>4, <1>5
=============================================================================
