------------------------------ MODULE StatsUtil -----------------------------
(***************************************************************************)
(* StatsUtil.calculateStat, with the arithmetic it really does: a division *)
(* and a multiplication of 64-bit floating point numbers, each rounded to  *)
(* 53 significant bits (to nearest, ties to even), then a truncation.      *)
(*                                                                         *)
(* A positive Double is [bits, point]: `bits' are its significant bits,    *)
(* the first of them 1, and the binary point lies after `point' of them    *)
(* (before the first when point <= 0).                                     *)
(***************************************************************************)
EXTENDS Integers, Sequences

Precision == 53

(* The natural numbers with the first k bits, for each k. *)
Prefixes(bits) ==
  LET value[k \in 0 .. Len(bits)] == IF k = 0 THEN 0 ELSE 2 * value[k - 1] + bits[k]
  IN  value

FromBits(bits, k) == Prefixes(bits)[k]

(* One more in the last place; all ones give one bit more. *)
AddUlp(bits) ==
  LET zeros == {i \in DOMAIN bits : bits[i] = 0}
      last  == CHOOSE i \in zeros : \A j \in zeros : j <= i
  IN  IF zeros = {} THEN [i \in 1 .. Len(bits) + 1 |-> IF i = 1 THEN 1 ELSE 0]
      ELSE [i \in DOMAIN bits |-> IF i < last THEN bits[i] ELSE IF i = last THEN 1 ELSE 0]

(* Round to nearest, ties to even; `more' tells whether nonzero bits       *)
(* follow those of d.                                                      *)
Round(d, more) ==
  LET kept == SubSeq(d.bits, 1, Precision)
      up   == /\ d.bits[Precision + 1] = 1
              /\ \/ more
                 \/ \E i \in Precision + 2 .. Len(d.bits) : d.bits[i] = 1
                 \/ kept[Precision] = 1
      bits == IF up THEN AddUlp(kept) ELSE kept
  IN  [bits |-> bits, point |-> d.point + Len(bits) - Precision]

(* Long division of t + rem by t (rem < t): the first bits, and what       *)
(* remains after them.                                                     *)
Division(rem, t) ==
  LET after[k \in 0 .. Precision] ==
        IF k = 0 THEN [bits |-> <<1>>, rem |-> rem]
        ELSE LET before == after[k - 1]
             IN  [ bits |-> Append(before.bits, (2 * before.rem) \div t),
                   rem  |-> (2 * before.rem) % t ]
  IN  after[Precision]

(* w, 2 * w, 4 * w, ... *)
Doublings(w, n) ==
  LET doubled[k \in 0 .. n] == IF k = 0 THEN w ELSE 2 * doubled[k - 1]
  IN  doubled

(* Double(w) / Double(t) for 0 < w <= t: one bit beyond the precision and  *)
(* the remainder for rounding.                                             *)
Quotient(w, t) ==
  LET doubled  == Doublings(w, t)
      shift    == CHOOSE k \in 0 .. t : doubled[k] >= t /\ (k > 0 => doubled[k - 1] < t)
      division == Division(doubled[shift] - t, t)
  IN  Round([bits |-> division.bits, point |-> 1 - shift], division.rem # 0)

(* 100 times the bits, column by column from the last one on, each with   *)
(* what is carried from the one after it: 7 columns more are enough.       *)
Columns(bits) ==
  LET from[i \in -6 .. Len(bits)] ==
        IF i = Len(bits) THEN <<100 * bits[i]>>
        ELSE LET after == from[i + 1]
             IN  <<(IF i > 0 THEN 100 * bits[i] ELSE 0) + (after[1] \div 2)>> \o after
  IN  from[-6]

(* d * 100: the exact product, rounded. *)
TimesHundred(d) ==
  LET columns == Columns(d.bits)
      first   == CHOOSE k \in 1 .. 8 : columns[k] # 0 /\ (k > 1 => columns[k - 1] = 0)
  IN  Round([ bits  |-> [i \in 1 .. Len(columns) - first + 1 |-> columns[first + i - 1] % 2],
              point |-> d.point + 8 - first ],
            FALSE)

(* Mutant of Truncate: the Double is rounded to the nearest integer.       *)
RoundHalfUp(d) ==
  IF d.point < 0 THEN 0
  ELSE FromBits(d.bits, d.point) + d.bits[d.point + 1]

(* Int(d): what comes before the point. *)
Truncate(d) == IF d.point <= 0 THEN 0 ELSE FromBits(d.bits, d.point)

calculateStat(wins, losses) ==
  LET total == wins + losses IN
  [ wins       |-> wins,
    losses     |-> losses,
    total      |-> total,
    percentage |-> IF total = 0 THEN 100
                   ELSE IF wins = 0 THEN 0
                   ELSE Truncate(TimesHundred(Quotient(wins, total))) ]
=============================================================================
