--------------------------- MODULE FrontDoor_proofs ---------------------------
(***************************************************************************)
(* Proofs about the HTTP front door, for every registry, every set of      *)
(* payments, agents and proofs, and every request a client can make: what  *)
(* the facilitator settles pays the payee, /verify and /settle judge a     *)
(* request alike, an agent that pays its offer is not refused, and a       *)
(* disclosure that is found valid proves a payment.                        *)
(*                                                                         *)
(* The sums over the outputs of a transaction and the digits of an amount  *)
(* are recursive functions.  Facts about them are proved by induction on   *)
(* the position, with the induction principle as a fact about sets of      *)
(* positions.                                                              *)
(***************************************************************************)
EXTENDS FrontDoor, SequenceTheorems, WellFoundedInduction, TLAPS

-----------------------------------------------------------------------------
(* Induction over positions *)

LEMMA MinIsLeast ==
    ASSUME NEW S, S \subseteq Nat, S # {}
    PROVE  Min(S) \in S /\ \A y \in S : Min(S) <= y
<1>1. PICK x \in S : \A y \in S : ~(<<y, x>> \in OpToRel(<, Nat))
  BY NatLessThanWellFounded, WFMin
<1>2. \A y \in S : ~(y < x)
  BY <1>1 DEF OpToRel
<1>3. \A y \in S : x <= y
  BY <1>2
<1> QED
  BY <1>3 DEF Min

(* A set of positions that has 0 and with each position the next has them all. *)
LEMMA PositionInduction ==
    ASSUME NEW n \in Nat, NEW S, 0 \in S, \A i \in 1 .. n : i - 1 \in S => i \in S
    PROVE  \A i \in 0 .. n : i \in S
<1> DEFINE Bad == {i \in 0 .. n : i \notin S}
<1> SUFFICES ASSUME Bad # {} PROVE FALSE
  OBVIOUS
<1>1. Min(Bad) \in Bad /\ \A y \in Bad : Min(Bad) <= y
  BY MinIsLeast
<1> DEFINE m == Min(Bad)
<1>2. m \in 1 .. n /\ m \notin S
  BY <1>1
<1>3. m - 1 \in 0 .. n /\ m - 1 \notin Bad
  BY <1>1, <1>2
<1> QED
  BY <1>2, <1>3

(* One step per position, and the values they lead to from z. *)
Steps(n, V) == [1 .. n -> [V -> V]]
LeadsTo(n, V, z, g, f) ==
    f \in [0 .. n -> V] /\ f[0] = z /\ \A i \in 1 .. n : f[i] = g[i][f[i - 1]]

(* What a step computes from the value before it defines one value for every *)
(* position.                                                                 *)
LEMMA RecursionExists ==
    ASSUME NEW n \in Nat, NEW V, NEW z \in V, NEW g \in Steps(n, V)
    PROVE  \E f : LeadsTo(n, V, z, g, f)
<1> USE DEF Steps
<1> DEFINE Upto(m, f) == f[0] = z /\ \A i \in 1 .. m : f[i] = g[i][f[i - 1]]
           S == {m \in 0 .. n : \E f \in [0 .. m -> V] : Upto(m, f)}
<1>1. 0 \in S
  <2> DEFINE f == [i \in 0 .. 0 |-> z]
  <2>1. f \in [0 .. 0 -> V] /\ Upto(0, f) /\ 0 \in 0 .. n
    OBVIOUS
  <2> HIDE DEF f, Upto
  <2> QED
    BY <2>1
<1>2. ASSUME NEW m \in 1 .. n, m - 1 \in S PROVE m \in S
  <2>1. PICK f \in [0 .. m - 1 -> V] : Upto(m - 1, f)
    BY <1>2
  <2> DEFINE last == g[m][f[m - 1]]
             h == [i \in 0 .. m |-> IF i = m THEN last ELSE f[i]]
  <2>2. f[m - 1] \in V /\ g[m] \in [V -> V]
    OBVIOUS
  <2>3. last \in V
    BY <2>2
  <2>4. \A i \in 0 .. m : i # m => i \in 0 .. m - 1 /\ f[i] \in V
    OBVIOUS
  <2>5. h \in [0 .. m -> V]
    BY <2>3, <2>4
  <2>6. h[0] = z
    BY <2>1
  <2>7. ASSUME NEW i \in 1 .. m PROVE h[i] = g[i][h[i - 1]]
    <3>1. i - 1 \in 0 .. m /\ i - 1 # m /\ h[i - 1] = f[i - 1]
      OBVIOUS
    <3>2. CASE i = m
      BY <3>1, <3>2
    <3>3. CASE i # m
      <4>1. i \in 1 .. m - 1 /\ h[i] = f[i]
        BY <3>3
      <4>2. f[i] = g[i][f[i - 1]]
        BY <4>1, <2>1
      <4> QED
        BY <3>1, <4>1, <4>2
    <3> QED
      BY <3>2, <3>3
  <2> HIDE DEF h
  <2>8. Upto(m, h)
    BY <2>6, <2>7
  <2>9. m \in 0 .. n
    OBVIOUS
  <2> HIDE DEF Upto
  <2> QED
    BY <2>5, <2>8, <2>9
<1> HIDE DEF S
<1>3. \A i \in 0 .. n : i \in S
  BY <1>1, <1>2, PositionInduction
<1>4. n \in S
  BY <1>3
<1> QED
  BY <1>4 DEF S, LeadsTo

-----------------------------------------------------------------------------
(* Writing an amount down and reading it back *)

LEMMA PowersOfTen ==
    /\ PowerOfTen[0] = 1
    /\ \A k \in 1 .. ZecDigits : PowerOfTen[k] = 10 * PowerOfTen[k - 1]
    /\ \A k \in 0 .. ZecDigits : PowerOfTen[k] \in Nat \ {0}
<1> DEFINE n == ZecDigits
           P == PowerOfTen
           F(w) == [k \in 0 .. n |-> IF k = 0 THEN 1 ELSE 10 * w[k - 1]]
           V == Nat \ {0}
           g == [k \in 1 .. n |-> [v \in V |-> 10 * v]]
<1>1. n \in Nat
  BY X402ExactAssumption
<1>2. PowerOfTen = CHOOSE w : w = F(w)
  BY DEF PowerOfTen
<1> HIDE DEF n
<1>3. 1 \in V /\ g \in Steps(n, V)
  BY DEF Steps
<1> HIDE DEF g, V
<1>4. PICK f : LeadsTo(n, V, 1, g, f)
  BY <1>1, <1>3, RecursionExists
<1>5. f \in [0 .. n -> V] /\ f[0] = 1 /\ \A i \in 1 .. n : f[i] = g[i][f[i - 1]]
  BY <1>4 DEF LeadsTo
<1>6. \A i \in 1 .. n : f[i] = 10 * f[i - 1]
  <2> TAKE i \in 1 .. n
  <2>1. i - 1 \in 0 .. n /\ f[i - 1] \in V
    BY <1>1, <1>5
  <2> QED
    BY <1>5, <2>1 DEF g
<1>7. f = F(f)
  BY <1>1, <1>5, <1>6
<1>8. P = F(P)
  BY <1>2, <1>7
<1> HIDE DEF P
<1>9. P[0] = 1 /\ \A k \in 1 .. n : P[k] = 10 * P[k - 1]
  BY <1>1, <1>8
<1> DEFINE S == {k \in 0 .. n : P[k] \in Nat \ {0}}
<1>10. 0 \in S
  BY <1>1, <1>9
<1>11. ASSUME NEW i \in 1 .. n, i - 1 \in S PROVE i \in S
  BY <1>1, <1>9, <1>11
<1> HIDE DEF S
<1>12. \A i \in 0 .. n : i \in S
  BY <1>1, <1>10, <1>11, PositionInduction
<1>13. \A k \in 0 .. n : P[k] \in Nat \ {0}
  BY <1>12 DEF S
<1> QED
  BY <1>9, <1>13 DEF P, n

(* The digits of a fraction of one ZEC are what dividing it by ten leaves over, *)
(* and as many divisions as there are digits leave nothing.                     *)
LEMMA DigitsAre ==
    ASSUME NEW fraction \in Nat, fraction < ZatPerZec
    PROVE  \E rest \in [0 .. ZecDigits -> Nat] :
              /\ rest[0] = fraction /\ rest[ZecDigits] = 0
              /\ \A k \in 1 .. ZecDigits : rest[k] = rest[k - 1] \div 10
              /\ PaddedDigits(fraction) = [i \in 1 .. ZecDigits |-> rest[ZecDigits - i] % 10]
<1> DEFINE n == ZecDigits
           F(w) == [k \in 0 .. n |-> IF k = 0 THEN fraction ELSE w[k - 1] \div 10]
           W == CHOOSE w : w = F(w)
           g == [k \in 1 .. n |-> [v \in Nat |-> v \div 10]]
<1>1. n \in Nat
  BY X402ExactAssumption
<1>2. PaddedDigits(fraction) = [i \in 1 .. n |-> W[n - i] % 10]
  BY DEF PaddedDigits
<1>2a. /\ fraction < PowerOfTen[n] /\ PowerOfTen[0] = 1
       /\ \A k \in 1 .. n : PowerOfTen[k] = 10 * PowerOfTen[k - 1]
       /\ \A k \in 0 .. n : PowerOfTen[k] \in Nat
  BY PowersOfTen DEF ZatPerZec
<1> HIDE DEF n
<1>3. g \in Steps(n, Nat)
  BY DEF Steps
<1> HIDE DEF g
<1>4. PICK f : LeadsTo(n, Nat, fraction, g, f)
  BY <1>1, <1>3, RecursionExists
<1>5. f \in [0 .. n -> Nat] /\ f[0] = fraction /\ \A i \in 1 .. n : f[i] = g[i][f[i - 1]]
  BY <1>4 DEF LeadsTo
<1>6. \A i \in 1 .. n : f[i] = f[i - 1] \div 10
  <2> TAKE i \in 1 .. n
  <2>1. i - 1 \in 0 .. n /\ f[i - 1] \in Nat
    BY <1>1, <1>5
  <2> QED
    BY <1>5, <2>1 DEF g
<1>7. f = F(f)
  BY <1>1, <1>5, <1>6
<1>8. W = F(W)
  BY <1>7
<1> HIDE DEF W
<1>9. W[0] = fraction /\ \A k \in 1 .. n : W[k] = W[k - 1] \div 10
  BY <1>1, <1>8
<1> DEFINE S == {k \in 0 .. n : W[k] \in Nat /\ W[k] < PowerOfTen[n - k]}
<1>10. 0 \in S
  BY <1>1, <1>2a, <1>9
<1>11. ASSUME NEW i \in 1 .. n, i - 1 \in S PROVE i \in S
  <2>1. /\ W[i - 1] \in Nat /\ W[i - 1] < PowerOfTen[n - (i - 1)] /\ W[i] = W[i - 1] \div 10
    BY <1>9, <1>11
  <2>2. n - (i - 1) \in 1 .. n /\ (n - (i - 1)) - 1 = n - i /\ n - i \in 0 .. n
    BY <1>1
  <2>3. PowerOfTen[n - (i - 1)] = 10 * PowerOfTen[n - i] /\ PowerOfTen[n - i] \in Nat
    BY <1>2a, <2>2
  <2>4. W[i] \in Nat /\ W[i] < PowerOfTen[n - i]
    BY <2>1, <2>3
  <2>5. i \in 0 .. n
    BY <1>1
  <2> QED
    BY <2>4, <2>5
<1> HIDE DEF S
<1>12. \A i \in 0 .. n : i \in S
  BY <1>1, <1>10, <1>11, PositionInduction
<1>13. \A k \in 0 .. n : W[k] \in Nat
  BY <1>12 DEF S
<1>14. W[n] < PowerOfTen[n - n] /\ W[n] \in Nat
  BY <1>1, <1>12 DEF S
<1>15. W[n] = 0
  BY <1>1, <1>2a, <1>14
<1>16. W \in [0 .. n -> Nat]
  BY <1>8, <1>13
<1> QED
  BY <1>2, <1>9, <1>15, <1>16 DEF n

(* Zeros at the end are left out, and nothing else. *)
LEMMA TrimmedIs ==
    ASSUME NEW n \in Nat, NEW digits \in [1 .. n -> Nat]
    PROVE  LET trimmed == TrimEndZeros(digits)
           IN  /\ Len(trimmed) \in 0 .. n
               /\ \A i \in 1 .. n : digits[i] = IF i <= Len(trimmed) THEN trimmed[i] ELSE 0
<1> DEFINE kept == {0} \union {i \in DOMAIN digits : digits[i] # 0}
           trimmed == TrimEndZeros(digits)
           m == Max(kept)
<1>1. DOMAIN digits = 1 .. n
  OBVIOUS
<1>2. kept \subseteq 0 .. n /\ 0 \in kept
  BY <1>1
<1>3. trimmed = SubSeq(digits, 1, m)
  BY DEF TrimEndZeros
<1>4. \A i \in 1 .. n : i \notin kept => digits[i] = 0
  BY <1>1
<1> HIDE DEF kept
<1>5. m \in kept /\ \A i \in kept : i <= m
  <2> DEFINE back == {n - i : i \in kept}
  <2>1. back \subseteq Nat /\ back # {}
    BY <1>2
  <2>2. Min(back) \in back /\ \A y \in back : Min(back) <= y
    BY <2>1, MinIsLeast
  <2>3. PICK x \in kept : Min(back) = n - x
    BY <2>2
  <2>4. \A i \in kept : x >= i
    <3> TAKE i \in kept
    <3>1. n - i \in back
      OBVIOUS
    <3>2. n - x <= n - i
      BY <2>2, <2>3, <3>1
    <3> QED
      BY <1>2, <3>2
  <2>5. \E y \in kept : \A i \in kept : y >= i
    BY <2>4
  <2> QED
    BY <1>2, <2>5 DEF Max
<1> HIDE DEF m
<1>6. m \in 0 .. n
  BY <1>2, <1>5
<1>7. digits \in Seq(Nat) /\ Len(digits) = n
  BY <1>1
<1>8. Len(trimmed) = m /\ \A i \in 1 .. m : trimmed[i] = digits[i]
  BY <1>3, <1>6, <1>7
<1>9. \A i \in 1 .. n : digits[i] = IF i <= m THEN trimmed[i] ELSE 0
  <2> TAKE i \in 1 .. n
  <2>1. CASE i <= m
    BY <1>6, <1>8, <2>1
  <2>2. CASE ~(i <= m)
    BY <1>4, <1>5, <2>2
  <2> QED
    BY <2>1, <2>2
<1> QED
  BY <1>6, <1>8, <1>9

(* What a ZIP-321 parser makes of the digits, one after the other. *)
LEMMA ParsedIs ==
    ASSUME NEW amount, NEW digits \in [1 .. ZecDigits -> Nat],
           \A i \in 1 .. ZecDigits :
               digits[i] = IF i <= Len(amount.fraction) THEN amount.fraction[i] ELSE 0
    PROVE  \E value \in [0 .. ZecDigits -> Nat] :
              /\ value[0] = 0
              /\ \A i \in 1 .. ZecDigits : value[i] = 10 * value[i - 1] + digits[i]
              /\ ParseZec(amount) = amount.whole * ZatPerZec + value[ZecDigits]
<1> DEFINE n == ZecDigits
           digit(i) == IF i <= Len(amount.fraction) THEN amount.fraction[i] ELSE 0
           F(w) == [i \in 0 .. n |-> IF i = 0 THEN 0 ELSE 10 * w[i - 1] + digit(i)]
           W == CHOOSE w : w = F(w)
           g == [i \in 1 .. n |-> [v \in Nat |-> 10 * v + digits[i]]]
<1>1. n \in Nat
  BY X402ExactAssumption
<1>2. ParseZec(amount) = amount.whole * ZatPerZec + W[n]
  BY DEF ParseZec
<1>3. \A i \in 1 .. n : digit(i) = digits[i]
  OBVIOUS
<1>3a. \A i \in 1 .. n : digits[i] \in Nat
  OBVIOUS
<1> HIDE DEF n, digit
<1>4. g \in Steps(n, Nat)
  <2>1. \A i \in 1 .. n : [v \in Nat |-> 10 * v + digits[i]] \in [Nat -> Nat]
    BY <1>3a
  <2> QED
    BY <2>1 DEF Steps
<1> HIDE DEF g
<1>5. PICK f : LeadsTo(n, Nat, 0, g, f)
  BY <1>1, <1>4, RecursionExists
<1>6. f \in [0 .. n -> Nat] /\ f[0] = 0 /\ \A i \in 1 .. n : f[i] = g[i][f[i - 1]]
  BY <1>5 DEF LeadsTo
<1>7. \A i \in 1 .. n : f[i] = 10 * f[i - 1] + digit(i)
  <2> TAKE i \in 1 .. n
  <2>1. i - 1 \in 0 .. n /\ f[i - 1] \in Nat
    BY <1>1, <1>6
  <2> QED
    BY <1>3, <1>6, <2>1 DEF g
<1>8. f = F(f)
  BY <1>1, <1>6, <1>7
<1>9. W = F(W)
  BY <1>8
<1> HIDE DEF W
<1>10. W[0] = 0 /\ \A i \in 1 .. n : W[i] = 10 * W[i - 1] + digits[i]
  BY <1>1, <1>3, <1>9
<1> DEFINE S == {k \in 0 .. n : W[k] \in Nat}
<1>11. 0 \in S
  BY <1>1, <1>10
<1>12. ASSUME NEW i \in 1 .. n, i - 1 \in S PROVE i \in S
  <2>1. W[i - 1] \in Nat /\ digits[i] \in Nat /\ i \in 0 .. n
    BY <1>1, <1>3a, <1>12
  <2> QED
    BY <1>10, <2>1
<1> HIDE DEF S
<1>13. \A i \in 0 .. n : i \in S
  BY <1>1, <1>11, <1>12, PositionInduction
<1>14. \A i \in 0 .. n : W[i] \in Nat
  BY <1>13 DEF S
<1>15. W \in [0 .. n -> Nat]
  BY <1>9, <1>14
<1> QED
  BY <1>2, <1>10, <1>15 DEF n

LEMMA WholeAndFraction ==
    ASSUME NEW zat \in Nat, NEW unit \in Nat \ {0}
    PROVE  /\ zat % unit \in Nat /\ zat % unit < unit /\ zat \div unit \in Nat
           /\ ((zat \div unit) * unit) + (zat % unit) = zat
OBVIOUS

(* The amount compose_payment_uri writes is the amount that is read from it. *)
LEMMA AmountRoundTrips ==
    ASSUME NEW zat \in Nat
    PROVE  ParseZec(FormatZecFromZat(zat)) = zat
<1> DEFINE n == ZecDigits
           unit == ZatPerZec
           fraction == zat % unit
           amount == FormatZecFromZat(zat)
           digits == PaddedDigits(fraction)
<1>1. n \in Nat
  BY X402ExactAssumption
<1>2. unit \in Nat \ {0}
  BY <1>1, PowersOfTen DEF ZatPerZec
<1> HIDE DEF unit
<1>3. /\ fraction \in Nat /\ fraction < unit /\ zat \div unit \in Nat
      /\ ((zat \div unit) * unit) + fraction = zat
  BY <1>2, WholeAndFraction
<1>4. amount.whole = zat \div unit /\ amount.fraction = TrimEndZeros(digits)
  BY DEF FormatZecFromZat, unit
<1> HIDE DEF fraction, amount
<1>5. PICK rest \in [0 .. n -> Nat] :
          /\ rest[0] = fraction /\ rest[n] = 0
          /\ \A k \in 1 .. n : rest[k] = rest[k - 1] \div 10
          /\ digits = [i \in 1 .. n |-> rest[n - i] % 10]
  BY <1>3, DigitsAre DEF unit
<1> HIDE DEF digits
<1>6. \A i \in 1 .. n : n - i \in 0 .. n /\ rest[n - i] \in Nat /\ rest[n - i] % 10 \in Nat
  BY <1>1
<1>7. digits \in [1 .. n -> Nat]
  BY <1>5, <1>6
<1>8. \A i \in 1 .. n :
          digits[i] = IF i <= Len(amount.fraction) THEN amount.fraction[i] ELSE 0
  BY <1>1, <1>4, <1>7, TrimmedIs
<1>9. PICK value \in [0 .. n -> Nat] :
          /\ value[0] = 0
          /\ \A i \in 1 .. n : value[i] = 10 * value[i - 1] + digits[i]
          /\ ParseZec(amount) = amount.whole * unit + value[n]
  BY <1>7, <1>8, ParsedIs DEF unit
<1> HIDE DEF n
<1> DEFINE S == {i \in 0 .. n : value[i] = rest[n - i]}
<1>10. 0 \in S
  BY <1>1, <1>5, <1>9
<1>11. ASSUME NEW i \in 1 .. n, i - 1 \in S PROVE i \in S
  <2>1. value[i - 1] = rest[n - (i - 1)]
    BY <1>11
  <2>2. n - (i - 1) \in 1 .. n /\ (n - (i - 1)) - 1 = n - i /\ i \in 0 .. n
    BY <1>1
  <2>3. rest[n - (i - 1)] = rest[n - i] \div 10
    BY <1>5, <2>2
  <2>4. digits[i] = rest[n - i] % 10 /\ rest[n - i] \in Nat
    BY <1>5, <1>6
  <2>5. value[i] = 10 * value[i - 1] + digits[i]
    BY <1>9
  <2>6. value[i] = rest[n - i]
    BY <2>1, <2>3, <2>4, <2>5
  <2> QED
    BY <2>2, <2>6
<1> HIDE DEF S
<1>12. \A i \in 0 .. n : i \in S
  BY <1>1, <1>10, <1>11, PositionInduction
<1>13. value[n] = rest[0]
  BY <1>1, <1>12 DEF S
<1> QED
  BY <1>3, <1>4, <1>5, <1>9, <1>13 DEF amount

-----------------------------------------------------------------------------
(* The first refusal that applies *)

(* A list that lets a request pass refuses nothing. *)
LEMMA FirstPass ==
    ASSUME NEW list, DOMAIN list \subseteq Nat, First(list) = "pass",
           \A i \in DOMAIN list : list[i].when => list[i].kind # "pass"
    PROVE  \A i \in DOMAIN list : ~list[i].when
<1> DEFINE hits == {i \in DOMAIN list : list[i].when}
<1>1. hits # {} => Min(hits) \in hits
  BY MinIsLeast
<1>2. hits = {}
  BY <1>1 DEF First
<1> QED
  BY <1>2

(* The answer is the word of a refusal that applies, and none before it does. *)
LEMMA FirstIsOne ==
    ASSUME NEW list, DOMAIN list \subseteq Nat
    PROVE  \/ First(list) = "pass" /\ \A i \in DOMAIN list : ~list[i].when
           \/ \E i \in DOMAIN list : /\ list[i].when /\ First(list) = list[i].kind
                                     /\ \A j \in DOMAIN list : list[j].when => i <= j
<1> DEFINE hits == {i \in DOMAIN list : list[i].when}
<1>1. hits # {} => Min(hits) \in hits /\ \A j \in hits : Min(hits) <= j
  BY MinIsLeast
<1>2. CASE hits = {}
  BY <1>2 DEF First
<1>3. CASE hits # {}
  <2>1. First(list) = list[Min(hits)].kind
    BY <1>3 DEF First
  <2> QED
    BY <1>1, <1>3, <2>1
<1> QED
  BY <1>2, <1>3

(* A refusal asked before a list goes first. *)
LEMMA FirstAfter ==
    ASSUME NEW S, NEW list \in Seq(S), NEW head, NEW both, both = << head >> \o list
    PROVE  First(both) = IF head.when THEN head.kind ELSE First(list)
<1>1. << head >> \in Seq(S \cup {head}) /\ list \in Seq(S \cup {head})
  BY SeqMonotonic
<1>2. /\ DOMAIN both = 1 .. Len(list) + 1 /\ Len(list) \in Nat /\ DOMAIN list = 1 .. Len(list)
      /\ both[1] = head
      /\ \A i \in 1 .. Len(list) : both[i + 1] = list[i]
  BY <1>1
<1>3. /\ DOMAIN both \subseteq Nat /\ DOMAIN list \subseteq Nat
  BY <1>2
<1>4. CASE head.when
  <2>1. 1 \in DOMAIN both /\ both[1].when
    BY <1>2, <1>4
  <2>2. PICK k \in DOMAIN both : /\ both[k].when /\ First(both) = both[k].kind
                                 /\ \A j \in DOMAIN both : both[j].when => k <= j
    BY <1>3, <2>1, FirstIsOne
  <2>3. k = 1
    BY <1>2, <2>1, <2>2
  <2> QED
    BY <1>2, <1>4, <2>2, <2>3
<1>5. CASE ~head.when
  <2>1. CASE First(list) = "pass" /\ \A i \in DOMAIN list : ~list[i].when
    <3>1. \A i \in DOMAIN both : ~both[i].when
      <4> TAKE i \in DOMAIN both
      <4>1. i = 1 \/ (i - 1 \in 1 .. Len(list) /\ both[i] = list[i - 1])
        BY <1>2
      <4> QED
        BY <4>1, <1>2, <1>5, <2>1
    <3> QED
      BY <1>3, <1>5, <2>1, <3>1, FirstIsOne
  <2>2. ASSUME NEW i \in DOMAIN list, list[i].when, First(list) = list[i].kind,
               \A j \in DOMAIN list : list[j].when => i <= j
        PROVE  First(both) = First(list)
    <3>1. i + 1 \in DOMAIN both /\ both[i + 1] = list[i]
      BY <1>2
    <3>2. PICK k \in DOMAIN both : /\ both[k].when /\ First(both) = both[k].kind
                                   /\ \A j \in DOMAIN both : both[j].when => k <= j
      BY <1>3, <2>2, <3>1, FirstIsOne
    <3>3. k <= i + 1 /\ k # 1
      BY <1>2, <1>5, <2>2, <3>1, <3>2
    <3>4. k - 1 \in DOMAIN list /\ both[k] = list[k - 1]
      BY <1>2, <3>3
    <3>5. i <= k - 1
      BY <2>2, <3>2, <3>4
    <3>6. k = i + 1
      BY <1>2, <3>3, <3>5
    <3> QED
      BY <2>2, <3>1, <3>2, <3>6
  <2> QED
    BY <1>3, <1>5, <2>1, <2>2, FirstIsOne
<1> QED
  BY <1>4, <1>5

-----------------------------------------------------------------------------
(* The walk over the outputs of a PCZT *)

Reasons == {"pass", "zcash_exact_pczt_not_verifiable", "zcash_exact_pay_to_mismatch",
            "zcash_exact_amount_mismatch"}
Sums == [reason : Reasons, sum : Nat]

(* An output that is not refused has a value and is for the owner of the     *)
(* address, whatever its label says.                                        *)
LEMMA UnrefusedOutput ==
    ASSUME NEW output, NEW payTo
    PROVE  /\ First(OutputRefusals(output, payTo)) \in Reasons
           /\ First(OutputRefusals(output, payTo)) = "pass" =>
                 output.to = payTo.owner /\ output.value # Missing
<1> DEFINE list == OutputRefusals(output, payTo)
<1>1. CASE output.pool = "transparent"
  <2>1. list = << Refusal(TRUE, "zcash_exact_pczt_not_verifiable") >>
    BY <1>1 DEF OutputRefusals
  <2>2. /\ DOMAIN list = 1 .. 1 /\ list[1].when
        /\ list[1].kind = "zcash_exact_pczt_not_verifiable"
    BY <2>1 DEF Refusal
  <2> HIDE DEF list
  <2>3. First(list) = "zcash_exact_pczt_not_verifiable"
    BY <2>2, FirstIsOne
  <2> QED
    BY <2>3 DEF Reasons, list
<1>2. CASE output.pool # "transparent"
  <2>1. list = << Refusal(output.label # payTo, "zcash_exact_pay_to_mismatch"),
                  Refusal(output.to = "omitted", "zcash_exact_pczt_not_verifiable"),
                  Refusal(output.value = Missing, "zcash_exact_amount_mismatch"),
                  Refusal(output.to = "garbled", "zcash_exact_pczt_not_verifiable"),
                  Refusal(~Corresponds(output, payTo), "zcash_exact_pay_to_mismatch") >>
    BY <1>2 DEF OutputRefusals
  <2>2. /\ DOMAIN list = 1 .. 5
        /\ list[3] = Refusal(output.value = Missing, "zcash_exact_amount_mismatch")
        /\ list[5] = Refusal(~Corresponds(output, payTo), "zcash_exact_pay_to_mismatch")
        /\ list[1].kind \in Reasons \ {"pass"} /\ list[2].kind \in Reasons \ {"pass"}
        /\ list[3].kind \in Reasons \ {"pass"} /\ list[4].kind \in Reasons \ {"pass"}
        /\ list[5].kind \in Reasons \ {"pass"}
    BY <2>1 DEF Refusal, Reasons
  <2> HIDE DEF list
  <2>3. \A i \in DOMAIN list : list[i].kind \in Reasons \ {"pass"}
    BY <2>2
  <2>4. DOMAIN list \subseteq Nat /\ 3 \in DOMAIN list /\ 5 \in DOMAIN list
    BY <2>2
  <2>5. First(list) \in Reasons
    BY <2>3, <2>4, FirstIsOne DEF Reasons
  <2>6. ASSUME First(list) = "pass" PROVE output.to = payTo.owner /\ output.value # Missing
    <3>1. \A i \in DOMAIN list : ~list[i].when
      BY <2>3, <2>4, <2>6, FirstPass
    <3>2. ~Refusal(output.value = Missing, "zcash_exact_amount_mismatch").when
      BY <2>2, <2>4, <3>1
    <3>3. ~Refusal(~Corresponds(output, payTo), "zcash_exact_pay_to_mismatch").when
      BY <2>2, <2>4, <3>1
    <3>4. output.value # Missing
      BY <3>2 DEF Refusal
    <3>5. Corresponds(output, payTo)
      BY <3>3 DEF Refusal
    <3> QED
      BY <3>4, <3>5 DEF Corresponds
  <2> QED
    BY <2>5, <2>6 DEF list
<1> QED
  BY <1>1, <1>2

LEMMA MatchOutputType ==
    ASSUME NEW before \in Sums, NEW output, NEW payTo,
           output.value \in (0 .. U64Max) \cup {Missing}
    PROVE  MatchOutput(before, output, payTo) \in Sums
<1> DEFINE reason == First(OutputRefusals(output, payTo))
<1>1. U64Max \in Nat
  BY X402ExactAssumption
<1>2. before.reason \in Reasons /\ before.sum \in Nat
  BY DEF Sums
<1>3. /\ reason \in Reasons
      /\ reason = "pass" => output.value # Missing
  BY UnrefusedOutput
<1> HIDE DEF reason
<1>4. CASE before.reason # "pass" \/ output.label = NoAddress
  BY <1>4 DEF MatchOutput
<1>5. CASE ~(before.reason # "pass" \/ output.label = NoAddress) /\ reason # "pass"
  <2>1. MatchOutput(before, output, payTo) = [reason |-> reason, sum |-> 0]
    BY <1>5 DEF MatchOutput, reason
  <2> QED
    BY <1>3, <2>1 DEF Sums
<1>6. CASE ~(before.reason # "pass" \/ output.label = NoAddress) /\ reason = "pass"
  <2>1. MatchOutput(before, output, payTo) = AddMatchedAmountZat(before.sum, output.value)
    BY <1>6 DEF MatchOutput, reason
  <2>2. output.value \in Nat
    BY <1>1, <1>3, <1>6
  <2> DEFINE total == before.sum + output.value
  <2>3. total \in Nat
    BY <1>2, <2>2
  <2> HIDE DEF total
  <2>4. AddMatchedAmountZat(before.sum, output.value)
            \in {[reason |-> "zcash_exact_amount_mismatch", sum |-> before.sum],
                 [reason |-> "pass", sum |-> total]}
    BY DEF AddMatchedAmountZat, total
  <2> QED
    BY <1>2, <2>1, <2>3, <2>4 DEF Sums, Reasons
<1> QED
  BY <1>4, <1>5, <1>6

(* The walk of matched_pczt_amount_zat is a walk: its definition by recursion *)
(* has a solution, and the amount is its last value.                         *)
LEMMA WalkIs ==
    ASSUME NEW pczt, IsPczt(pczt), NEW network, NEW payTo,
           payTo.network = network, payTo.kind # "undecodable"
    PROVE  \E walk \in [0 .. Len(pczt.outputs) -> Sums] :
              /\ walk[0] = [reason |-> "pass", sum |-> 0]
              /\ \A i \in 1 .. Len(pczt.outputs) :
                    walk[i] = MatchOutput(walk[i - 1], pczt.outputs[i], payTo)
              /\ MatchedPcztAmountZat(pczt, network, payTo) = walk[Len(pczt.outputs)]
<1> DEFINE outputs == pczt.outputs
           n == Len(outputs)
           start == [reason |-> "pass", sum |-> 0]
           F(w) == [i \in 0 .. n |-> IF i = 0 THEN start
                                     ELSE MatchOutput(w[i - 1], outputs[i], payTo)]
           g == [i \in 1 .. n |-> [before \in Sums |-> MatchOutput(before, outputs[i], payTo)]]
           W == CHOOSE w : w = F(w)
<1>1. n \in Nat /\ DOMAIN outputs = 1 .. n
  BY DEF IsPczt, IsSequence
<1>2. \A i \in 1 .. n : outputs[i].value \in (0 .. U64Max) \cup {Missing}
  BY <1>1 DEF IsPczt
<1>3. start \in Sums
  BY DEF Sums, Reasons
<1>4. MatchedPcztAmountZat(pczt, network, payTo) = W[n]
  BY DEF MatchedPcztAmountZat
<1> HIDE DEF start, n, outputs
<1>5. g \in Steps(n, Sums)
  BY <1>2, MatchOutputType DEF Steps
<1> HIDE DEF g
<1>5a. PICK f : LeadsTo(n, Sums, start, g, f)
  BY <1>1, <1>3, <1>5, RecursionExists
<1>6. /\ f \in [0 .. n -> Sums] /\ f[0] = start
      /\ \A i \in 1 .. n : f[i] = g[i][f[i - 1]]
  BY <1>5a DEF LeadsTo
<1>7. \A i \in 1 .. n : f[i] = MatchOutput(f[i - 1], outputs[i], payTo)
  <2> TAKE i \in 1 .. n
  <2>1. i - 1 \in 0 .. n /\ f[i - 1] \in Sums
    BY <1>1, <1>6
  <2> QED
    BY <1>6, <2>1 DEF g
<1>8. f = F(f)
  BY <1>1, <1>6, <1>7
<1>9. W = F(W)
  BY <1>8
<1> HIDE DEF W
<1>10. W[0] = start /\ \A i \in 1 .. n : W[i] = MatchOutput(W[i - 1], outputs[i], payTo)
  BY <1>1, <1>9
<1>11. \A i \in 0 .. n : i \in {j \in 0 .. n : W[j] = f[j]}
  <2> DEFINE S == {j \in 0 .. n : W[j] = f[j]}
  <2>1. 0 \in S
    BY <1>1, <1>6, <1>10
  <2>2. ASSUME NEW i \in 1 .. n, i - 1 \in S PROVE i \in S
    BY <1>1, <1>7, <1>10, <2>2
  <2> HIDE DEF S
  <2>3. \A i \in 0 .. n : i \in S
    BY <1>1, <2>1, <2>2, PositionInduction
  <2> QED
    BY <2>3 DEF S
<1>12. f[n] = W[n]
  BY <1>1, <1>11
<1> QED
  BY <1>4, <1>6, <1>7, <1>12 DEF start, n, outputs

-----------------------------------------------------------------------------
(* What a transaction pays *)

LEMMA PaidByType ==
    ASSUME NEW output, NEW owner, output.value \in (0 .. U64Max) \cup {Missing}
    PROVE  PaidBy(output, owner) \in Nat
<1>1. U64Max \in Nat
  BY X402ExactAssumption
<1> QED
  BY <1>1 DEF PaidBy

(* The sum of what the outputs pay exists. *)
LEMMA PaidIs ==
    ASSUME NEW tx, IsPczt(tx), NEW owner
    PROVE  \E paid \in [0 .. Len(tx.outputs) -> Nat] :
              /\ paid[0] = 0
              /\ \A i \in 1 .. Len(tx.outputs) :
                    paid[i] = paid[i - 1] + PaidBy(tx.outputs[i], owner)
              /\ PaidTo(tx, owner) = paid[Len(tx.outputs)]
<1> DEFINE outputs == tx.outputs
           n == Len(outputs)
           F(w) == [i \in 0 .. n |-> IF i = 0 THEN 0 ELSE w[i - 1] + PaidBy(outputs[i], owner)]
           g == [i \in 1 .. n |-> [before \in Nat |-> before + PaidBy(outputs[i], owner)]]
           W == CHOOSE w : w = F(w)
<1>1. n \in Nat /\ DOMAIN outputs = 1 .. n
  BY DEF IsPczt, IsSequence
<1>2. \A i \in 1 .. n : PaidBy(outputs[i], owner) \in Nat
  BY <1>1, PaidByType DEF IsPczt
<1>3. PaidTo(tx, owner) = W[n]
  BY DEF PaidTo
<1> HIDE DEF n, outputs
<1>4. g \in Steps(n, Nat)
  BY <1>2 DEF Steps
<1> HIDE DEF g
<1>5. PICK f : LeadsTo(n, Nat, 0, g, f)
  BY <1>1, <1>4, RecursionExists
<1>6. f \in [0 .. n -> Nat] /\ f[0] = 0 /\ \A i \in 1 .. n : f[i] = g[i][f[i - 1]]
  BY <1>5 DEF LeadsTo
<1>7. \A i \in 1 .. n : f[i] = f[i - 1] + PaidBy(outputs[i], owner)
  <2> TAKE i \in 1 .. n
  <2>1. i - 1 \in 0 .. n /\ f[i - 1] \in Nat
    BY <1>1, <1>6
  <2> QED
    BY <1>6, <2>1 DEF g
<1>8. f = F(f)
  BY <1>1, <1>6, <1>7
<1>9. W = F(W)
  BY <1>8
<1> HIDE DEF W
<1>10. W[0] = 0 /\ \A i \in 1 .. n : W[i] = W[i - 1] + PaidBy(outputs[i], owner)
  BY <1>1, <1>9
<1> DEFINE S == {j \in 0 .. n : W[j] = f[j]}
<1>11. 0 \in S
  BY <1>1, <1>6, <1>10
<1>12. ASSUME NEW i \in 1 .. n, i - 1 \in S PROVE i \in S
  BY <1>1, <1>7, <1>10, <1>12
<1> HIDE DEF S
<1>13. \A i \in 0 .. n : i \in S
  BY <1>1, <1>11, <1>12, PositionInduction
<1>14. f[n] = W[n]
  BY <1>1, <1>13 DEF S
<1> QED
  BY <1>3, <1>6, <1>7, <1>14 DEF n, outputs

(* A match that is not refused adds no more than what the output pays. *)
LEMMA MatchOutputPass ==
    ASSUME NEW before \in Sums, NEW output, NEW payTo,
           output.value \in (0 .. U64Max) \cup {Missing},
           MatchOutput(before, output, payTo).reason = "pass"
    PROVE  /\ before.reason = "pass"
           /\ MatchOutput(before, output, payTo).sum <= before.sum + PaidBy(output, payTo.owner)
<1> DEFINE reason == First(OutputRefusals(output, payTo))
<1>1. PaidBy(output, payTo.owner) \in Nat /\ before.sum \in Nat
  BY PaidByType DEF Sums
<1>2. reason = "pass" => output.to = payTo.owner /\ output.value # Missing
  BY UnrefusedOutput
<1> HIDE DEF reason
<1>3. CASE before.reason # "pass" \/ output.label = NoAddress
  <2>1. MatchOutput(before, output, payTo) = before
    BY <1>3 DEF MatchOutput
  <2> QED
    BY <1>1, <2>1
<1>4. CASE ~(before.reason # "pass" \/ output.label = NoAddress) /\ reason # "pass"
  <2>1. MatchOutput(before, output, payTo) = [reason |-> reason, sum |-> 0]
    BY <1>4 DEF MatchOutput, reason
  <2> QED
    BY <1>4, <2>1
<1>5. CASE ~(before.reason # "pass" \/ output.label = NoAddress) /\ reason = "pass"
  <2>1. MatchOutput(before, output, payTo) = AddMatchedAmountZat(before.sum, output.value)
    BY <1>5 DEF MatchOutput, reason
  <2>2. AddMatchedAmountZat(before.sum, output.value).reason = "pass"
    BY <2>1
  <2>3. AddMatchedAmountZat(before.sum, output.value).sum = before.sum + output.value
    BY <2>2 DEF AddMatchedAmountZat
  <2>4. PaidBy(output, payTo.owner) = output.value
    BY <1>2, <1>5 DEF PaidBy
  <2> QED
    BY <1>1, <1>5, <2>1, <2>3, <2>4
<1> QED
  BY <1>3, <1>4, <1>5

(* What matched_pczt_amount_zat matches is paid to the owner of the address. *)
LEMMA MatchedIsPaid ==
    ASSUME NEW pczt, IsPczt(pczt), NEW network, NEW payTo,
           MatchedPcztAmountZat(pczt, network, payTo).reason = "pass"
    PROVE  /\ MatchedPcztAmountZat(pczt, network, payTo).sum \in Nat
           /\ PaidTo(Extracted(pczt), payTo.owner) \in Nat
           /\ PaidTo(Extracted(pczt), payTo.owner)
                 >= MatchedPcztAmountZat(pczt, network, payTo).sum
<1> DEFINE outputs == pczt.outputs
           n == Len(outputs)
           tx == Extracted(pczt)
<1>1. payTo.network = network /\ payTo.kind # "undecodable"
  BY DEF MatchedPcztAmountZat
<1>2. tx.outputs = outputs
  BY DEF Extracted
<1>3. IsPczt(tx)
  BY <1>2 DEF IsPczt
<1>4. n \in Nat /\ \A i \in 1 .. n : outputs[i].value \in (0 .. U64Max) \cup {Missing}
  BY DEF IsPczt, IsSequence
<1>5. PICK walk \in [0 .. n -> Sums] :
          /\ walk[0] = [reason |-> "pass", sum |-> 0]
          /\ \A i \in 1 .. n : walk[i] = MatchOutput(walk[i - 1], outputs[i], payTo)
          /\ MatchedPcztAmountZat(pczt, network, payTo) = walk[n]
  BY <1>1, WalkIs
<1> HIDE DEF tx
<1>5a. PICK paid \in [0 .. Len(tx.outputs) -> Nat] :
          /\ paid[0] = 0
          /\ \A i \in 1 .. Len(tx.outputs) :
                paid[i] = paid[i - 1] + PaidBy(tx.outputs[i], payTo.owner)
          /\ PaidTo(tx, payTo.owner) = paid[Len(tx.outputs)]
  BY <1>3, PaidIs
<1>6. /\ paid \in [0 .. n -> Nat] /\ paid[0] = 0
      /\ \A i \in 1 .. n : paid[i] = paid[i - 1] + PaidBy(outputs[i], payTo.owner)
      /\ PaidTo(tx, payTo.owner) = paid[n]
  BY <1>2, <1>5a
<1> HIDE DEF n, outputs
<1> DEFINE S == {i \in 0 .. n : walk[i].reason = "pass" => walk[i].sum <= paid[i]}
<1>7. 0 \in S
  BY <1>4, <1>5, <1>6
<1>8. ASSUME NEW i \in 1 .. n, i - 1 \in S PROVE i \in S
  <2>1. /\ walk[i - 1] \in Sums /\ paid[i - 1] \in Nat /\ i \in 0 .. n
        /\ outputs[i].value \in (0 .. U64Max) \cup {Missing}
    BY <1>4
  <2>2. walk[i] = MatchOutput(walk[i - 1], outputs[i], payTo)
    BY <1>5
  <2>3. ASSUME walk[i].reason = "pass" PROVE walk[i].sum <= paid[i]
    <3>1. /\ walk[i - 1].reason = "pass"
          /\ walk[i].sum <= walk[i - 1].sum + PaidBy(outputs[i], payTo.owner)
      BY <2>1, <2>2, <2>3, MatchOutputPass
    <3>2. walk[i - 1].sum <= paid[i - 1]
      BY <1>8, <3>1
    <3>3. /\ walk[i] \in Sums /\ walk[i].sum \in Nat /\ walk[i - 1].sum \in Nat
          /\ PaidBy(outputs[i], payTo.owner) \in Nat
      BY <2>1, PaidByType DEF Sums
    <3>4. paid[i] = paid[i - 1] + PaidBy(outputs[i], payTo.owner)
      BY <1>6
    <3> QED
      BY <2>1, <3>1, <3>2, <3>3, <3>4
  <2> QED
    BY <2>1, <2>3
<1> HIDE DEF S
<1>9. \A i \in 0 .. n : i \in S
  BY <1>4, <1>7, <1>8, PositionInduction
<1>10. n \in 0 .. n
  BY <1>4
<1>11. walk[n].reason = "pass" /\ walk[n].sum \in Nat /\ paid[n] \in Nat
  BY <1>5, <1>6, <1>10 DEF Sums
<1>12. walk[n].sum <= paid[n]
  BY <1>9, <1>10, <1>11 DEF S
<1> QED
  BY <1>5, <1>6, <1>11, <1>12 DEF tx

-----------------------------------------------------------------------------
(* What a disclosure recovers *)

(* A transaction whose outputs all say what they send. *)
IsTransaction(tx) ==
    IsPczt(tx) /\ \A i \in DOMAIN tx.outputs : tx.outputs[i].value # Missing

LEMMA AddDisclosedIs ==
    ASSUME NEW before \in Sums, NEW output, output.value \in Nat
    PROVE  /\ AddDisclosed(before, output) \in Sums
           /\ AddDisclosed(before, output).reason = "pass" =>
                 /\ before.reason = "pass"
                 /\ AddDisclosed(before, output).sum = before.sum + output.value
<1>1. before.sum \in Nat
  BY DEF Sums
<1>2. CASE before.reason # "pass"
  BY <1>2 DEF AddDisclosed
<1>3. CASE before.reason = "pass"
  <2> DEFINE total == before.sum + output.value
  <2>1. total \in Nat
    BY <1>1
  <2> HIDE DEF total
  <2>2. AddDisclosed(before, output)
            \in {[reason |-> "zcash_exact_amount_mismatch", sum |-> before.sum],
                 [reason |-> "pass", sum |-> total]}
    BY <1>3 DEF AddDisclosed, AddMatchedAmountZat, total
  <2>3. /\ AddDisclosed(before, output) \in Sums
        /\ AddDisclosed(before, output).reason = "pass" =>
              AddDisclosed(before, output).sum = total
    BY <1>1, <2>1, <2>2 DEF Sums, Reasons
  <2> QED
    BY <1>3, <2>3 DEF total
<1> QED
  BY <1>2, <1>3

(* The sum of compute_payment_reconciliation exists. *)
LEMMA DisclosedIs ==
    ASSUME NEW d, IsTransaction(d.tx)
    PROVE  \E sum \in [0 .. Len(d.tx.outputs) -> Sums] :
              /\ sum[0] = [reason |-> "pass", sum |-> 0]
              /\ \A i \in 1 .. Len(d.tx.outputs) :
                    sum[i] = IF i \notin Recovered(d) THEN sum[i - 1]
                             ELSE AddDisclosed(sum[i - 1], d.tx.outputs[i])
              /\ DisclosedValueZat(d) = sum[Len(d.tx.outputs)]
<1> DEFINE outputs == d.tx.outputs
           n == Len(outputs)
           start == [reason |-> "pass", sum |-> 0]
           Step(i, before) == IF i \notin Recovered(d) THEN before
                              ELSE AddDisclosed(before, outputs[i])
           F(w) == [i \in 0 .. n |-> IF i = 0 THEN start
                                     ELSE IF i \notin Recovered(d) THEN w[i - 1]
                                     ELSE AddDisclosed(w[i - 1], outputs[i])]
           g == [i \in 1 .. n |-> [before \in Sums |-> Step(i, before)]]
           W == CHOOSE w : w = F(w)
<1>1. n \in Nat /\ DOMAIN outputs = 1 .. n
  BY DEF IsTransaction, IsPczt, IsSequence
<1>2. \A i \in 1 .. n : outputs[i].value \in Nat
  BY <1>1, X402ExactAssumption DEF IsTransaction, IsPczt
<1>3. start \in Sums
  BY DEF Sums, Reasons
<1>4. DisclosedValueZat(d) = W[n]
  BY DEF DisclosedValueZat
<1> HIDE DEF start, n, outputs
<1>5. g \in Steps(n, Sums)
  BY <1>2, AddDisclosedIs DEF Steps
<1> HIDE DEF g
<1>6. PICK f : LeadsTo(n, Sums, start, g, f)
  BY <1>1, <1>3, <1>5, RecursionExists
<1>7. f \in [0 .. n -> Sums] /\ f[0] = start /\ \A i \in 1 .. n : f[i] = g[i][f[i - 1]]
  BY <1>6 DEF LeadsTo
<1>8. \A i \in 1 .. n : f[i] = Step(i, f[i - 1])
  <2> TAKE i \in 1 .. n
  <2>1. i - 1 \in 0 .. n /\ f[i - 1] \in Sums
    BY <1>1, <1>7
  <2> QED
    BY <1>7, <2>1 DEF g
<1>9. f = F(f)
  BY <1>1, <1>7, <1>8
<1>10. W = F(W)
  BY <1>9
<1> HIDE DEF W
<1>11. W[0] = start /\ \A i \in 1 .. n : W[i] = Step(i, W[i - 1])
  BY <1>1, <1>10
<1> DEFINE S == {j \in 0 .. n : W[j] = f[j]}
<1>12. 0 \in S
  BY <1>1, <1>7, <1>11
<1>13. ASSUME NEW i \in 1 .. n, i - 1 \in S PROVE i \in S
  BY <1>1, <1>8, <1>11, <1>13
<1> HIDE DEF S
<1>14. \A i \in 0 .. n : i \in S
  BY <1>1, <1>12, <1>13, PositionInduction
<1>15. f[n] = W[n]
  BY <1>1, <1>14 DEF S
<1> QED
  BY <1>4, <1>7, <1>8, <1>15 DEF start, n, outputs

(* When every recovered output is for the owner, what was disclosed is paid   *)
(* to the owner.                                                             *)
LEMMA DisclosedIsPaid ==
    ASSUME NEW d, IsTransaction(d.tx), NEW payTo, RecipientMatches(d, payTo),
           DisclosedValueZat(d).reason = "pass"
    PROVE  PaidTo(d.tx, payTo.owner) >= DisclosedValueZat(d).sum
<1> DEFINE outputs == d.tx.outputs
           n == Len(outputs)
<1>1. n \in Nat /\ DOMAIN outputs = 1 .. n
  BY DEF IsTransaction, IsPczt, IsSequence
<1>2. /\ \A i \in 1 .. n : outputs[i].value \in Nat /\ outputs[i].value # Missing
      /\ \A i \in 1 .. n : outputs[i].value \in (0 .. U64Max) \cup {Missing}
  BY <1>1, X402ExactAssumption DEF IsTransaction, IsPczt
<1>3. PICK sum \in [0 .. n -> Sums] :
          /\ sum[0] = [reason |-> "pass", sum |-> 0]
          /\ \A i \in 1 .. n : sum[i] = IF i \notin Recovered(d) THEN sum[i - 1]
                                        ELSE AddDisclosed(sum[i - 1], outputs[i])
          /\ DisclosedValueZat(d) = sum[n]
  BY DisclosedIs
<1>4. PICK paid \in [0 .. n -> Nat] :
          /\ paid[0] = 0
          /\ \A i \in 1 .. n : paid[i] = paid[i - 1] + PaidBy(outputs[i], payTo.owner)
          /\ PaidTo(d.tx, payTo.owner) = paid[n]
  BY PaidIs DEF IsTransaction
<1> HIDE DEF n
<1> DEFINE S == {i \in 0 .. n : sum[i].reason = "pass" => sum[i].sum <= paid[i]}
<1>5. 0 \in S
  BY <1>1, <1>3, <1>4
<1>6. ASSUME NEW i \in 1 .. n, i - 1 \in S PROVE i \in S
  <2>0. i \in 0 .. n /\ i - 1 \in 0 .. n
    BY <1>1
  <2>0a. sum[i - 1] \in Sums /\ paid[i - 1] \in Nat /\ outputs[i].value \in Nat
    BY <1>2, <2>0
  <2>0b. PaidBy(outputs[i], payTo.owner) \in Nat
    BY <1>2, PaidByType
  <2>1. /\ sum[i - 1] \in Sums /\ sum[i - 1].sum \in Nat /\ paid[i - 1] \in Nat /\ i \in 0 .. n
        /\ outputs[i].value \in Nat /\ PaidBy(outputs[i], payTo.owner) \in Nat
    BY <2>0, <2>0a, <2>0b DEF Sums
  <2>2. paid[i] = paid[i - 1] + PaidBy(outputs[i], payTo.owner)
    BY <1>4
  <2>3. sum[i - 1].reason = "pass" => sum[i - 1].sum <= paid[i - 1]
    BY <1>6
  <2>4. CASE i \notin Recovered(d)
    <3>1. sum[i] = sum[i - 1]
      BY <1>3, <2>4
    <3> QED
      BY <2>1, <2>2, <2>3, <3>1
  <2>5. CASE i \in Recovered(d)
    <3>1. sum[i] = AddDisclosed(sum[i - 1], outputs[i])
      BY <1>3, <2>5
    <3>2. outputs[i].to = payTo.owner
      BY <2>5 DEF RecipientMatches
    <3>3. PaidBy(outputs[i], payTo.owner) = outputs[i].value
      BY <1>2, <3>2 DEF PaidBy
    <3>4. sum[i].reason = "pass" =>
             sum[i - 1].reason = "pass" /\ sum[i].sum = sum[i - 1].sum + outputs[i].value
      BY <2>1, <3>1, AddDisclosedIs
    <3> QED
      BY <2>1, <2>2, <2>3, <3>3, <3>4
  <2> QED
    BY <2>4, <2>5
<1> HIDE DEF S
<1>7. \A i \in 0 .. n : i \in S
  BY <1>1, <1>5, <1>6, PositionInduction
<1>8. n \in 0 .. n
  BY <1>1
<1>9. sum[n].reason = "pass" /\ sum[n].sum \in Nat /\ paid[n] \in Nat
  BY <1>3, <1>8 DEF Sums
<1>10. sum[n].sum <= paid[n]
  BY <1>7, <1>8, <1>9 DEF S
<1> QED
  BY <1>3, <1>4, <1>9, <1>10

-----------------------------------------------------------------------------
(* Offers, and what is settled under them *)

IssuedIn(list) == {i \in DOMAIN Payments : i <= Len(list)}

(* A payment id names one offer. *)
LEMMA OfferAt ==
    ASSUME NEW list, NEW j \in IssuedIn(list)
    PROVE  list[CHOOSE i \in IssuedIn(list) : Payments[i] = Payments[j]] = list[j]
<1> DEFINE k == CHOOSE i \in IssuedIn(list) : Payments[i] = Payments[j]
<1>1. k \in IssuedIn(list) /\ Payments[k] = Payments[j]
  OBVIOUS
<1>2. k = j
  BY <1>1, FrontDoorAssumption DEF IssuedIn
<1> QED
  BY <1>2

(* The settlement of one payment is what SettledPaysThePayee says of it. *)
PaysThePayee(s) ==
    /\ PaidTo(s.tx, Offer(s.payment).to.owner) >= Offer(s.payment).amount
    /\ s.tx.expiry = Offer(s.payment).expiry
    /\ Offer(s.payment).network = ChainNetwork

SettlementsPay ==
    \A s \in settlements : s.route = "x402" => s.payment \in IssuedIds /\ PaysThePayee(s)

OffersInOrder == IsSequence(offers) /\ Len(offers) <= Len(Payments)

(* What propose makes of an entry of the registry. *)
Composed(offer) ==
    /\ offer.uri = ComposePaymentUri(offer.to, offer.amount, offer.memo)
    /\ offer.amount \in 0 .. U64Max
    /\ offer.to.owner \notin {"omitted", "garbled"}
    /\ offer.to.kind = "unified" =>
          "sapling" \in offer.to.receivers \/ "orchard" \in offer.to.receivers

OffersComposed == \A i \in 1 .. Len(offers) : Composed(offers[i])

FrontInv ==
    /\ OffersInOrder /\ OffersComposed /\ prepared \subseteq IssuedIds /\ SettlementsPay
    /\ VerifyAndSettleAgree /\ DisclosureProvesPayment /\ HonestPaymentSettles

LEMMA PaymentsAreListed ==
    Len(Payments) \in Nat /\ DOMAIN Payments = 1 .. Len(Payments)
<1>1. IsSequence(Payments)
  BY FrontDoorAssumption
<1> QED
  BY <1>1 DEF IsSequence

LEMMA PaymentNames ==
    ASSUME NEW i \in DOMAIN Payments
    PROVE  Payments[i] \notin {"", "none", "unparseable"}
<1>1. {"", "none", "unparseable"} \cap {Payments[j] : j \in DOMAIN Payments} = {}
  BY FrontDoorAssumption
<1> QED
  BY <1>1

(* What is appended to a sequence comes after what was there. *)
Extends(new, old) ==
    /\ IsSequence(new) /\ Len(old) \in Nat /\ Len(new) = Len(old) + 1
    /\ \A i \in 1 .. Len(old) : new[i] = old[i]

LEMMA SequenceIs ==
    ASSUME NEW s, NEW S, s \in Seq(S)
    PROVE  IsSequence(s)
<1> DEFINE T == {s[i] : i \in DOMAIN s}
<1>1. Len(s) \in Nat /\ s \in [1 .. Len(s) -> S] /\ DOMAIN s = 1 .. Len(s)
  BY LenProperties
<1>2. \A i \in 1 .. Len(s) : s[i] \in T
  BY <1>1
<1> HIDE DEF T
<1>3. s \in [1 .. Len(s) -> T]
  BY <1>1, <1>2
<1>4. s \in Seq(T)
  BY <1>1, <1>3, SeqDef
<1> QED
  BY <1>4 DEF IsSequence, T

LEMMA AppendExtends ==
    ASSUME NEW old, IsSequence(old), NEW x
    PROVE  Extends(Append(old, x), old) /\ Append(old, x)[Len(old) + 1] = x
<1> DEFINE S == {old[i] : i \in DOMAIN old} \cup {x}
<1>1. old \in Seq({old[i] : i \in DOMAIN old})
  BY DEF IsSequence
<1>2. old \in Seq(S) /\ x \in S
  BY <1>1, SeqMonotonic
<1> HIDE DEF S
<1>3. /\ Append(old, x) \in Seq(S) /\ Len(old) \in Nat
      /\ Len(Append(old, x)) = Len(old) + 1
      /\ \A i \in 1 .. Len(old) : Append(old, x)[i] = old[i]
      /\ Append(old, x)[Len(old) + 1] = x
  BY <1>2, AppendProperties
<1>4. IsSequence(Append(old, x))
  BY <1>3, SequenceIs
<1> QED
  BY <1>3, <1>4 DEF Extends

(* The next offer leaves the ones before it where they are. *)
LEMMA NextOffer ==
    ASSUME OffersInOrder, Extends(offers', offers), Len(offers) < Len(Payments)
    PROVE  /\ OffersInOrder' /\ IssuedIds \subseteq IssuedIds'
           /\ Payments[Len(offers) + 1] \in IssuedIds'
           /\ \A p \in IssuedIds : Offer(p)' = Offer(p)
<1>3. /\ IsSequence(offers') /\ Len(offers) \in Nat /\ Len(offers') = Len(offers) + 1
      /\ \A i \in 1 .. Len(offers) : offers'[i] = offers[i]
  BY DEF Extends
<1>5. OffersInOrder'
  BY <1>3, PaymentsAreListed DEF OffersInOrder, IsSequence
<1>6. \A i \in DOMAIN Payments : i <= Len(offers) => i <= Len(offers')
  BY <1>3, PaymentsAreListed
<1>7. IssuedIds \subseteq IssuedIds'
  BY <1>6 DEF IssuedIds, Issued
<1>8. Len(offers) + 1 \in DOMAIN Payments /\ Len(offers) + 1 <= Len(offers')
  BY <1>3, PaymentsAreListed
<1>9. Payments[Len(offers) + 1] \in IssuedIds'
  BY <1>8 DEF IssuedIds, Issued
<1>10. ASSUME NEW p \in IssuedIds PROVE Offer(p)' = Offer(p)
  <2>1. PICK j \in DOMAIN Payments : j <= Len(offers) /\ p = Payments[j]
    BY DEF IssuedIds, Issued
  <2>2. j \in IssuedIn(offers) /\ j \in IssuedIn(offers') /\ offers'[j] = offers[j]
    BY <1>3, <1>6, <2>1, PaymentsAreListed DEF IssuedIn
  <2>3. Offer(p) = offers[j]
    BY <2>1, <2>2, OfferAt DEF Offer, Issued, IssuedIn
  <2>4. Offer(p)' = offers'[j]
    BY <2>1, <2>2, OfferAt DEF Offer, Issued, IssuedIn
  <2> QED
    BY <2>2, <2>3, <2>4
<1> QED
  BY <1>5, <1>7, <1>9, <1>10

-----------------------------------------------------------------------------
(* What /x402/v2/settle asks before it broadcasts *)

LEMMA RequestList ==
    ASSUME NEW req
    PROVE  \E S : RequestRefusals(req) \in Seq(S)
<1> DEFINE a == << Refusal(req.version # X402Version \/ req.payload.version # X402Version,
                           "x402_version_unsupported"),
                   Refusal(req.payload.accepted # req.requirements, "payment_requirements_mismatch"),
                   Refusal(~IsZcashExactRequest(req), "scheme_network_not_supported"),
                   Refusal(req.requirements.payment = "unparseable", "zpay_payment_id_invalid") >>
           b == RequirementsRefusals(req.requirements)
           c == AuthorizationRefusals(req.payload)
           S == {a[1], a[2], a[3], a[4], b[1], b[2], b[3], b[4], b[5], c[1], c[2], c[3]}
<1>1. RequestRefusals(req) = (a \o b) \o c
  BY DEF RequestRefusals
<1>2. a \in Seq(S)
  OBVIOUS
<1>3. b \in Seq(S)
  BY DEF RequirementsRefusals
<1>4. c \in Seq(S)
  BY DEF AuthorizationRefusals
<1> HIDE DEF a, b, c, S
<1>5. (a \o b) \o c \in Seq(S)
  BY <1>2, <1>3, <1>4, ConcatProperties
<1> QED
  BY <1>1, <1>5

(* The limiter goes first, then the checks /verify makes. *)
LEMMA EarlyIs ==
    ASSUME NEW req, NEW limited \in BOOLEAN
    PROVE  First(<< Refusal(limited, "rate_limited") >> \o RequestRefusals(req)) =
              IF limited THEN "rate_limited" ELSE X402RequestInvalidReason(req)
<1> DEFINE head == Refusal(limited, "rate_limited")
           list == RequestRefusals(req)
<1>1. PICK S : list \in Seq(S)
  BY RequestList
<1>2. head.when = limited /\ head.kind = "rate_limited"
  BY DEF Refusal
<1> HIDE DEF head, list
<1>3. First(<< head >> \o list) = IF head.when THEN head.kind ELSE First(list)
  BY <1>1, FirstAfter
<1> QED
  BY <1>2, <1>3 DEF X402RequestInvalidReason, head, list

(* find_prepared_x402_settlement refuses about the row only; what it lets    *)
(* pass under a payment id is what that payment was offered for.            *)
LEMMA FoundIs ==
    ASSUME NEW req, NEW storeUp \in BOOLEAN
    PROVE  /\ First(FindPreparedRefusals(req, storeUp)) \in AboutTheRow \cup {"pass"}
           /\ (/\ First(FindPreparedRefusals(req, storeUp)) = "pass"
               /\ req.requirements.payment # "none") =>
                 /\ req.requirements.payment \in prepared
                 /\ Offer(req.requirements.payment).network = req.requirements.network
                 /\ Offer(req.requirements.payment).amount = req.requirements.amount
                 /\ Offer(req.requirements.payment).to = req.requirements.payTo
<1> DEFINE r == req.requirements
           list == FindPreparedRefusals(req, storeUp)
           offer == Offer(r.payment)
           down == Refusal(~storeUp, "zpay_payment_store_unavailable")
           gone == Refusal(r.payment \notin prepared, "zpay_payment_not_prepared")
           other == Refusal(\/ offer.network # r.network \/ offer.amount # r.amount
                            \/ offer.to # r.payTo, "zpay_payment_requirements_mismatch")
<1>1. CASE r.payment = "none"
  <2>1. list = <<>>
    BY <1>1 DEF FindPreparedRefusals
  <2>2. DOMAIN list = {}
    BY <2>1
  <2>3. First(list) = "pass"
    BY <2>2 DEF First
  <2> QED
    BY <1>1, <2>3
<1>2. CASE r.payment # "none" /\ r.payment \notin prepared
  <2>1. list = << down, gone >> \o <<>>
    BY <1>2 DEF FindPreparedRefusals
  <2>2. /\ down.kind \in AboutTheRow /\ gone.kind \in AboutTheRow
        /\ gone.when <=> (r.payment \notin prepared)
    BY DEF Refusal, AboutTheRow
  <2> HIDE DEF down, gone, list
  <2>3. DOMAIN list = 1 .. 2 /\ list[1] = down /\ list[2] = gone
    BY <2>1
  <2>4. list[2].when /\ DOMAIN list \subseteq Nat /\ \A i \in DOMAIN list : list[i].kind \in AboutTheRow
    BY <1>2, <2>2, <2>3
  <2>5. First(list) \in AboutTheRow
    BY <2>3, <2>4, FirstIsOne
  <2> QED
    BY <2>5 DEF AboutTheRow, list
<1>3. CASE r.payment # "none" /\ r.payment \in prepared
  <2>1. list = << down, gone >> \o << other >>
    BY <1>3 DEF FindPreparedRefusals
  <2>2. /\ down.kind \in AboutTheRow /\ gone.kind \in AboutTheRow /\ other.kind \in AboutTheRow
        /\ other.when <=> (\/ offer.network # r.network \/ offer.amount # r.amount
                           \/ offer.to # r.payTo)
    BY DEF Refusal, AboutTheRow
  <2> HIDE DEF down, gone, other, list, offer
  <2>3. DOMAIN list = 1 .. 3 /\ list[1] = down /\ list[2] = gone /\ list[3] = other
    BY <2>1
  <2>4. DOMAIN list \subseteq Nat /\ \A i \in DOMAIN list : list[i].kind \in AboutTheRow
    BY <2>2, <2>3
  <2>5. First(list) \in AboutTheRow \cup {"pass"}
    BY <2>4, FirstIsOne
  <2>6. ASSUME First(list) = "pass"
        PROVE  offer.network = r.network /\ offer.amount = r.amount /\ offer.to = r.payTo
    <3>1. \A i \in DOMAIN list : ~list[i].when
      BY <2>4, <2>6, FirstPass DEF AboutTheRow
    <3>2. ~other.when
      BY <2>3, <3>1
    <3> QED
      BY <2>2, <3>2
  <2> QED
    BY <1>3, <2>5, <2>6 DEF list, offer
<1> QED
  BY <1>1, <1>2, <1>3

LEMMA BroadcastIs ==
    ASSUME NEW req
    PROVE  /\ First(BroadcastRefusals(req)) \in
                 {"pass", "zpay_payment_expiry_mismatch", "zcash_exact_network_mismatch"}
           /\ First(BroadcastRefusals(req)) = "pass" =>
                 /\ req.requirements.network = ChainNetwork
                 /\ req.requirements.payment \in prepared =>
                       Offer(req.requirements.payment).expiry = req.payload.pczt.expiry
<1> DEFINE r == req.requirements
           late == r.payment \in prepared /\ Offer(r.payment).expiry # req.payload.pczt.expiry
           far == r.network # ChainNetwork
           one == Refusal(late, "zpay_payment_expiry_mismatch")
           two == Refusal(far, "zcash_exact_network_mismatch")
           list == BroadcastRefusals(req)
<1>1. list = << one, two >>
  BY DEF BroadcastRefusals
<1>2. /\ one.kind = "zpay_payment_expiry_mismatch" /\ (one.when <=> late)
      /\ two.kind = "zcash_exact_network_mismatch" /\ (two.when <=> far)
  BY DEF Refusal
<1> HIDE DEF one, two, list
<1>3. DOMAIN list = 1 .. 2 /\ list[1] = one /\ list[2] = two /\ DOMAIN list \subseteq Nat
  BY <1>1
<1>4. \A i \in DOMAIN list :
          list[i].kind \in {"zpay_payment_expiry_mismatch", "zcash_exact_network_mismatch"}
  BY <1>2, <1>3
<1>5. First(list) \in {"pass", "zpay_payment_expiry_mismatch", "zcash_exact_network_mismatch"}
  BY <1>3, <1>4, FirstIsOne
<1>6. ASSUME First(list) = "pass" PROVE ~late /\ ~far
  <2>1. \A i \in DOMAIN list : ~list[i].when
    BY <1>3, <1>4, <1>6, FirstPass
  <2> QED
    BY <1>2, <1>3, <2>1
<1> QED
  BY <1>5, <1>6 DEF list

LEMMA VerifiedIs ==
    ASSUME NEW req, VerifyPcztSettlement(req) = "pass"
    PROVE  LET matched == MatchedPcztAmountZat(req.payload.pczt, req.requirements.network,
                                               req.requirements.payTo)
           IN  matched.reason = "pass" /\ matched.sum = req.requirements.amount
<1> DEFINE r == req.requirements
           pczt == req.payload.pczt
           matched == MatchedPcztAmountZat(pczt, r.network, r.payTo)
           one == Refusal(~pczt.parses, "zcash_exact_pczt_malformed")
           two == Refusal(matched.reason # "pass", matched.reason)
           three == Refusal(matched.sum # r.amount, "zcash_exact_amount_mismatch")
           four == Refusal(~pczt.extractable, "zcash_exact_pczt_not_extractable")
           list == << one, two, three, four >>
<1>1. First(list) = "pass"
  BY DEF VerifyPcztSettlement
<1> HIDE DEF matched
<1>2. /\ one.kind = "zcash_exact_pczt_malformed"
      /\ (two.when <=> matched.reason # "pass") /\ two.kind = matched.reason
      /\ (three.when <=> matched.sum # r.amount) /\ three.kind = "zcash_exact_amount_mismatch"
      /\ four.kind = "zcash_exact_pczt_not_extractable"
  BY DEF Refusal
<1> HIDE DEF one, two, three, four
<1>3. /\ DOMAIN list = 1 .. 4 /\ list[1] = one /\ list[2] = two /\ list[3] = three
      /\ list[4] = four /\ DOMAIN list \subseteq Nat
  OBVIOUS
<1> HIDE DEF list
<1>4. \A i \in DOMAIN list : list[i].when => list[i].kind # "pass"
  BY <1>2, <1>3
<1>5. \A i \in DOMAIN list : ~list[i].when
  BY <1>1, <1>3, <1>4, FirstPass
<1>6. ~two.when /\ ~three.when
  BY <1>3, <1>5
<1> QED
  BY <1>2, <1>6 DEF matched

(* What /verify and /settle say of one request. *)
Agrees(req, answer) ==
    \/ answer \in AboutTheRow \union {"rate_limited"}
    \/ IF X402Verdict(req) = "pass"
       THEN answer \in SettleOutcomes \union {"zcash_exact_network_mismatch"}
       ELSE answer = X402Verdict(req)

(* x402_settle_handler goes on only when all four groups of checks pass. *)
LEMMA SettlePasses ==
    ASSUME NEW req, NEW limited \in BOOLEAN, NEW storeUp \in BOOLEAN,
           SettleRefusal(req, limited, storeUp) = "pass"
    PROVE  /\ X402Verdict(req) = "pass" /\ VerifyPcztSettlement(req) = "pass"
           /\ First(FindPreparedRefusals(req, storeUp)) = "pass"
           /\ First(BroadcastRefusals(req)) = "pass"
<1> DEFINE early == First(<< Refusal(limited, "rate_limited") >> \o RequestRefusals(req))
           found == First(FindPreparedRefusals(req, storeUp))
           verdict == VerifyPcztSettlement(req)
           last == First(BroadcastRefusals(req))
<1>1. early = IF limited THEN "rate_limited" ELSE X402RequestInvalidReason(req)
  BY EarlyIs
<1>2. SettleRefusal(req, limited, storeUp) =
          CASE early # "pass" -> early
            [] early = "pass" /\ found # "pass" -> found
            [] early = "pass" /\ found = "pass" /\ verdict # "pass" -> verdict
            [] OTHER -> last
  BY DEF SettleRefusal
<1>3. X402Verdict(req) = IF X402RequestInvalidReason(req) # "pass"
                         THEN X402RequestInvalidReason(req) ELSE verdict
  BY DEF X402Verdict
<1> HIDE DEF early, found, verdict, last
<1>4. early = "pass" /\ found = "pass" /\ verdict = "pass" /\ last = "pass"
  BY <1>2
<1>5. X402Verdict(req) = "pass"
  BY <1>1, <1>3, <1>4
<1> QED
  BY <1>4, <1>5 DEF found, verdict, last

(* What it refuses, /verify refuses in the same words, or the row is why. *)
LEMMA RefusalAgrees ==
    ASSUME NEW req, NEW limited \in BOOLEAN, NEW storeUp \in BOOLEAN,
           SettleRefusal(req, limited, storeUp) # "pass"
    PROVE  Agrees(req, SettleRefusal(req, limited, storeUp))
<1> DEFINE early == First(<< Refusal(limited, "rate_limited") >> \o RequestRefusals(req))
           found == First(FindPreparedRefusals(req, storeUp))
           verdict == VerifyPcztSettlement(req)
           last == First(BroadcastRefusals(req))
           refusal == SettleRefusal(req, limited, storeUp)
           first == X402RequestInvalidReason(req)
<1>1. early = IF limited THEN "rate_limited" ELSE first
  BY EarlyIs
<1>2. refusal =
          CASE early # "pass" -> early
            [] early = "pass" /\ found # "pass" -> found
            [] early = "pass" /\ found = "pass" /\ verdict # "pass" -> verdict
            [] OTHER -> last
  BY DEF SettleRefusal
<1>3. X402Verdict(req) = IF first # "pass" THEN first ELSE verdict
  BY DEF X402Verdict
<1>4. found \in AboutTheRow \cup {"pass"}
  BY FoundIs
<1>5. last \in {"pass", "zpay_payment_expiry_mismatch", "zcash_exact_network_mismatch"}
  BY BroadcastIs
<1> HIDE DEF early, found, verdict, last, refusal, first
<1>6. CASE early # "pass"
  <2>1. refusal = early
    BY <1>2, <1>6
  <2> QED
    BY <1>1, <1>3, <1>6, <2>1 DEF Agrees, refusal
<1>7. CASE early = "pass" /\ found # "pass"
  <2>1. refusal = found
    BY <1>2, <1>7
  <2> QED
    BY <1>4, <1>7, <2>1 DEF Agrees, refusal
<1>8. CASE early = "pass" /\ found = "pass" /\ verdict # "pass"
  <2>1. refusal = verdict
    BY <1>2, <1>8
  <2>2. first = "pass"
    BY <1>1, <1>8
  <2> QED
    BY <1>3, <1>8, <2>1, <2>2 DEF Agrees, refusal
<1>9. CASE early = "pass" /\ found = "pass" /\ verdict = "pass"
  <2>1. refusal = last
    BY <1>2, <1>9
  <2>2. first = "pass"
    BY <1>1, <1>9
  <2>3. X402Verdict(req) = "pass"
    BY <1>3, <1>9, <2>2
  <2>4. refusal \in {"zpay_payment_expiry_mismatch", "zcash_exact_network_mismatch"}
    BY <1>5, <2>1 DEF refusal
  <2> QED
    BY <2>3, <2>4 DEF Agrees, AboutTheRow, refusal
<1> QED
  BY <1>6, <1>7, <1>8, <1>9

(* A request that gets as far as the broadcast, under a payment id, carries a  *)
(* transaction that pays what the payment was offered for.                    *)
LEMMA PassedPays ==
    ASSUME NEW req, NEW limited \in BOOLEAN, NEW storeUp \in BOOLEAN,
           IsPczt(req.payload.pczt), req.requirements.payment # "none",
           SettleRefusal(req, limited, storeUp) = "pass"
    PROVE  /\ req.requirements.payment \in prepared
           /\ PaysThePayee([payment |-> req.requirements.payment,
                            tx |-> Extracted(req.payload.pczt), route |-> "x402"])
<1> DEFINE r == req.requirements
           pczt == req.payload.pczt
           offer == Offer(r.payment)
           matched == MatchedPcztAmountZat(pczt, r.network, r.payTo)
           tx == Extracted(pczt)
           s == [payment |-> r.payment, tx |-> tx, route |-> "x402"]
<1>1. /\ VerifyPcztSettlement(req) = "pass"
      /\ First(FindPreparedRefusals(req, storeUp)) = "pass"
      /\ First(BroadcastRefusals(req)) = "pass"
  BY SettlePasses
<1>2. /\ r.payment \in prepared /\ offer.network = r.network /\ offer.amount = r.amount
      /\ offer.to = r.payTo
  BY <1>1, FoundIs
<1>3. r.network = ChainNetwork /\ offer.expiry = pczt.expiry
  BY <1>1, <1>2, BroadcastIs
<1>4. matched.reason = "pass" /\ matched.sum = r.amount
  BY <1>1, VerifiedIs
<1>5. PaidTo(tx, r.payTo.owner) >= matched.sum
  BY <1>4, MatchedIsPaid
<1>6. tx.expiry = pczt.expiry
  BY DEF Extracted
<1>7. s.payment = r.payment /\ s.tx = tx
  OBVIOUS
<1> HIDE DEF offer, matched, tx, s
<1>8. /\ PaidTo(s.tx, offer.to.owner) >= offer.amount
      /\ s.tx.expiry = offer.expiry /\ offer.network = ChainNetwork
  BY <1>2, <1>3, <1>4, <1>5, <1>6, <1>7
<1>9. PaysThePayee(s)
  BY <1>7, <1>8 DEF PaysThePayee, offer
<1> QED
  BY <1>2, <1>9 DEF s, tx

-----------------------------------------------------------------------------
(* What /zpay/v1/verify answers *)

(* Both axes match only when the checked sum is the amount asked about and   *)
(* everything that was disclosed went to the address.                        *)
LEMMA ReconciledIs ==
    ASSUME NEW q, PaymentReconciliation(q).amount = "match",
           PaymentReconciliation(q).recipient = "match"
    PROVE  /\ DisclosedValueZat(q.disclosure).reason = "pass"
           /\ DisclosedValueZat(q.disclosure).sum = q.amount
           /\ RecipientMatches(q.disclosure, q.payTo)
<1> DEFINE value == DisclosedValueZat(q.disclosure)
           message == MatchOr(q.disclosure.message = q.message)
           some == Recovered(q.disclosure) # {}
           sums == value.sum = q.amount
           owns == RecipientMatches(q.disclosure, q.payTo)
           full == Response("valid", "mined", MatchOr(sums), MatchOr(owns), message)
<1>1. PaymentReconciliation(q) =
          CASE ~some -> Response("valid", "mined", NotAnswered, NotAnswered, message)
            [] some /\ value.reason # "pass" -> ShortCircuitMalformed
            [] OTHER -> full
  BY DEF PaymentReconciliation
<1>2. /\ Response("valid", "mined", NotAnswered, NotAnswered, message).amount # "match"
      /\ ShortCircuitMalformed.amount # "match"
  BY DEF Response, NotAnswered, ShortCircuitMalformed
<1>3. full.amount = MatchOr(sums) /\ full.recipient = MatchOr(owns)
  BY DEF Response
<1> HIDE DEF value, message, some, sums, owns, full
<1>4. some /\ value.reason = "pass" /\ PaymentReconciliation(q) = full
  BY <1>1, <1>2
<1>5. MatchOr(sums) = "match" /\ MatchOr(owns) = "match"
  BY <1>3, <1>4
<1>6. sums /\ owns
  BY <1>5 DEF MatchOr
<1> QED
  BY <1>4, <1>6 DEF value, sums, owns

(* Only a mined transaction under the id that was asked about is judged.     *)
LEMMA ValidIs ==
    ASSUME NEW q, NEW network, NEW answer, Verify(q, network, answer).verdict = "valid"
    PROVE  /\ q.txid = q.disclosure.tx
           /\ answer.status = "mined" /\ answer.tx = q.disclosure.tx
           /\ Verify(q, network, answer) = PaymentReconciliation(q)
<1> DEFINE d == q.disclosure
           fetched == FetchTransaction(d.tx, answer)
           a1 == Refusal(~q.messageIsHex, InvalidArgument("expected_disclosure_message_invalid"))
           a2 == Refusal(~q.payloadIsHex, InvalidArgument("disclosure_payload_invalid"))
           a3 == Refusal(d.codec = "profile_unsupported",
                         ShortCircuitInconclusive("oracle_unavailable"))
           a4 == Refusal(d.codec = "malformed", ShortCircuitMalformed)
           a5 == Refusal(~HasExpectedRecipient(q.payTo, network, d.profile),
                         InvalidArgument("expected_pay_to_invalid"))
           a6 == Refusal(q.txid # d.tx, ShortCircuitMalformed)
           a7 == Refusal(fetched # "mined", ShortCircuitInconclusive(ChainPresenceFor(fetched)))
           a8 == Refusal(d.proof # "genuine", VerificationFailure(FailureVerdict(d.proof)))
           a9 == Refusal(TRUE, PaymentReconciliation(q))
           list == << a1, a2, a3, a4, a5, a6, a7, a8, a9 >>
<1>1. Verify(q, network, answer) = First(list)
  BY DEF Verify
<1>2. /\ a1.kind.verdict # "valid" /\ a2.kind.verdict # "valid" /\ a3.kind.verdict # "valid"
      /\ a4.kind.verdict # "valid" /\ a5.kind.verdict # "valid" /\ a6.kind.verdict # "valid"
  BY DEF Refusal, InvalidArgument, ShortCircuitInconclusive, ShortCircuitMalformed, Response
<1>3. a7.kind.verdict # "valid"
  BY DEF Refusal, ShortCircuitInconclusive, Response
<1>4. a8.kind.verdict # "valid"
  <2>1. FailureVerdict(d.proof) # "valid"
    BY DEF FailureVerdict
  <2> QED
    BY <2>1 DEF Refusal, VerificationFailure, Response
<1>5. a9.when /\ a9.kind = PaymentReconciliation(q)
  BY DEF Refusal
<1>6. (a6.when <=> q.txid # d.tx) /\ (a7.when <=> fetched # "mined")
  BY DEF Refusal
<1> HIDE DEF a1, a2, a3, a4, a5, a6, a7, a8, a9, fetched
<1>7. /\ DOMAIN list = 1 .. 9 /\ DOMAIN list \subseteq Nat
      /\ list[1] = a1 /\ list[2] = a2 /\ list[3] = a3 /\ list[4] = a4 /\ list[5] = a5
      /\ list[6] = a6 /\ list[7] = a7 /\ list[8] = a8 /\ list[9] = a9
  OBVIOUS
<1> HIDE DEF list
<1>8. list[9].when /\ 9 \in DOMAIN list
  BY <1>5, <1>7
<1>9. PICK i \in DOMAIN list : /\ list[i].when /\ First(list) = list[i].kind
                               /\ \A j \in DOMAIN list : list[j].when => i <= j
  BY <1>7, <1>8, FirstIsOne
<1>10. \A j \in 1 .. 8 : list[j].kind.verdict # "valid"
  <2> TAKE j \in 1 .. 8
  <2>1. j = 1 \/ j = 2 \/ j = 3 \/ j = 4 \/ j = 5 \/ j = 6 \/ j = 7 \/ j = 8
    OBVIOUS
  <2> QED
    BY <1>2, <1>3, <1>4, <1>7, <2>1
<1>11. list[i].kind.verdict = "valid"
  BY <1>1, <1>9
<1>12. i \in 1 .. 9
  BY <1>7
<1>13. i = 9
  BY <1>10, <1>11, <1>12
<1>14. ~list[6].when /\ ~list[7].when
  BY <1>7, <1>9, <1>13
<1>15. q.txid = d.tx /\ fetched = "mined"
  BY <1>6, <1>7, <1>14
<1>16. answer.status = "mined" /\ answer.tx = d.tx
  BY <1>15 DEF fetched, FetchTransaction
<1>17. Verify(q, network, answer) = PaymentReconciliation(q)
  BY <1>1, <1>5, <1>7, <1>9, <1>13
<1> QED
  BY <1>15, <1>16, <1>17

LEMMA ValidIsPaid ==
    ASSUME NEW q, NEW network, NEW answer, IsTransaction(q.disclosure.tx),
           Verify(q, network, answer).verdict = "valid",
           Verify(q, network, answer).amount = "match",
           Verify(q, network, answer).recipient = "match"
    PROVE  /\ answer.status = "mined" /\ q.txid = answer.tx
           /\ PaidTo(q.txid, q.payTo.owner) >= q.amount
<1>1. /\ q.txid = q.disclosure.tx
      /\ answer.status = "mined" /\ answer.tx = q.disclosure.tx
      /\ Verify(q, network, answer) = PaymentReconciliation(q)
  BY ValidIs
<1>2. /\ DisclosedValueZat(q.disclosure).reason = "pass"
      /\ DisclosedValueZat(q.disclosure).sum = q.amount
      /\ RecipientMatches(q.disclosure, q.payTo)
  BY <1>1, ReconciledIs
<1>3. PaidTo(q.disclosure.tx, q.payTo.owner) >= DisclosedValueZat(q.disclosure).sum
  BY <1>2, DisclosedIsPaid
<1> QED
  BY <1>1, <1>2, <1>3

-----------------------------------------------------------------------------
(* An agent that pays what it was offered *)

LEMMA NoneApplies ==
    ASSUME NEW list, DOMAIN list \subseteq Nat, \A i \in DOMAIN list : ~list[i].when
    PROVE  First(list) = "pass"
BY FirstIsOne

LEMMA NotRefused ==
    ASSUME NEW when, ~when, NEW kind
    PROVE  ~Refusal(when, kind).when
BY DEF Refusal

LEMMA NoneOfTwo ==
    ASSUME NEW a, NEW b, ~a.when, ~b.when
    PROVE  /\ DOMAIN << a, b >> \subseteq Nat
           /\ \A i \in DOMAIN << a, b >> : ~<< a, b >>[i].when
OBVIOUS

LEMMA NoneOfThree ==
    ASSUME NEW a, NEW b, NEW c, ~a.when, ~b.when, ~c.when
    PROVE  /\ DOMAIN << a, b, c >> \subseteq Nat
           /\ \A i \in DOMAIN << a, b, c >> : ~<< a, b, c >>[i].when
OBVIOUS

LEMMA NoneOfFour ==
    ASSUME NEW a, NEW b, NEW c, NEW d, ~a.when, ~b.when, ~c.when, ~d.when
    PROVE  /\ DOMAIN << a, b, c, d >> \subseteq Nat
           /\ \A i \in DOMAIN << a, b, c, d >> : ~<< a, b, c, d >>[i].when
OBVIOUS

LEMMA NoneOfFive ==
    ASSUME NEW a, NEW b, NEW c, NEW d, NEW e, ~a.when, ~b.when, ~c.when, ~d.when, ~e.when
    PROVE  /\ DOMAIN << a, b, c, d, e >> \subseteq Nat
           /\ \A i \in DOMAIN << a, b, c, d, e >> : ~<< a, b, c, d, e >>[i].when
OBVIOUS

LEMMA NoneAppliesInBoth ==
    ASSUME NEW S, NEW a \in Seq(S), NEW b \in Seq(S),
           \A i \in DOMAIN a : ~a[i].when, \A i \in DOMAIN b : ~b[i].when
    PROVE  a \o b \in Seq(S) /\ \A i \in DOMAIN (a \o b) : ~(a \o b)[i].when
<1> DEFINE c == a \o b
<1>1. /\ c \in Seq(S) /\ Len(c) = Len(a) + Len(b)
      /\ Len(a) \in Nat /\ Len(b) \in Nat
      /\ DOMAIN a = 1 .. Len(a) /\ DOMAIN b = 1 .. Len(b) /\ DOMAIN c = 1 .. Len(c)
  BY ConcatProperties, LenProperties
<1>2. \A i \in 1 .. Len(c) : c[i] = IF i <= Len(a) THEN a[i] ELSE b[i - Len(a)]
  BY ConcatProperties
<1> HIDE DEF c
<1>3. ASSUME NEW i \in DOMAIN c PROVE ~c[i].when
  <2>1. CASE i <= Len(a)
    <3>1. i \in DOMAIN a /\ c[i] = a[i]
      BY <1>1, <1>2, <2>1
    <3> QED
      BY <3>1
  <2>2. CASE ~(i <= Len(a))
    <3>1. i - Len(a) \in DOMAIN b /\ c[i] = b[i - Len(a)]
      BY <1>1, <1>2, <2>2
    <3> QED
      BY <3>1
  <2> QED
    BY <2>1, <2>2
<1> QED
  BY <1>1, <1>3 DEF c

(* What the agent of the test kit sends for an offer. *)
HonestFor(payment, offer) ==
    BuildX402PcztFacilitatorRequest(offer.network, offer.to, offer.amount, payment,
                                    SignedPczt(offer.uri, offer.expiry))

(* What the request of the test kit and the PCZT of the wallet say. *)
LEMMA HonestParts ==
    ASSUME NEW payment, NEW offer, Composed(offer), NEW req, req = HonestFor(payment, offer)
    PROVE  LET r == req.requirements
               pczt == req.payload.pczt
           IN  /\ req.version = X402Version /\ req.payload.version = X402Version
               /\ req.payload.accepted = r /\ req.payload.format = "pczt-v2-extractable"
               /\ req.payload.encoding = "base64url"
               /\ r.scheme = "exact" /\ r.network = offer.network /\ r.asset = "ZEC"
               /\ r.amount = offer.amount /\ r.payTo = offer.to /\ r.payment = payment
               /\ pczt.parses /\ pczt.extractable /\ pczt.expiry = offer.expiry
               /\ pczt.outputs =
                    << Output(IF "orchard" \in offer.to.receivers THEN "ironwood" ELSE "sapling",
                              offer.to, offer.to.owner, offer.amount),
                       Output("ironwood", NoAddress, "payer", 1) >>
<1> DEFINE pczt == SignedPczt(offer.uri, offer.expiry)
<1>1. offer.uri.to = offer.to /\ offer.uri.amount = FormatZecFromZat(offer.amount)
  BY DEF Composed, ComposePaymentUri
<1>2. offer.amount \in Nat
  BY X402ExactAssumption DEF Composed
<1>3. ParseZec(offer.uri.amount) = offer.amount
  BY <1>1, <1>2, AmountRoundTrips
<1>4. /\ pczt.parses /\ pczt.extractable /\ pczt.expiry = offer.expiry
      /\ pczt.outputs =
           << Output(IF "orchard" \in offer.to.receivers THEN "ironwood" ELSE "sapling",
                     offer.to, offer.to.owner, offer.amount),
              Output("ironwood", NoAddress, "payer", 1) >>
  BY <1>1, <1>3 DEF SignedPczt
<1> DEFINE r == PaymentRequirements("exact", offer.network, "ZEC", offer.amount, offer.to, payment)
           payload == PaymentPayload(r, "pczt-v2-extractable", "base64url", pczt)
<1>5. req = FacilitatorRequest(payload, r)
  BY DEF HonestFor, BuildX402PcztFacilitatorRequest
<1>6. /\ r.scheme = "exact" /\ r.network = offer.network /\ r.asset = "ZEC"
      /\ r.amount = offer.amount /\ r.payTo = offer.to /\ r.payment = payment
  BY DEF PaymentRequirements
<1> HIDE DEF r, pczt
<1>7. /\ payload.version = X402Version /\ payload.accepted = r
      /\ payload.format = "pczt-v2-extractable" /\ payload.encoding = "base64url"
      /\ payload.pczt = pczt
  BY DEF PaymentPayload
<1> HIDE DEF payload
<1>8. req.version = X402Version /\ req.payload = payload /\ req.requirements = r
  BY <1>5 DEF FacilitatorRequest
<1> QED
  BY <1>4, <1>6, <1>7, <1>8

(* Its output is for the payee, and the change is skipped. *)
LEMMA HonestMatches ==
    ASSUME NEW payment, NEW offer, Composed(offer), WellFormed(offer),
           NEW req, req = HonestFor(payment, offer), IsPczt(req.payload.pczt)
    PROVE  MatchedPcztAmountZat(req.payload.pczt, req.requirements.network,
                                req.requirements.payTo) =
              [reason |-> "pass", sum |-> offer.amount]
<1> DEFINE pczt == req.payload.pczt
           to == offer.to
           pay == Output(IF "orchard" \in to.receivers THEN "ironwood" ELSE "sapling",
                         to, to.owner, offer.amount)
           change == Output("ironwood", NoAddress, "payer", 1)
           start == [reason |-> "pass", sum |-> 0]
<1>1. /\ req.requirements.network = offer.network /\ req.requirements.payTo = to
      /\ pczt.outputs = << pay, change >>
  BY HonestParts
<1>2. /\ to.network = offer.network /\ to.kind = "unified" /\ offer.amount # Missing
      /\ offer.amount \in Nat /\ offer.amount <= U64Max /\ U64Max \in Nat
  BY X402ExactAssumption DEF WellFormed, Composed, IsValidZatAmount
<1>3. Len(pczt.outputs) = 2 /\ pczt.outputs[1] = pay /\ pczt.outputs[2] = change
  BY <1>1
<1> HIDE DEF pay, change, pczt
<1>4. PICK walk \in [0 .. 2 -> Sums] :
          /\ walk[0] = start
          /\ \A i \in 1 .. 2 : walk[i] = MatchOutput(walk[i - 1], pczt.outputs[i], to)
          /\ MatchedPcztAmountZat(pczt, offer.network, to) = walk[2]
  <2>1. IsPczt(pczt) /\ to.network = offer.network /\ to.kind # "undecodable"
    BY <1>2 DEF pczt
  <2> HIDE DEF to
  <2>2. \E walk \in [0 .. Len(pczt.outputs) -> Sums] :
            /\ walk[0] = [reason |-> "pass", sum |-> 0]
            /\ \A i \in 1 .. Len(pczt.outputs) :
                  walk[i] = MatchOutput(walk[i - 1], pczt.outputs[i], to)
            /\ MatchedPcztAmountZat(pczt, offer.network, to) = walk[Len(pczt.outputs)]
    BY <2>1, WalkIs
  <2>3. Len(pczt.outputs) = 2
    BY <1>3
  <2> QED
    BY <2>2, <2>3, Zenon
<1>5. walk[1] = MatchOutput(start, pay, to) /\ walk[2] = MatchOutput(walk[1], change, to)
  <2>1. 1 \in 1 .. 2 /\ 2 \in 1 .. 2 /\ 1 - 1 = 0 /\ 2 - 1 = 1
    OBVIOUS
  <2> QED
    BY <1>3, <1>4, <2>1
<1>6. /\ pay.label = to /\ pay.to = to.owner /\ pay.value = offer.amount
      /\ pay.pool = IF "orchard" \in to.receivers THEN "ironwood" ELSE "sapling"
      /\ change.label = NoAddress
  BY DEF Output, pay, change
<1>7. Corresponds(pay, to)
  <2>1. "sapling" \in to.receivers \/ "orchard" \in to.receivers
    BY <1>2 DEF Composed
  <2>2. ReceiverOf["ironwood"] = "orchard" /\ ReceiverOf["sapling"] = "sapling"
    BY DEF ReceiverOf
  <2> QED
    BY <1>6, <2>1, <2>2 DEF Corresponds
<1>8. First(OutputRefusals(pay, to)) = "pass"
  <2> DEFINE list == OutputRefusals(pay, to)
  <2>1. pay.to # "omitted" /\ pay.to # "garbled" /\ pay.value # Missing /\ pay.label = to
    BY <1>2, <1>6 DEF Composed
  <2>2. pay.pool # "transparent"
    BY <1>6
  <2> DEFINE a1 == Refusal(pay.label # to, "zcash_exact_pay_to_mismatch")
             a2 == Refusal(pay.to = "omitted", "zcash_exact_pczt_not_verifiable")
             a3 == Refusal(pay.value = Missing, "zcash_exact_amount_mismatch")
             a4 == Refusal(pay.to = "garbled", "zcash_exact_pczt_not_verifiable")
             a5 == Refusal(~Corresponds(pay, to), "zcash_exact_pay_to_mismatch")
  <2>3. list = << a1, a2, a3, a4, a5 >>
    BY <2>2 DEF OutputRefusals
  <2>4. ~a1.when /\ ~a2.when /\ ~a3.when /\ ~a4.when /\ ~a5.when
    BY <1>7, <2>1, NotRefused
  <2> HIDE DEF a1, a2, a3, a4, a5, list
  <2>5. DOMAIN list \subseteq Nat /\ \A i \in DOMAIN list : ~list[i].when
    BY <2>3, <2>4, NoneOfFive
  <2>6. First(list) = "pass"
    BY <2>5, NoneApplies
  <2> QED
    BY <2>6 DEF list
<1>9. to # NoAddress
  BY <1>2 DEF NoAddress, Address
<1>10. MatchOutput(start, pay, to) = AddMatchedAmountZat(0, offer.amount)
  BY <1>6, <1>8, <1>9 DEF MatchOutput
<1>11. AddMatchedAmountZat(0, offer.amount) = [reason |-> "pass", sum |-> offer.amount]
  BY <1>2 DEF AddMatchedAmountZat
<1>12. walk[2] = walk[1]
  BY <1>5, <1>6 DEF MatchOutput
<1> QED
  BY <1>1, <1>4, <1>5, <1>10, <1>11, <1>12 DEF pczt

(* /verify and the first two groups of checks of /settle let it pass. *)
LEMMA HonestVerifies ==
    ASSUME NEW payment, NEW offer, Composed(offer), WellFormed(offer), payment # "unparseable",
           NEW req, req = HonestFor(payment, offer), IsPczt(req.payload.pczt)
    PROVE  X402RequestInvalidReason(req) = "pass" /\ VerifyPcztSettlement(req) = "pass"
<1> DEFINE r == req.requirements
           pczt == req.payload.pczt
<1>1. /\ req.version = X402Version /\ req.payload.version = X402Version
      /\ req.payload.accepted = r /\ req.payload.format = "pczt-v2-extractable"
      /\ req.payload.encoding = "base64url"
      /\ r.scheme = "exact" /\ r.network = offer.network /\ r.asset = "ZEC"
      /\ r.amount = offer.amount /\ r.payTo = offer.to /\ r.payment = payment
      /\ pczt.parses /\ pczt.extractable
  BY HonestParts
<1>2. /\ offer.network \in Networks /\ IsValidZatAmount(offer.amount)
      /\ HasValidRecipientPrefix(offer.network, offer.to)
  BY FrontDoorAssumption DEF WellFormed, HasValidRecipientPrefix
<1>3. X402RequestInvalidReason(req) = "pass"
  <2> DEFINE a1 == Refusal(req.version # X402Version \/ req.payload.version # X402Version,
                           "x402_version_unsupported")
             a2 == Refusal(req.payload.accepted # req.requirements,
                           "payment_requirements_mismatch")
             a3 == Refusal(~IsZcashExactRequest(req), "scheme_network_not_supported")
             a4 == Refusal(req.requirements.payment = "unparseable", "zpay_payment_id_invalid")
             b1 == Refusal(r.scheme # "exact", "zcash_exact_scheme_invalid")
             b2 == Refusal(r.network \notin Networks, "zcash_exact_network_invalid")
             b3 == Refusal(r.asset # "ZEC", "zcash_exact_asset_unsupported")
             b4 == Refusal(~IsValidZatAmount(r.amount), "zcash_exact_amount_invalid")
             b5 == Refusal(~HasValidRecipientPrefix(r.network, r.payTo),
                           "zcash_exact_pay_to_invalid")
             c1 == Refusal(req.payload.format = "none", "zcash_exact_authorization_malformed")
             c2 == Refusal(req.payload.format # "pczt-v2-extractable",
                           "zcash_exact_authorization_format_unsupported")
             c3 == Refusal(req.payload.encoding # "base64url",
                           "zcash_exact_authorization_malformed")
             a == << a1, a2, a3, a4 >>
             b == << b1, b2, b3, b4, b5 >>
             c == << c1, c2, c3 >>
             S == {a1, a2, a3, a4, b1, b2, b3, b4, b5, c1, c2, c3}
  <2>1. X402RequestInvalidReason(req) = First((a \o b) \o c)
    BY DEF X402RequestInvalidReason, RequestRefusals, RequirementsRefusals, AuthorizationRefusals
  <2>2. ~a1.when /\ ~a2.when /\ ~a3.when /\ ~a4.when
    <3>1. IsZcashExactRequest(req)
      BY <1>1, <1>2 DEF IsZcashExactRequest
    <3> QED
      BY <1>1, <3>1, NotRefused
  <2>3. ~b1.when /\ ~b2.when /\ ~b3.when /\ ~b4.when /\ ~b5.when
    BY <1>1, <1>2, NotRefused
  <2>4. ~c1.when /\ ~c2.when /\ ~c3.when
    BY <1>1, NotRefused
  <2> HIDE DEF a1, a2, a3, a4, b1, b2, b3, b4, b5, c1, c2, c3
  <2>5. a \in Seq(S) /\ b \in Seq(S) /\ c \in Seq(S)
    OBVIOUS
  <2>8. \A i \in DOMAIN a : ~a[i].when
    BY <2>2, NoneOfFour
  <2>9. \A i \in DOMAIN b : ~b[i].when
    BY <2>3, NoneOfFive
  <2>10. \A i \in DOMAIN c : ~c[i].when
    BY <2>4, NoneOfThree
  <2> HIDE DEF a, b, c, S
  <2> DEFINE ab == a \o b
  <2>11. ab \in Seq(S) /\ \A i \in DOMAIN ab : ~ab[i].when
    BY <2>5, <2>8, <2>9, NoneAppliesInBoth
  <2> HIDE DEF ab
  <2> DEFINE abc == ab \o c
  <2>12. abc \in Seq(S) /\ \A i \in DOMAIN abc : ~abc[i].when
    BY <2>5, <2>10, <2>11, NoneAppliesInBoth
  <2>13. X402RequestInvalidReason(req) = First(abc)
    BY <2>1 DEF ab
  <2> HIDE DEF abc
  <2>14. DOMAIN abc \subseteq Nat
    BY <2>12
  <2> QED
    BY <2>12, <2>13, <2>14, NoneApplies
<1>4. VerifyPcztSettlement(req) = "pass"
  <2> DEFINE matched == MatchedPcztAmountZat(pczt, r.network, r.payTo)
             a1 == Refusal(~pczt.parses, "zcash_exact_pczt_malformed")
             a2 == Refusal(matched.reason # "pass", matched.reason)
             a3 == Refusal(matched.sum # r.amount, "zcash_exact_amount_mismatch")
             a4 == Refusal(~pczt.extractable, "zcash_exact_pczt_not_extractable")
             list == << a1, a2, a3, a4 >>
  <2>1. matched = [reason |-> "pass", sum |-> offer.amount]
    BY HonestMatches
  <2>2. VerifyPcztSettlement(req) = First(list)
    BY DEF VerifyPcztSettlement
  <2> HIDE DEF matched
  <2>3. matched.reason = "pass" /\ matched.sum = r.amount
    BY <1>1, <2>1
  <2>4. ~a1.when /\ ~a2.when /\ ~a3.when /\ ~a4.when
    BY <1>1, <2>3, NotRefused
  <2> HIDE DEF a1, a2, a3, a4
  <2>5. DOMAIN list \subseteq Nat /\ \A i \in DOMAIN list : ~list[i].when
    BY <2>4, NoneOfFour
  <2> HIDE DEF list
  <2> QED
    BY <2>2, <2>5, NoneApplies
<1> QED
  BY <1>3, <1>4

(* Its row, if it is there, is the one of the offer. *)
LEMMA HonestIsFound ==
    ASSUME NEW payment, payment # "none", Composed(Offer(payment)), WellFormed(Offer(payment)),
           NEW req, req = HonestFor(payment, Offer(payment)), NEW storeUp \in BOOLEAN
    PROVE  /\ \/ First(FindPreparedRefusals(req, storeUp)) \in
                    {"pass", "zpay_payment_store_unavailable"}
              \/ /\ First(FindPreparedRefusals(req, storeUp)) = "zpay_payment_not_prepared"
                 /\ payment \notin prepared
           /\ First(BroadcastRefusals(req)) = "pass"
<1> DEFINE r == req.requirements
           offer == Offer(payment)
           list == FindPreparedRefusals(req, storeUp)
           down == Refusal(~storeUp, "zpay_payment_store_unavailable")
           gone == Refusal(payment \notin prepared, "zpay_payment_not_prepared")
           other == Refusal(\/ offer.network # r.network \/ offer.amount # r.amount
                            \/ offer.to # r.payTo, "zpay_payment_requirements_mismatch")
<1>1. /\ r.network = offer.network /\ r.amount = offer.amount /\ r.payTo = offer.to
      /\ r.payment = payment /\ req.payload.pczt.expiry = offer.expiry
  BY HonestParts
<1>4. First(BroadcastRefusals(req)) = "pass"
  <2> DEFINE late == r.payment \in prepared /\ Offer(r.payment).expiry # req.payload.pczt.expiry
             far == r.network # ChainNetwork
             one == Refusal(late, "zpay_payment_expiry_mismatch")
             two == Refusal(far, "zcash_exact_network_mismatch")
  <2>1. ~late /\ ~far
    BY <1>1 DEF WellFormed
  <2>2. BroadcastRefusals(req) = << one, two >>
    BY DEF BroadcastRefusals
  <2> HIDE DEF late, far
  <2>3. ~one.when /\ ~two.when
    BY <2>1, NotRefused
  <2> HIDE DEF one, two
  <2> QED
    BY <2>2, <2>3, NoneOfTwo, NoneApplies
<1>2. CASE payment \notin prepared
  <2>1. list = << down, gone >> \o <<>>
    BY <1>1, <1>2 DEF FindPreparedRefusals
  <2>2. /\ down.kind = "zpay_payment_store_unavailable"
        /\ gone.kind = "zpay_payment_not_prepared" /\ gone.when
    BY <1>2 DEF Refusal
  <2> HIDE DEF down, gone, list
  <2>3. DOMAIN list = 1 .. 2 /\ list[1] = down /\ list[2] = gone
    BY <2>1
  <2>4. DOMAIN list \subseteq Nat /\ 2 \in DOMAIN list /\ list[2].when
    BY <2>2, <2>3
  <2>5. PICK i \in DOMAIN list : First(list) = list[i].kind
    BY <2>4, FirstIsOne
  <2>6. i = 1 \/ i = 2
    BY <2>3
  <2> QED
    BY <1>2, <1>4, <2>2, <2>3, <2>5, <2>6 DEF list
<1>3. CASE payment \in prepared
  <2>1. list = << down, gone >> \o << other >>
    BY <1>1, <1>3 DEF FindPreparedRefusals
  <2>2. down.kind = "zpay_payment_store_unavailable" /\ ~gone.when /\ ~other.when
    BY <1>1, <1>3 DEF Refusal
  <2> HIDE DEF down, gone, other, list
  <2>3. DOMAIN list = 1 .. 3 /\ list[1] = down /\ list[2] = gone /\ list[3] = other
    BY <2>1
  <2>4. DOMAIN list \subseteq Nat
    BY <2>3
  <2>5. \A i \in DOMAIN list : list[i].when => list[i].kind = "zpay_payment_store_unavailable"
    <3> TAKE i \in DOMAIN list
    <3>1. i = 1 \/ i = 2 \/ i = 3
      BY <2>3
    <3> QED
      BY <2>2, <2>3, <3>1
  <2>6. First(list) \in {"pass", "zpay_payment_store_unavailable"}
    BY <2>4, <2>5, FirstIsOne
  <2> QED
    BY <1>4, <2>6 DEF list
<1> QED
  BY <1>2, <1>3

(* What an honest agent may be told. *)
ToTheHonest(answer, payment, rows) ==
    \/ answer \in SettleOutcomes \union {"pass", "rate_limited"}
    \/ answer = "zpay_payment_store_unavailable"
    \/ answer = "zpay_payment_not_prepared" /\ payment \notin rows

LEMMA HonestRefusal ==
    ASSUME NEW payment, payment \notin {"", "none", "unparseable"},
           Composed(Offer(payment)), WellFormed(Offer(payment)),
           NEW req, req = HonestFor(payment, Offer(payment)), IsPczt(req.payload.pczt),
           NEW limited \in BOOLEAN, NEW storeUp \in BOOLEAN
    PROVE  ToTheHonest(SettleRefusal(req, limited, storeUp), payment, prepared)
<1> DEFINE early == First(<< Refusal(limited, "rate_limited") >> \o RequestRefusals(req))
           found == First(FindPreparedRefusals(req, storeUp))
           verdict == VerifyPcztSettlement(req)
           last == First(BroadcastRefusals(req))
           refusal == SettleRefusal(req, limited, storeUp)
<1>1. early = IF limited THEN "rate_limited" ELSE X402RequestInvalidReason(req)
  BY EarlyIs
<1>2. refusal =
          CASE early # "pass" -> early
            [] early = "pass" /\ found # "pass" -> found
            [] early = "pass" /\ found = "pass" /\ verdict # "pass" -> verdict
            [] OTHER -> last
  BY DEF SettleRefusal
<1>3. X402RequestInvalidReason(req) = "pass" /\ verdict = "pass"
  BY HonestVerifies
<1>4. /\ \/ found \in {"pass", "zpay_payment_store_unavailable"}
         \/ found = "zpay_payment_not_prepared" /\ payment \notin prepared
      /\ last = "pass"
  BY HonestIsFound
<1> HIDE DEF early, found, verdict, last, refusal
<1>5. early \in {"pass", "rate_limited"}
  BY <1>1, <1>3
<1>6. \/ refusal \in {"pass", "rate_limited", "zpay_payment_store_unavailable"}
      \/ refusal = "zpay_payment_not_prepared" /\ payment \notin prepared
  BY <1>2, <1>3, <1>4, <1>5
<1> QED
  BY <1>6 DEF ToTheHonest, refusal

(* What propose answers with comes from the registry. *)
LEMMA ProposePasses ==
    ASSUME NEW payee \in DOMAIN Registry \union {UnknownPayee}, NEW network,
           NEW agent, NEW key, NEW storeUp \in BOOLEAN, NEW tipUp \in BOOLEAN,
           First(ProposeRefusals(payee, network, storeUp, tipUp)) = "pass"
    PROVE  Composed(Preparation(payee, network, agent, key))
<1> DEFINE entries == Registry[payee]
           chosen == Resolve(entries, "zcash", network)
           k == CHOOSE i \in chosen : TRUE
           entry == entries[k]
           list == ProposeRefusals(payee, network, storeUp, tipUp)
           offer == Preparation(payee, network, agent, key)
<1>1. payee # UnknownPayee
  <2> SUFFICES ASSUME payee = UnknownPayee PROVE FALSE
    OBVIOUS
  <2> DEFINE only == Refusal(TRUE, "payee_unknown")
  <2>1. list = << only >>
    BY DEF ProposeRefusals
  <2>2. only.when /\ only.kind = "payee_unknown"
    BY DEF Refusal
  <2> HIDE DEF list, only
  <2>3. DOMAIN list \subseteq Nat /\ 1 \in DOMAIN list /\ list[1].when
        /\ \A i \in DOMAIN list : list[i].kind # "pass"
    BY <2>1, <2>2
  <2>4. \A i \in DOMAIN list : ~list[i].when
    BY <2>3, FirstPass DEF list
  <2> QED
    BY <2>3, <2>4
<1>2. chosen # {}
  <2> DEFINE a1 == Refusal(chosen = {}, "scheme_network_unsupported")
             a2 == Refusal(~tipUp, "tip_oracle_unavailable")
             a3 == Refusal(\E i \in chosen : ExpiryHeight(entries[i]) = 0, "tip_oracle_zero_tip")
             a4 == Refusal(~storeUp, "prepared_store_unavailable")
  <2>1. list = << a1, a2, a3, a4 >>
    BY <1>1 DEF ProposeRefusals
  <2>2. /\ a1.when <=> chosen = {}
        /\ a1.kind # "pass" /\ a2.kind # "pass" /\ a3.kind # "pass" /\ a4.kind # "pass"
    BY DEF Refusal
  <2> HIDE DEF list, a1, a2, a3, a4, chosen
  <2>3. DOMAIN list = 1 .. 4 /\ list[1] = a1 /\ list[2] = a2 /\ list[3] = a3 /\ list[4] = a4
    BY <2>1
  <2>4. \A i \in DOMAIN list : list[i].kind # "pass"
    BY <2>2, <2>3
  <2>5. \A i \in DOMAIN list : ~list[i].when
    BY <2>3, <2>4, FirstPass DEF list
  <2> QED
    BY <2>2, <2>3, <2>5
<1>3. k \in DOMAIN entries
  <2>1. k \in chosen
    BY <1>2
  <2> HIDE DEF k
  <2> QED
    BY <2>1 DEF Resolve
<1>4. IsAcceptsEntry(entry)
  BY <1>1, <1>3, RegistryAssumption
<1>5. /\ offer.to = entry.payTo /\ offer.amount = entry.amount
      /\ offer.uri = ComposePaymentUri(offer.to, offer.amount, offer.memo)
  BY DEF Preparation
<1> HIDE DEF entry, offer
<1> QED
  BY <1>4, <1>5 DEF Composed, IsAcceptsEntry, offer

LEMMA OfferIsComposed ==
    ASSUME OffersInOrder, OffersComposed, NEW payment \in IssuedIds
    PROVE  Composed(Offer(payment)) /\ payment \notin {"", "none", "unparseable"}
<1>1. PICK j \in DOMAIN Payments : j <= Len(offers) /\ payment = Payments[j]
  BY DEF IssuedIds, Issued
<1>2. j \in IssuedIn(offers) /\ j \in 1 .. Len(offers)
  <2>1. j \in Nat /\ j >= 1
    BY PaymentsAreListed
  <2>2. Len(offers) \in Nat
    BY DEF OffersInOrder, IsSequence
  <2> QED
    BY <1>1, <2>1, <2>2 DEF IssuedIn
<1>3. Offer(payment) = offers[j]
  BY <1>1, <1>2, OfferAt DEF Offer, Issued, IssuedIn
<1>4. Composed(offers[j])
  BY <1>2 DEF OffersComposed
<1>5. payment \notin {"", "none", "unparseable"}
  BY <1>1, PaymentNames
<1> QED
  BY <1>3, <1>4, <1>5

-----------------------------------------------------------------------------
(* One step keeps the invariant *)

(* An answer of another route, and silence, are outside the properties of    *)
(* the exchange that was answered last.                                      *)
LEMMA OtherRoute ==
    ASSUME said'.route \notin {"x402_settle", "x402_verify", "verify"}
    PROVE  VerifyAndSettleAgree' /\ DisclosureProvesPayment' /\ HonestPaymentSettles'
BY DEF VerifyAndSettleAgree, DisclosureProvesPayment, HonestPaymentSettles

LEMMA AgreedAnswer ==
    ASSUME NEW req, NEW answer, Answer("x402_settle", req, answer), Agrees(req, answer)
    PROVE  VerifyAndSettleAgree' /\ DisclosureProvesPayment'
<1>1. said'.route = "x402_settle" /\ said'.req = req /\ said'.answer = answer
  BY DEF Answer
<1>2. DisclosureProvesPayment'
  BY <1>1 DEF DisclosureProvesPayment
<1>3. VerifyAndSettleAgree'
  BY <1>1 DEF VerifyAndSettleAgree, Agrees
<1> QED
  BY <1>2, <1>3

(* Offers depend on nothing else. *)
LEMMA SameOffers ==
    ASSUME offers' = offers
    PROVE  /\ IssuedIds' = IssuedIds /\ \A p : Offer(p)' = Offer(p)
           /\ OffersInOrder => OffersInOrder'
           /\ OffersComposed => OffersComposed'
BY DEF IssuedIds, Issued, Offer, OffersInOrder, OffersComposed

(* What the answer to the request of an honest agent has to be. *)
LEMMA HonestAnswer ==
    ASSUME offers' = offers, NEW route, NEW req, NEW answer, Answer(route, req, answer),
           \A payment \in IssuedIds :
               WellFormed(Offer(payment)) /\ req = HonestFor(payment, Offer(payment)) =>
                   ToTheHonest(answer, payment, prepared')
    PROVE  HonestPaymentSettles'
<1>1. said'.req = req /\ said'.answer = answer
  BY DEF Answer
<1> SUFFICES ASSUME NEW payment \in IssuedIds', WellFormed(Offer(payment)'),
                    said'.req = HonestRequest(payment)'
             PROVE  ToTheHonest(said'.answer, payment, prepared')
  BY DEF HonestPaymentSettles, ToTheHonest, WellFormed
<1>2. payment \in IssuedIds /\ Offer(payment)' = Offer(payment)
  BY SameOffers
<1>3. HonestRequest(payment)' = HonestFor(payment, Offer(payment)')
  BY DEF HonestRequest, HonestFor
<1>4. WellFormed(Offer(payment)) /\ req = HonestFor(payment, Offer(payment))
  BY <1>1, <1>2, <1>3
<1> QED
  BY <1>1, <1>2, <1>4

(* What was settled stays what its offer asked for. *)
LEMMA SettlementsKept ==
    ASSUME SettlementsPay, IssuedIds \subseteq IssuedIds',
           \A p \in IssuedIds : Offer(p)' = Offer(p),
           \A s \in settlements' : s \notin settlements /\ s.route = "x402" =>
               s.payment \in IssuedIds /\ PaysThePayee(s)
    PROVE  SettlementsPay'
<1> SUFFICES ASSUME NEW s \in settlements', s.route = "x402"
             PROVE  s.payment \in IssuedIds' /\ PaysThePayee(s)'
  BY DEF SettlementsPay
<1>1. s.payment \in IssuedIds /\ PaysThePayee(s)
  BY DEF SettlementsPay
<1>2. Offer(s.payment)' = Offer(s.payment)
  BY <1>1
<1>3. PaysThePayee(s)'
  BY <1>1, <1>2 DEF PaysThePayee
<1> QED
  BY <1>1, <1>3

(* A step of another route that issues nothing and settles nothing. *)
LEMMA QuietStep ==
    ASSUME FrontInv, offers' = offers, settlements' = settlements, prepared' \subseteq prepared,
           said'.route \notin {"x402_settle", "x402_verify", "verify"}
    PROVE  FrontInv'
<1>1. /\ IssuedIds' = IssuedIds /\ OffersInOrder' /\ OffersComposed'
      /\ \A p : Offer(p)' = Offer(p)
  BY SameOffers DEF FrontInv
<1>2. SettlementsPay'
  BY <1>1, SettlementsKept DEF FrontInv
<1>3. VerifyAndSettleAgree' /\ DisclosureProvesPayment' /\ HonestPaymentSettles'
  BY OtherRoute
<1> QED
  BY <1>1, <1>2, <1>3 DEF FrontInv

LEMMA PrepareKeeps ==
    ASSUME FrontInv, PrepareHandler
    PROVE  FrontInv'
<1>1. PICK payee \in DOMAIN Registry \union {UnknownPayee}, network \in {ChainNetwork, "mainnet"},
           agent \in Agents, key \in IdempotencyKeys, proof \in PresentedProofs :
               Prepare(payee, network, agent, key, proof)
  BY DEF PrepareHandler
<1>2. settlements' = settlements
  BY DEF PrepareHandler
<1> DEFINE next == Preparation(payee, network, agent, key)
<1>3. /\ said'.route = "prepare"
      /\ \/ offers' = offers /\ prepared' = prepared
         \/ /\ Len(offers) < Len(Payments) /\ offers' = Append(offers, next)
            /\ prepared' = prepared \cup {Payments[Len(offers) + 1]}
            /\ Composed(next)
  <2>0. ASSUME NEW storeUp \in BOOLEAN, NEW tipUp \in BOOLEAN,
               First(ProposeRefusals(payee, network, storeUp, tipUp)) = "pass"
        PROVE  Composed(next)
    BY <2>0, ProposePasses
  <2> HIDE DEF next
  <2>1. \E word : Answer("prepare", <<>>, word)
    BY <1>1 DEF Prepare
  <2>2. said'.route = "prepare"
    BY <2>1 DEF Answer
  <2>3. \/ UNCHANGED <<offers, prepared>>
        \/ /\ Len(offers) < Len(Payments) /\ offers' = Append(offers, next)
           /\ prepared' = prepared \union {Payments[Len(offers) + 1]}
           /\ \E storeUp, tipUp \in BOOLEAN :
                 First(ProposeRefusals(payee, network, storeUp, tipUp)) = "pass"
    BY <1>1, Zenon DEF Prepare, next
  <2> QED
    BY <2>0, <2>2, <2>3
<1> HIDE DEF next
<1>4. CASE offers' = offers /\ prepared' = prepared
  BY <1>2, <1>3, <1>4, QuietStep
<1>5. CASE /\ Len(offers) < Len(Payments) /\ offers' = Append(offers, next)
           /\ prepared' = prepared \cup {Payments[Len(offers) + 1]}
           /\ Composed(next)
  <2>1. Extends(offers', offers) /\ offers'[Len(offers) + 1] = next
    BY <1>5, AppendExtends DEF FrontInv, OffersInOrder
  <2>2. /\ OffersInOrder' /\ IssuedIds \subseteq IssuedIds'
        /\ Payments[Len(offers) + 1] \in IssuedIds'
        /\ \A p \in IssuedIds : Offer(p)' = Offer(p)
    BY <1>5, <2>1, NextOffer DEF FrontInv
  <2>2a. OffersComposed'
    <3> SUFFICES ASSUME NEW i \in 1 .. Len(offers') PROVE Composed(offers'[i])
      BY DEF OffersComposed, Composed
    <3>1. i \in 1 .. Len(offers) \/ i = Len(offers) + 1
      BY <2>1 DEF Extends
    <3>2. i \in 1 .. Len(offers) => offers'[i] = offers[i] /\ Composed(offers[i])
      BY <2>1 DEF Extends, FrontInv, OffersComposed
    <3> QED
      BY <1>5, <2>1, <3>1, <3>2
  <2>3. SettlementsPay'
    BY <1>2, <2>2, SettlementsKept DEF FrontInv
  <2>4. prepared' \subseteq IssuedIds'
    BY <1>5, <2>2 DEF FrontInv
  <2>5. VerifyAndSettleAgree' /\ DisclosureProvesPayment' /\ HonestPaymentSettles'
    BY <1>3, OtherRoute
  <2> QED
    BY <2>2, <2>2a, <2>3, <2>4, <2>5 DEF FrontInv
<1> QED
  BY <1>3, <1>4, <1>5

LEMMA SettleKeeps ==
    ASSUME FrontInv, SettleHandler
    PROVE  FrontInv'
<1>1. PICK payment \in IssuedIds, agent \in Agents, raw \in RawTransactions,
           proof \in PresentedProofs : Settle(payment, agent, raw, proof)
  BY DEF SettleHandler
<1>2. offers' = offers
  BY DEF SettleHandler
<1> DEFINE new == [payment |-> payment, tx |-> raw.tx, route |-> "lifecycle"]
<1>3. /\ said'.route = "settle" /\ prepared' \subseteq prepared
      /\ settlements' \subseteq settlements \cup {new}
  <2>1. PICK limited \in BOOLEAN, storeUp \in BOOLEAN :
            LET refusal == First(WriteRefusals(proof, limited)
                                 \o RelayRefusals(payment, agent, raw, storeUp))
            IN  \/ /\ refusal # "pass"
                   /\ Answer("settle", <<>>, refusal)
                   /\ UNCHANGED <<mempool, settlements, prepared>>
                \/ /\ refusal = "pass"
                   /\ \E submitted \in SubmitOutcomes(raw.tx), recordUp \in BOOLEAN :
                          LET outcome == FromSubmitOutcome(submitted)
                          IN  /\ Answer("settle", <<>>,
                                        IF outcome = "chain_unavailable" \/ recordUp THEN outcome
                                        ELSE "settle_store_unavailable")
                              /\ Reaches(raw.tx, submitted)
                              /\ Recorded(payment, raw.tx, "lifecycle", outcome, recordUp)
    BY <1>1 DEF Settle
  <2> DEFINE refusal == First(WriteRefusals(proof, limited)
                              \o RelayRefusals(payment, agent, raw, storeUp))
  <2>2. CASE refusal # "pass"
    BY <2>1, <2>2 DEF Answer
  <2>3. CASE refusal = "pass"
    <3>1. PICK submitted \in SubmitOutcomes(raw.tx), recordUp \in BOOLEAN :
              /\ Answer("settle", <<>>,
                        IF FromSubmitOutcome(submitted) = "chain_unavailable" \/ recordUp
                        THEN FromSubmitOutcome(submitted) ELSE "settle_store_unavailable")
              /\ Recorded(payment, raw.tx, "lifecycle", FromSubmitOutcome(submitted), recordUp)
      BY <2>1, <2>3
    <3>2. said'.route = "settle"
      BY <3>1 DEF Answer
    <3>3. prepared' \subseteq prepared /\ settlements' \subseteq settlements \cup {new}
      BY <3>1 DEF Recorded
    <3> QED
      BY <3>2, <3>3
  <2> QED
    BY <2>2, <2>3
<1>4. new.route # "x402"
  OBVIOUS
<1> HIDE DEF new
<1>5. /\ IssuedIds' = IssuedIds /\ OffersInOrder' /\ OffersComposed'
      /\ \A p : Offer(p)' = Offer(p)
  BY <1>2, SameOffers DEF FrontInv
<1>6. SettlementsPay'
  BY <1>3, <1>4, <1>5, SettlementsKept DEF FrontInv
<1>7. VerifyAndSettleAgree' /\ DisclosureProvesPayment' /\ HonestPaymentSettles'
  BY <1>3, OtherRoute
<1> QED
  BY <1>3, <1>5, <1>6, <1>7 DEF FrontInv

LEMMA X402SettleKeeps ==
    ASSUME FrontInv, X402SettleHandler
    PROVE  FrontInv'
<1>1. PICK req \in FacilitatorRequests : X402Settle(req)
  BY DEF X402SettleHandler
<1>2. offers' = offers
  BY DEF X402SettleHandler
<1>3. IsPczt(req.payload.pczt)
  BY DEF FacilitatorRequests
<1>4. PICK limited \in BOOLEAN, storeUp \in BOOLEAN :
          LET refusal == SettleRefusal(req, limited, storeUp)
              tx == Extracted(req.payload.pczt)
          IN  \/ /\ refusal # "pass"
                 /\ Answer("x402_settle", req, refusal)
                 /\ UNCHANGED <<mempool, settlements, prepared>>
              \/ /\ refusal = "pass"
                 /\ \E submitted \in SubmitOutcomes(tx), recordUp \in BOOLEAN :
                        LET outcome == FromSubmitOutcome(submitted)
                        IN  /\ Answer("x402_settle", req, SettleAnswer(outcome))
                            /\ Reaches(tx, submitted)
                            /\ Recorded(req.requirements.payment, tx, "x402", outcome, recordUp)
  BY <1>1 DEF X402Settle
<1> DEFINE refusal == SettleRefusal(req, limited, storeUp)
           tx == Extracted(req.payload.pczt)
           payment == req.requirements.payment
           new == [payment |-> payment, tx |-> tx, route |-> "x402"]
<1>5. /\ IssuedIds' = IssuedIds /\ OffersInOrder' /\ OffersComposed'
      /\ \A p : Offer(p)' = Offer(p)
  BY <1>2, SameOffers DEF FrontInv
<1>6. CASE refusal # "pass"
  <2>1. Answer("x402_settle", req, refusal) /\ settlements' = settlements /\ prepared' = prepared
    BY <1>4, <1>6
  <2>2. VerifyAndSettleAgree' /\ DisclosureProvesPayment'
    BY <1>6, <2>1, RefusalAgrees, AgreedAnswer
  <2>3. SettlementsPay'
    BY <1>5, <2>1, SettlementsKept DEF FrontInv
  <2>4. ASSUME NEW p \in IssuedIds, WellFormed(Offer(p)), req = HonestFor(p, Offer(p))
        PROVE  ToTheHonest(refusal, p, prepared')
    <3>1. Composed(Offer(p)) /\ p \notin {"", "none", "unparseable"}
      BY OfferIsComposed DEF FrontInv
    <3>2. ToTheHonest(refusal, p, prepared)
      BY <1>3, <2>4, <3>1, HonestRefusal
    <3> QED
      BY <2>1, <3>2
  <2> HIDE DEF refusal
  <2>5. HonestPaymentSettles'
    BY <1>2, <2>1, <2>4, HonestAnswer
  <2> QED
    BY <1>5, <2>1, <2>2, <2>3, <2>5 DEF FrontInv
<1>7. CASE refusal = "pass"
  <2>1. PICK submitted \in SubmitOutcomes(tx), recordUp \in BOOLEAN :
            /\ Answer("x402_settle", req, SettleAnswer(FromSubmitOutcome(submitted)))
            /\ Recorded(payment, tx, "x402", FromSubmitOutcome(submitted), recordUp)
    BY <1>4, <1>7
  <2>2. X402Verdict(req) = "pass"
    BY <1>7, SettlePasses
  <2>3. SettleAnswer(FromSubmitOutcome(submitted)) \in SettleOutcomes
    BY DEF SettleAnswer, SettleOutcomes
  <2>4. Agrees(req, SettleAnswer(FromSubmitOutcome(submitted)))
    BY <2>2, <2>3 DEF Agrees
  <2>5. VerifyAndSettleAgree' /\ DisclosureProvesPayment'
    BY <2>1, <2>4, AgreedAnswer
  <2>6. /\ prepared' \subseteq prepared /\ settlements' \subseteq settlements \cup {new}
        /\ payment = "none" => settlements' = settlements
    BY <2>1 DEF Recorded
  <2>7. payment # "none" => payment \in prepared /\ PaysThePayee(new)
    BY <1>3, <1>7, PassedPays
  <2>8. new.payment = payment
    OBVIOUS
  <2> HIDE DEF new, payment
  <2>9. \A s \in settlements' : s \notin settlements => s = new /\ payment # "none"
    BY <2>6
  <2>10. payment # "none" => new.payment \in IssuedIds /\ PaysThePayee(new)
    BY <2>7, <2>8 DEF FrontInv
  <2>11. \A s \in settlements' : s \notin settlements => s.payment \in IssuedIds /\ PaysThePayee(s)
    BY <2>9, <2>10
  <2>12. SettlementsPay'
    BY <1>5, <2>11, SettlementsKept DEF FrontInv
  <2>13. HonestPaymentSettles'
    <3> DEFINE answer == SettleAnswer(FromSubmitOutcome(submitted))
    <3>1. \A p : ToTheHonest(answer, p, prepared')
      BY <2>3 DEF ToTheHonest
    <3>2. Answer("x402_settle", req, answer)
      BY <2>1
    <3> HIDE DEF answer
    <3> QED
      BY <1>2, <3>1, <3>2, HonestAnswer
  <2> QED
    BY <1>5, <2>5, <2>6, <2>12, <2>13 DEF FrontInv
<1> QED
  BY <1>6, <1>7

LEMMA VerifyKeeps ==
    ASSUME FrontInv, VerifyHandler
    PROVE  FrontInv'
<1>1. PICK i \in Issued, tx \in mempool \union mined :
          \E q \in Disclosures(offers[i], tx), limited \in BOOLEAN,
             answer \in [status : {"mined", "not_found", "in_mempool", "conflicting", "error"},
                         tx : mined \union {tx}, bytes : BOOLEAN] :
              /\ answer.status = "mined" => answer.tx \in mined
              /\ Answer("verify", q, IF limited THEN InvalidArgument("rate_limited")
                                     ELSE Verify(q, ChainNetwork, answer))
  BY DEF VerifyHandler
<1>2. PICK q \in Disclosures(offers[i], tx), limited \in BOOLEAN,
           answer \in [status : {"mined", "not_found", "in_mempool", "conflicting", "error"},
                       tx : mined \union {tx}, bytes : BOOLEAN] :
              /\ answer.status = "mined" => answer.tx \in mined
              /\ Answer("verify", q, IF limited THEN InvalidArgument("rate_limited")
                                     ELSE Verify(q, ChainNetwork, answer))
  BY <1>1
<1>3. offers' = offers /\ prepared' = prepared /\ settlements' = settlements /\ mined' = mined
  BY DEF VerifyHandler
<1>4. IsTransaction(q.disclosure.tx)
  BY DEF Disclosures, IsTransaction
<1> DEFINE reply == IF limited THEN InvalidArgument("rate_limited")
                    ELSE Verify(q, ChainNetwork, answer)
<1>5. said'.route = "verify" /\ said'.req = q /\ said'.answer = reply
  BY <1>2 DEF Answer
<1>6. ASSUME reply.verdict = "valid", reply.amount = "match", reply.recipient = "match"
      PROVE  q.txid \in mined /\ PaidTo(q.txid, q.payTo.owner) >= q.amount
  <2>1. ~limited
    BY <1>6 DEF InvalidArgument, Response
  <2>2. reply = Verify(q, ChainNetwork, answer)
    BY <2>1
  <2>3. /\ answer.status = "mined" /\ q.txid = answer.tx
        /\ PaidTo(q.txid, q.payTo.owner) >= q.amount
    BY <1>4, <1>6, <2>2, ValidIsPaid
  <2> QED
    BY <1>2, <2>3
<1> HIDE DEF reply
<1>7. DisclosureProvesPayment'
  BY <1>3, <1>5, <1>6 DEF DisclosureProvesPayment
<1>8. VerifyAndSettleAgree' /\ HonestPaymentSettles'
  BY <1>5 DEF VerifyAndSettleAgree, HonestPaymentSettles
<1>9. /\ IssuedIds' = IssuedIds /\ OffersInOrder' /\ OffersComposed'
      /\ \A p : Offer(p)' = Offer(p)
  BY <1>3, SameOffers DEF FrontInv
<1>10. SettlementsPay'
  BY <1>3, <1>9, SettlementsKept DEF FrontInv
<1> QED
  BY <1>3, <1>7, <1>8, <1>9, <1>10 DEF FrontInv

LEMMA X402VerifyKeeps ==
    ASSUME FrontInv, X402VerifyHandler
    PROVE  FrontInv'
<1>1. PICK req \in FacilitatorRequests, limited \in BOOLEAN :
          Answer("x402_verify", req, IF limited THEN "rate_limited" ELSE X402Verdict(req))
  BY DEF X402VerifyHandler
<1>2. offers' = offers /\ prepared' = prepared /\ settlements' = settlements
  BY DEF X402VerifyHandler
<1>3. IsPczt(req.payload.pczt)
  BY DEF FacilitatorRequests
<1> DEFINE answer == IF limited THEN "rate_limited" ELSE X402Verdict(req)
<1>4. ASSUME NEW p \in IssuedIds, WellFormed(Offer(p)), req = HonestFor(p, Offer(p))
      PROVE  ToTheHonest(answer, p, prepared')
  <2>1. Composed(Offer(p)) /\ p \notin {"", "none", "unparseable"}
    BY OfferIsComposed DEF FrontInv
  <2>2. X402RequestInvalidReason(req) = "pass" /\ VerifyPcztSettlement(req) = "pass"
    BY <1>3, <1>4, <2>1, HonestVerifies
  <2>3. X402Verdict(req) = "pass"
    BY <2>2 DEF X402Verdict
  <2>4. answer \in {"pass", "rate_limited"}
    BY <2>3
  <2> QED
    BY <2>4 DEF ToTheHonest
<1> HIDE DEF answer
<1>5. Answer("x402_verify", req, answer)
  BY <1>1 DEF answer
<1>6. HonestPaymentSettles'
  BY <1>2, <1>4, <1>5, HonestAnswer
<1>7. said'.route = "x402_verify"
  BY <1>5 DEF Answer
<1>8. VerifyAndSettleAgree' /\ DisclosureProvesPayment'
  BY <1>7 DEF VerifyAndSettleAgree, DisclosureProvesPayment
<1>9. /\ IssuedIds' = IssuedIds /\ OffersInOrder' /\ OffersComposed'
      /\ \A p : Offer(p)' = Offer(p)
  BY <1>2, SameOffers DEF FrontInv
<1>10. SettlementsPay'
  BY <1>2, <1>9, SettlementsKept DEF FrontInv
<1> QED
  BY <1>2, <1>6, <1>8, <1>9, <1>10 DEF FrontInv

LEMMA StartsRight == Init => FrontInv
<1> SUFFICES ASSUME Init PROVE FrontInv
  OBVIOUS
<1>1. offers = <<>> /\ prepared = {} /\ settlements = {} /\ said.route = "none"
  BY DEF Init, Quiet
<1>2. offers \in Seq({}) /\ Len(offers) = 0
  BY <1>1
<1>2a. IsSequence(offers)
  BY <1>2, SequenceIs
<1>2b. Len(offers) <= Len(Payments)
  BY <1>2, PaymentsAreListed
<1>3. OffersInOrder
  BY <1>2a, <1>2b DEF OffersInOrder
<1>4. /\ SettlementsPay /\ VerifyAndSettleAgree /\ DisclosureProvesPayment
      /\ HonestPaymentSettles
  BY <1>1 DEF SettlementsPay, VerifyAndSettleAgree, DisclosureProvesPayment, HonestPaymentSettles
<1>5. OffersComposed
  BY <1>2 DEF OffersComposed
<1> QED
  BY <1>1, <1>3, <1>4, <1>5 DEF FrontInv

LEMMA StepKeeps == FrontInv /\ [Next]_vars => FrontInv'
<1> SUFFICES ASSUME FrontInv, [Next]_vars PROVE FrontInv'
  OBVIOUS
<1>1. CASE PrepareHandler
  BY <1>1, PrepareKeeps
<1>2. CASE SettleHandler
  BY <1>2, SettleKeeps
<1>3. CASE VerifyHandler
  BY <1>3, VerifyKeeps
<1>4. CASE X402SettleHandler
  BY <1>4, X402SettleKeeps
<1>5. CASE AcceptsHandler
  <2>1. said'.route = "accepts"
    BY <1>5 DEF AcceptsHandler, Answer
  <2> QED
    BY <1>5, <2>1, QuietStep DEF AcceptsHandler
<1>6. CASE TipHandler
  <2>1. \E word : Answer("tip", <<>>, word)
    BY <1>6 DEF TipHandler
  <2>2. said'.route = "tip"
    BY <2>1 DEF Answer
  <2> QED
    BY <1>6, <2>2, QuietStep DEF TipHandler
<1>7. CASE X402VerifyHandler
  BY <1>7, X402VerifyKeeps
<1>8. CASE SupportedHandler
  <2>1. said'.route = "supported"
    BY <1>8 DEF SupportedHandler, Answer
  <2> QED
    BY <1>8, <2>1, QuietStep DEF SupportedHandler
<1>9. CASE HangUp
  <2>1. said'.route = "none"
    BY <1>9 DEF HangUp, Quiet
  <2> QED
    BY <1>9, <2>1, QuietStep DEF HangUp
<1>10. CASE NewBlock
  <2>1. said'.route = "none"
    BY <1>10 DEF NewBlock, Quiet
  <2> QED
    BY <1>10, <2>1, QuietStep DEF NewBlock
<1>11. CASE Lapse
  <2>1. said'.route = "none"
    BY <1>11 DEF Lapse, Quiet
  <2>2. prepared' \subseteq prepared /\ offers' = offers /\ settlements' = settlements
    BY <1>11 DEF Lapse
  <2> QED
    BY <2>1, <2>2, QuietStep
<1>12. CASE UNCHANGED vars
  <2>1. /\ IssuedIds' = IssuedIds /\ OffersInOrder' /\ OffersComposed'
        /\ \A p : Offer(p)' = Offer(p)
    BY <1>12, SameOffers DEF vars, FrontInv
  <2>2. SettlementsPay' /\ prepared' \subseteq IssuedIds'
    BY <1>12, <2>1, SettlementsKept DEF vars, FrontInv
  <2>3. VerifyAndSettleAgree' /\ DisclosureProvesPayment'
    BY <1>12 DEF vars, FrontInv, VerifyAndSettleAgree, DisclosureProvesPayment
  <2>4. HonestPaymentSettles'
    BY <1>12, <2>1 DEF vars, FrontInv, HonestPaymentSettles, HonestRequest
  <2> QED
    BY <2>1, <2>2, <2>3, <2>4 DEF FrontInv
<1> QED
  BY <1>1, <1>2, <1>3, <1>4, <1>5, <1>6, <1>7, <1>8, <1>9, <1>10, <1>11, <1>12 DEF Next

-----------------------------------------------------------------------------
(* The theorems *)

(* The invariant of the front door: offers are issued in the order of the     *)
(* payment ids and come from the registry, prepared rows belong to offers,   *)
(* every facilitator settlement pays its offer, and the exchange answered    *)
(* last was answered rightly.                                                *)
THEOREM InvHolds == Spec => []FrontInv
  BY StartsRight, StepKeeps, PTL DEF Spec

(* What x402_settle_handler settles under a payment id pays the payee of the  *)
(* preparation at least the amount it was offered for, on its network and    *)
(* with its expiry height, whatever requirements and PCZT the request had.   *)
THEOREM SettledIsPaid == Spec => []SettledPaysThePayee
<1>1. FrontInv => SettledPaysThePayee
  BY DEF FrontInv, SettlementsPay, PaysThePayee, SettledPaysThePayee
<1> QED
  BY <1>1, InvHolds, PTL

(* x402_settle_handler submits nothing that x402_verify_handler would call    *)
(* invalid, and refuses what that one calls valid only for the prepared row, *)
(* the network of the chain plane or the limiter.                            *)
THEOREM SameContract == Spec => []VerifyAndSettleAgree
<1>1. FrontInv => VerifyAndSettleAgree
  BY DEF FrontInv
<1> QED
  BY <1>1, InvHolds, PTL

(* An agent that pays what it was offered on a well-formed registry entry, with *)
(* the amount it reads from the URI and the pinned expiry height, is told by    *)
(* x402_settle_handler and x402_verify_handler that its payment passes, or that *)
(* the row or a service is gone, and never that the payment is wrong.           *)
THEOREM HonestIsNotRefused == Spec => []HonestPaymentSettles
<1>1. FrontInv => HonestPaymentSettles
  BY DEF FrontInv
<1> QED
  BY <1>1, InvHolds, PTL

(* A disclosure that verify_handler finds valid, with amount and recipient    *)
(* matching, belongs to a mined transaction that pays the expected address   *)
(* at least that amount.                                                     *)
THEOREM DisclosureIsProof == Spec => []DisclosureProvesPayment
<1>1. FrontInv => DisclosureProvesPayment
  BY DEF FrontInv
<1> QED
  BY <1>1, InvHolds, PTL
=============================================================================
