---------------------------- MODULE OutputProofs ----------------------------
(***************************************************************************)
(* Theorems about what leaves the program, each for any values of the      *)
(* constants:                                                              *)
(*   - the JSON document (Document), for any configurations, machines and  *)
(*     answers: which of its values are of this tick, and what is left of  *)
(*     a SystemMetrics that is read back;                                  *)
(*   - the WebSocket server (LwsServer), for any number of connections and *)
(*     documents, and that it implements Bulletin;                         *)
(*   - the log (LogSinks), for any number of logs, whatever renames or     *)
(*     sinks fail and wherever the program ends.                           *)
(* The three share no variable; each part has its own invariant.           *)
(***************************************************************************)
EXTENDS Document, LwsServer, LogSinks, TLAPS, SequenceTheorems,
        FiniteSetTheorems, WellFoundedInduction


-----------------------------------------------------------------------------
(* THE DOCUMENT                                                             *)

(* Induction over finite sets: in a family of them, one has no other below  *)
(* it. What fails for some set fails for such a set, and not for the set    *)
(* without one of its elements.                                             *)

LEMMA MinimalSet ==
  ASSUME NEW S, IsFiniteSet(S), NEW T, \A x \in T : x \subseteq S, T # {}
  PROVE  \E x \in T : \A y \in T : y \subseteq x => y = x
<1>1. IsWellFoundedOn(StrictSubsetOrdering(S), FiniteSubsetsOf(S))
  BY FS_StrictSubsetOrderingWellFounded
<1>2. T \subseteq FiniteSubsetsOf(S)
  BY FS_Subset DEF FiniteSubsetsOf
<1>3. \E x \in T : \A y \in T : ~ (<<y, x>> \in StrictSubsetOrdering(S))
  BY <1>1, <1>2, WFMin
<1>. QED  BY <1>3 DEF StrictSubsetOrdering

\* So a place in a sequence that some place has is had by a first one.
LEMMA LeastPlace ==
  ASSUME NEW n \in Nat, NEW T \in SUBSET (1..n), T # {}
  PROVE  Min(T) \in T /\ \A x \in T : Min(T) <= x
<1>. DEFINE Below == {1..x : x \in T}
<1>1. IsFiniteSet(1..n)
  BY FS_Interval
<1>2. \A s \in Below : s \subseteq 1..n
  OBVIOUS
<1>3. Below # {}
  OBVIOUS
<1>4. \E x \in T : \A t \in Below : t \subseteq 1..x => t = 1..x
  <2>. HIDE DEF Below
  <2>1. PICK s \in Below : \A t \in Below : t \subseteq s => t = s
    BY <1>1, <1>2, <1>3, MinimalSet
  <2>2. \E x \in T : s = 1..x
    BY DEF Below
  <2>. QED  BY <2>1, <2>2
<1>5. PICK x \in T : \A t \in Below : t \subseteq 1..x => t = 1..x
  BY <1>4
<1>6. \A y \in T : x <= y
  <2>. SUFFICES ASSUME NEW y \in T, y < x PROVE FALSE
    OBVIOUS
  <2>1. 1..y \in Below /\ 1..y \subseteq 1..x
    OBVIOUS
  <2>2. 1..y = 1..x
    BY <1>5, <2>1
  <2>3. x \in 1..x /\ x \notin 1..y
    OBVIOUS
  <2>. QED  BY <2>2, <2>3
<1>. QED  BY <1>5, <1>6 DEF Min

-----------------------------------------------------------------------------
(* The temperature. *)

\* A sensor of the package goes before the others, and without one the
\* hottest is shown: never a number that no sensor has.
LEMMA TemperatureIsRight ==
  ASSUME NEW sensors \in Seq(SensorType),
         \A i \in DOMAIN sensors : sensors[i].input # "garbled"
  PROVE  LET shown   == GetCpuTemperature(sensors)
             Package == {i \in DOMAIN sensors :
                           /\ sensors[i].chip /\ sensors[i].package
                           /\ sensors[i].input = "number"}
         IN IF Package # {} THEN shown \in Package
            ELSE shown # -1 => sensors[shown].chip
<1>. DEFINE Package  == {i \in DOMAIN sensors :
                           /\ sensors[i].chip /\ sensors[i].package
                           /\ sensors[i].input = "number"}
            Usable   == {i \in DOMAIN sensors :
                     sensors[i].chip /\ sensors[i].input # "unreadable"}
            Decisive == {i \in Usable : \/ sensors[i].input = "garbled"
                                        \/ sensors[i].package}
<1>1. Len(sensors) \in Nat /\ DOMAIN sensors = 1..Len(sensors)
  OBVIOUS
<1>2. \A i \in DOMAIN sensors :
        sensors[i].input # "unreadable" <=> sensors[i].input = "number"
  <2>. SUFFICES ASSUME NEW i \in DOMAIN sensors
                PROVE  sensors[i].input # "unreadable"
                         <=> sensors[i].input = "number"
    OBVIOUS
  <2>1. sensors[i] \in SensorType
    BY ElementOfSeq
  <2>2. sensors[i].input \in {"number", "unreadable", "garbled"}
    BY <2>1 DEF SensorType
  <2>. QED  BY <2>2
<1>3. Decisive = Package
  BY <1>2
<1>4. Decisive # {} => Min(Decisive) \in Decisive
  BY <1>1, LeastPlace
<1>5. Usable # {} => Min(Usable) \in Usable
  BY <1>1, LeastPlace
<1>6. GetCpuTemperature(sensors) =
        CASE Decisive # {} -> LET i == Min(Decisive)
                              IN IF sensors[i].input = "garbled" THEN -1 ELSE i
          [] Decisive = {} /\ Usable # {} -> Min(Usable)
          [] OTHER -> -1
  BY DEF GetCpuTemperature
<1>7. CASE Decisive # {}
  <2>1. GetCpuTemperature(sensors) = Min(Decisive)
    BY <1>4, <1>6, <1>7
  <2>. QED  BY <1>3, <1>4, <1>7, <2>1
<1>8. CASE Decisive = {}
  <2>1. GetCpuTemperature(sensors) = IF Usable # {} THEN Min(Usable) ELSE -1
    BY <1>6, <1>8
  <2>. QED  BY <1>3, <1>5, <1>8, <2>1
<1>. QED  BY <1>7, <1>8

LEMMA StreamsType ==
  ASSUME NEW T, NEW file \in Seq(T), NEW remote,
         NEW s \in Streams(file, remote)
  PROVE  s \in Seq(T) /\ Len(s) <= Len(file)
<1>1. CASE s = file
  BY <1>1
<1>2. CASE s = <<>>
  BY <1>2
<1>3. CASE s \in Prefixes(file)
  <2>1. PICK l \in 0..Len(file) : s = SubSeq(file, 1, l)
    BY <1>3 DEF Prefixes
  <2>2. SubSeq(file, 1, l) \in Seq(T) /\ Len(SubSeq(file, 1, l)) = l
    BY SubSeqProperties
  <2>. QED  BY <2>1, <2>2
<1>. QED  BY <1>1, <1>2, <1>3 DEF Streams

-----------------------------------------------------------------------------
(* /proc/meminfo, whole or broken off. *)

\* The first line with a label, behind the last one if there is none.
Place(label, lines) ==
  LET At == {i \in DOMAIN lines : lines[i].label = label}
  IN IF At = {} THEN Len(lines) + 1 ELSE Min(At)

\* GetMemUsage reads a value where its line is the first with that label.
LEMMA PlaceOf ==
  ASSUME NEW lines \in Seq(LineType), NEW label
  PROVE  LET p == Place(label, lines)
         IN /\ p \in 1..(Len(lines) + 1)
            /\ \A i \in 1..Len(lines) : i < p => lines[i].label # label
            /\ p <= Len(lines) =>
                 /\ lines[p].label = label
                 /\ ValueOf(label, lines) = lines[p].value
                 /\ ValueOf(label, lines) \in Nat
            /\ p > Len(lines) => ValueOf(label, lines) = -1
<1>. DEFINE At == {i \in DOMAIN lines : lines[i].label = label}
            p  == Place(label, lines)
<1>1. Len(lines) \in Nat /\ DOMAIN lines = 1..Len(lines)
  OBVIOUS
<1>2. p = IF At = {} THEN Len(lines) + 1 ELSE Min(At)
  BY DEF Place
<1>3. ValueOf(label, lines) = IF At = {} THEN -1 ELSE lines[Min(At)].value
  BY DEF ValueOf
<1>4. CASE At = {}
  BY <1>1, <1>2, <1>3, <1>4
<1>5. CASE At # {}
  <2>1. Min(At) \in At /\ \A i \in At : Min(At) <= i
    BY <1>1, <1>5, LeastPlace
  <2>2. lines[Min(At)] \in LineType
    BY <2>1, ElementOfSeq
  <2>3. lines[Min(At)].value \in Nat
    BY <2>2 DEF LineType
  <2>4. p = Min(At)
    BY <1>2, <1>5
  <2>. HIDE DEF p
  <2>5. /\ p \in 1..Len(lines) /\ lines[p].label = label
        /\ \A i \in 1..Len(lines) : i < p => lines[i].label # label
    <3>1. p \in At /\ \A i \in At : p <= i
      BY <2>1, <2>4
    <3>2. \A i \in 1..Len(lines) : lines[i].label = label => p <= i
      BY <1>1, <3>1
    <3>3. p \in 1..Len(lines) /\ lines[p].label = label
      BY <1>1, <3>1
    <3>. QED  BY <1>1, <3>2, <3>3
  <2>6. ValueOf(label, lines) = lines[p].value /\ lines[p].value \in Nat
    BY <1>3, <1>5, <2>3, <2>4
  <2>. QED  BY <1>1, <2>5, <2>6 DEF p
<1>. QED  BY <1>4, <1>5

\* An answer of whole lines has the value or, before its line, none.
LEMMA CutValue ==
  ASSUME NEW file \in Seq(LineType), NEW s \in Seq(LineType), NEW label,
         Len(s) <= Len(file), \A i \in 1..Len(s) : s[i] = file[i]
  PROVE  ValueOf(label, s) = IF Place(label, file) <= Len(s)
                             THEN ValueOf(label, file) ELSE -1
<1>. DEFINE p == Place(label, file)
            q == Place(label, s)
<1>1. /\ p \in 1..(Len(file) + 1)
      /\ \A i \in 1..Len(file) : i < p => file[i].label # label
      /\ p <= Len(file) => /\ file[p].label = label
                           /\ ValueOf(label, file) = file[p].value
      /\ p > Len(file) => ValueOf(label, file) = -1
  BY PlaceOf
<1>2. /\ q \in 1..(Len(s) + 1)
      /\ \A i \in 1..Len(s) : i < q => s[i].label # label
      /\ q <= Len(s) => /\ s[q].label = label
                        /\ ValueOf(label, s) = s[q].value
      /\ q > Len(s) => ValueOf(label, s) = -1
  BY PlaceOf
<1>3. Len(s) \in Nat /\ Len(file) \in Nat
  OBVIOUS
<1>. HIDE DEF p, q
<1>4. CASE p <= Len(s)
  <2>1. s[p] = file[p] /\ p \in 1..Len(s) /\ p \in 1..Len(file)
    BY <1>1, <1>3, <1>4
  <2>2. q <= p
    BY <1>1, <1>2, <1>3, <2>1
  <2>3. p <= q
    BY <1>1, <1>2, <1>3, <1>4, <2>2
  <2>4. q = p
    BY <1>1, <1>2, <2>2, <2>3
  <2>. QED  BY <1>1, <1>2, <1>3, <1>4, <2>1, <2>4 DEF p
<1>5. CASE p > Len(s)
  <2>1. q > Len(s)
    BY <1>1, <1>2, <1>3, <1>5
  <2>. QED  BY <1>1, <1>2, <1>3, <1>5, <2>1 DEF p
<1>. QED  BY <1>1, <1>3, <1>4, <1>5

\* An answer that ends inside a number has a shorter one there.
LEMMA ShortValue ==
  ASSUME NEW file \in Seq(LineType), NEW s \in Seq(LineType), NEW label,
         Len(s) \in 1..Len(file),
         \A i \in 1..(Len(s) - 1) : s[i] = file[i],
         s[Len(s)] = Short(file[Len(s)])
  PROVE  ValueOf(label, s) =
           IF Place(label, file) < Len(s) THEN ValueOf(label, file)
           ELSE IF Place(label, file) = Len(s)
                THEN ValueOf(label, file) \div 10 ELSE -1
<1>. DEFINE p == Place(label, file)
            q == Place(label, s)
            n == Len(s)
<1>1. /\ p \in 1..(Len(file) + 1)
      /\ \A i \in 1..Len(file) : i < p => file[i].label # label
      /\ p <= Len(file) => /\ file[p].label = label
                           /\ ValueOf(label, file) = file[p].value
      /\ p > Len(file) => ValueOf(label, file) = -1
  BY PlaceOf
<1>2. /\ q \in 1..(n + 1)
      /\ \A i \in 1..n : i < q => s[i].label # label
      /\ q <= n => /\ s[q].label = label
                   /\ ValueOf(label, s) = s[q].value
      /\ q > n => ValueOf(label, s) = -1
  BY PlaceOf
<1>3. n \in Nat /\ Len(file) \in Nat /\ n \in 1..n /\ n \in 1..Len(file)
  OBVIOUS
<1>4. file[n] \in LineType
  BY <1>3, ElementOfSeq
<1>5. s[n].label = file[n].label /\ s[n].value = file[n].value \div 10
  BY <1>4 DEF Short, LineType
<1>6. \A i \in 1..n : s[i].label = file[i].label
  BY <1>3, <1>5
<1>. HIDE DEF p, q, n
<1>7. CASE p <= n
  <2>1. p \in 1..n /\ p \in 1..Len(file) /\ s[p].label = label
    BY <1>1, <1>3, <1>6, <1>7
  <2>2. q <= p
    BY <1>1, <1>2, <1>3, <2>1
  <2>3. p <= q
    BY <1>1, <1>2, <1>3, <1>6, <1>7, <2>2
  <2>4. q = p
    BY <1>1, <1>2, <2>2, <2>3
  <2>5. p < n => s[p] = file[p]
    BY <1>3, <2>1 DEF n
  <2>. QED  BY <1>1, <1>2, <1>3, <1>5, <1>7, <2>1, <2>4, <2>5 DEF p, n
<1>8. CASE p > n
  <2>1. q > n
    BY <1>1, <1>2, <1>3, <1>6, <1>8
  <2>. QED  BY <1>1, <1>2, <1>3, <1>8, <2>1 DEF p, n
<1>. QED  BY <1>1, <1>3, <1>7, <1>8

\* An answer ends behind whole lines, or inside the number of the next one.
LEMMA AnswerBreaksOff ==
  ASSUME NEW file \in Seq(LineType), NEW remote,
         NEW s \in MeminfoStreams(file, remote)
  PROVE  \E l \in 0..Len(file), short \in BOOLEAN :
           /\ ~remote => ~short /\ l \in {0, Len(file)}
           /\ short => l < Len(file)
           /\ \A label :
                ValueOf(label, s) =
                  IF Place(label, file) <= l THEN ValueOf(label, file)
                  ELSE IF short /\ Place(label, file) = l + 1
                       THEN ValueOf(label, file) \div 10 ELSE -1
<1>1. CASE s \in Streams(file, remote)
  <2>1. s \in Seq(LineType) /\ Len(s) <= Len(file)
    BY <1>1, StreamsType
  <2>2. \A i \in 1..Len(s) : s[i] = file[i]
    <3>1. CASE s \in Prefixes(file)
      <4>1. PICK l \in 0..Len(file) : s = SubSeq(file, 1, l)
        BY <3>1 DEF Prefixes
      <4>. QED  BY <4>1, SubSeqProperties
    <3>. QED  BY <1>1, <3>1 DEF Streams
  <2>3. ~remote => Len(s) \in {0, Len(file)}
    BY <1>1 DEF Streams
  <2>4. Len(s) \in 0..Len(file)
    BY <2>1
  <2>5. \A label : ValueOf(label, s) =
                     IF Place(label, file) <= Len(s)
                     THEN ValueOf(label, file) ELSE -1
    BY <2>1, <2>2, CutValue
  <2>. WITNESS Len(s) \in 0..Len(file), FALSE \in BOOLEAN
  <2>. QED  BY <2>3, <2>4, <2>5
<1>2. CASE s \notin Streams(file, remote)
  <2>1. PICK j \in DOMAIN file :
          remote /\ s = Append(SubSeq(file, 1, j - 1), Short(file[j]))
    BY <1>2 DEF MeminfoStreams
  <2>2. j \in 1..Len(file) /\ j - 1 \in 0..Len(file) /\ Len(file) \in Nat
    BY <2>1
  <2>. DEFINE front == SubSeq(file, 1, j - 1)
  <2>3. /\ front \in Seq(LineType) /\ Len(front) = j - 1
        /\ \A i \in 1..(j - 1) : front[i] = file[i]
    BY <2>2, SubSeqProperties
  <2>4. Short(file[j]) \in LineType
    <3>1. file[j] \in LineType
      BY <2>1, ElementOfSeq
    <3>. QED  BY <3>1 DEF Short, LineType
  <2>. HIDE DEF front
  <2>5. /\ s \in Seq(LineType) /\ Len(s) = j /\ s[j] = Short(file[j])
        /\ \A i \in 1..(j - 1) : s[i] = file[i]
    BY <2>1, <2>2, <2>3, <2>4, AppendProperties DEF front
  <2>6. ASSUME NEW label
        PROVE  ValueOf(label, s) =
                 IF Place(label, file) < j THEN ValueOf(label, file)
                 ELSE IF Place(label, file) = j
                      THEN ValueOf(label, file) \div 10 ELSE -1
    BY <2>2, <2>5, ShortValue
  <2>7. \A label : Place(label, file) \in Nat
    BY PlaceOf
  <2>8. \A label : /\ Place(label, file) < j <=> Place(label, file) <= j - 1
                   /\ Place(label, file) = j <=> Place(label, file) = j - 1 + 1
    BY <2>2, <2>7
  <2>. WITNESS j - 1 \in 0..Len(file), TRUE \in BOOLEAN
  <2>. QED  BY <2>1, <2>2, <2>6, <2>8
<1>. QED  BY <1>1, <1>2

\* The share that is shown is the one of the two numbers, rounded down.
LEMMA Percent ==
  ASSUME NEW total \in Int, NEW rest \in Int
  PROVE  LET shown == MemInfo(total, rest)
         IN /\ shown.total_kb = total /\ shown.used_kb = total - rest
            /\ total > 0 /\ rest <= total =>
                 /\ shown.percent * total <= 100 * shown.used_kb
                 /\ (shown.percent + 1) * total > 100 * shown.used_kb
<1>1. ASSUME NEW a \in Nat, NEW b \in Nat, b > 0
      PROVE  /\ (a \div b) * b <= a /\ a < (a \div b + 1) * b
             /\ a \div b \in Nat
  BY <1>1
<1>2. ASSUME total > 0, rest <= total
      PROVE  Quotient(100 * (total - rest), total)
               = (100 * (total - rest)) \div total
  BY <1>2 DEF Quotient
<1>3. /\ MemInfo(total, rest).total_kb = total
      /\ MemInfo(total, rest).used_kb = total - rest
      /\ total > 0 => MemInfo(total, rest).percent
                        = Quotient(100 * (total - rest), total)
  BY DEF MemInfo
<1>4. ASSUME total > 0, rest <= total
      PROVE  LET q == Quotient(100 * (total - rest), total)
             IN /\ q * total <= 100 * (total - rest)
                /\ (q + 1) * total > 100 * (total - rest)
  <2>1. 100 * (total - rest) \in Nat
    BY <1>4
  <2>. QED  BY <1>1, <1>2, <1>4, <2>1
<1>. QED  BY <1>3, <1>4

\* A total stands before its rest, so that an answer that ends too early loses
\* the rest first: all or too much of the total is shown as used.
LEMMA MemoryIsRight ==
  ASSUME NEW file \in Seq(LineType), NEW remote \in BOOLEAN,
         NEW s \in MeminfoStreams(file, remote),
         NEW total, NEW rest, TotalBeforeRest(file, total, rest)
  PROVE  LET shown == MemInfo(ValueOf(total, s), ValueOf(rest, s))
             all   == ValueOf(total, file)
             used  == all - ValueOf(rest, file)
         IN \/ /\ shown.total_kb = all /\ shown.used_kb = used
               /\ all > 0 => /\ shown.percent * all <= 100 * used
                             /\ (shown.percent + 1) * all > 100 * used
            \/ shown = [total_kb |-> -1, used_kb |-> 0, percent |-> 0]
            \/ /\ remote /\ shown.total_kb \in {all, all \div 10}
               /\ shown.used_kb <= shown.total_kb + 1
               /\ \/ shown.used_kb = shown.total_kb + 1
                  \/ shown.total_kb = all /\ shown.used_kb >= used
<1>. DEFINE n  == Len(file)
            P  == Place(total, file)
            R  == Place(rest, file)
            T0 == ValueOf(total, file)
            R0 == ValueOf(rest, file)
            T  == ValueOf(total, s)
            L  == ValueOf(rest, s)
            shown == MemInfo(T, L)
<1>1. PICK l \in 0..n, short \in BOOLEAN :
        /\ ~remote => ~short /\ l \in {0, n}
        /\ short => l < n
        /\ T = IF P <= l THEN T0
               ELSE IF short /\ P = l + 1 THEN T0 \div 10 ELSE -1
        /\ L = IF R <= l THEN R0
               ELSE IF short /\ R = l + 1 THEN R0 \div 10 ELSE -1
  BY AnswerBreaksOff
<1>2. /\ n \in Nat /\ P \in 1..(n + 1) /\ R \in 1..(n + 1)
      /\ P <= n => T0 \in Nat
      /\ R <= n => R0 \in Nat
      /\ P > n => T0 = -1
      /\ R > n => R0 = -1
  BY PlaceOf
<1>3. P <= n /\ R <= n => P < R /\ R0 <= T0
  <2>1. P <= n => P \in DOMAIN file /\ file[P].label = total
    BY PlaceOf
  <2>2. R <= n => R \in DOMAIN file /\ file[R].label = rest
    BY PlaceOf
  <2>. QED  BY <2>1, <2>2 DEF TotalBeforeRest
<1>. HIDE DEF n, P, R, T0, R0, T, L
<1>4. /\ T0 \in Int /\ R0 \in Int
      /\ P <= n => T0 \div 10 \in Nat /\ T0 \div 10 <= T0
      /\ R <= n => R0 \div 10 \in Nat /\ R0 \div 10 <= R0
  BY <1>2
<1>5. T \in Int /\ L \in Int
  BY <1>1, <1>2, <1>4
<1>6. /\ shown.total_kb = T /\ shown.used_kb = T - L
      /\ T > 0 /\ L <= T =>
           /\ shown.percent * T <= 100 * shown.used_kb
           /\ (shown.percent + 1) * T > 100 * shown.used_kb
  BY <1>5, Percent
<1>7. \/ T = T0 /\ L = R0
      \/ T = -1 /\ L = -1
      \/ /\ remote /\ T \in {T0, T0 \div 10}
         /\ T - L <= T + 1
         /\ L = -1 \/ (T = T0 /\ T - L >= T0 - R0)
  BY <1>1, <1>2, <1>3, <1>4
<1>8. T0 > 0 => R0 <= T0
  BY <1>2, <1>3
<1>9. ASSUME T = T0, L = R0
      PROVE  /\ shown.total_kb = T0 /\ shown.used_kb = T0 - R0
             /\ T0 > 0 => /\ shown.percent * T0 <= 100 * (T0 - R0)
                          /\ (shown.percent + 1) * T0 > 100 * (T0 - R0)
  <2>. HIDE DEF shown
  <2>. QED  BY <1>6, <1>8, <1>9
<1>10. ASSUME T = -1, L = -1
       PROVE  shown = [total_kb |-> -1, used_kb |-> 0, percent |-> 0]
  BY <1>10 DEF MemInfo, Quotient
<1>11. ASSUME remote, T \in {T0, T0 \div 10}, T - L <= T + 1,
              L = -1 \/ (T = T0 /\ T - L >= T0 - R0)
       PROVE  /\ shown.total_kb \in {T0, T0 \div 10}
              /\ shown.used_kb <= shown.total_kb + 1
              /\ \/ shown.used_kb = shown.total_kb + 1
                 \/ shown.total_kb = T0 /\ shown.used_kb >= T0 - R0
  <2>. HIDE DEF shown
  <2>. QED  BY <1>5, <1>6, <1>11
<1>. HIDE DEF shown
<1>. QED  BY <1>7, <1>9, <1>10, <1>11 DEF shown, T, L, T0, R0

-----------------------------------------------------------------------------
(* Sums over finite sets, as MapThenSumSet takes them. *)

AnyOf(s) == CHOOSE x \in s : TRUE
SumStep(v, g, s) ==
  IF s = {} THEN 0 ELSE v[AnyOf(s)] + g[s \ {AnyOf(s)}]
\* g has the sum of v over each set of elements of S.
IsSum(v, g, S) == g = [s \in SUBSET S |-> SumStep(v, g, s)]

LEMMA AnyOfIn ==
  ASSUME NEW s, s # {}
  PROVE  /\ AnyOf(s) \in s
         /\ s \ {AnyOf(s)} \subseteq s /\ s \ {AnyOf(s)} # s
BY DEF AnyOf

\* There is one such function, and there is not more than one.
LEMMA SumsAgree ==
  ASSUME NEW S, IsFiniteSet(S), NEW v, NEW g, NEW h,
         NEW A \in SUBSET S, NEW B \in SUBSET S, IsSum(v, g, A), IsSum(v, h, B)
  PROVE  \A r \in SUBSET (A \cap B) : g[r] = h[r]
<1>. DEFINE T == {r \in SUBSET (A \cap B) : g[r] # h[r]}
<1>. SUFFICES ASSUME T # {} PROVE FALSE
  OBVIOUS
<1>1. \A r \in T : r \subseteq S
  OBVIOUS
<1>2. PICK r \in T : \A y \in T : y \subseteq r => y = r
  <2>. HIDE DEF T
  <2>. QED  BY <1>1, MinimalSet
<1>3. g[r] = SumStep(v, g, r) /\ h[r] = SumStep(v, h, r)
  BY DEF IsSum
<1>4. CASE r = {}
  BY <1>3, <1>4 DEF SumStep
<1>5. CASE r # {}
  <2>. DEFINE t == r \ {AnyOf(r)}
  <2>1. t \subseteq r /\ t # r
    BY <1>5, AnyOfIn
  <2>2. t \notin T
    BY <1>2, <2>1
  <2>3. g[t] = h[t]
    BY <2>1, <2>2
  <2>. QED  BY <1>3, <1>5, <2>3 DEF SumStep
<1>. QED  BY <1>4, <1>5

LEMMA SumExists ==
  ASSUME NEW S, IsFiniteSet(S), NEW v
  PROVE  \E g : IsSum(v, g, S)
<1>. DEFINE T == {U \in SUBSET S : ~ \E g : IsSum(v, g, U)}
<1>. SUFFICES ASSUME T # {} PROVE FALSE
  OBVIOUS
<1>1. \A U \in T : U \subseteq S
  OBVIOUS
<1>2. PICK U \in T : \A y \in T : y \subseteq U => y = U
  <2>. HIDE DEF T
  <2>. QED  BY <1>1, MinimalSet
<1>. DEFINE H(s) == CHOOSE g : IsSum(v, g, s)
            G == [s \in SUBSET U |->
                    IF s = {} THEN 0
                    ELSE v[AnyOf(s)] + H(s \ {AnyOf(s)})[s \ {AnyOf(s)}]]
<1>3. ASSUME NEW s \in SUBSET U, s # U
      PROVE  IsSum(v, H(s), s)
  <2>1. s \notin T /\ s \in SUBSET S
    BY <1>2, <1>3
  <2>. QED  BY <2>1
<1>4. ASSUME NEW t \in SUBSET U, t # U
      PROVE  G[t] = H(t)[t]
  <2>1. H(t)[t] = SumStep(v, H(t), t)
    <3>1. IsSum(v, H(t), t)
      BY <1>3, <1>4
    <3>. HIDE DEF H
    <3>. QED  BY <3>1 DEF IsSum
  <2>2. CASE t = {}
    BY <2>1, <2>2 DEF SumStep
  <2>3. CASE t # {}
    <3>. DEFINE r == t \ {AnyOf(t)}
    <3>1. r \subseteq t /\ r # t /\ r \subseteq U /\ r # U
      BY <2>3, AnyOfIn
    <3>2. IsSum(v, H(t), t) /\ IsSum(v, H(r), r)
      BY <1>3, <1>4, <3>1
    <3>3. t \in SUBSET S /\ r \in SUBSET S /\ r \in SUBSET (t \cap r)
      BY <3>1
    <3>4. H(t)[r] = H(r)[r]
      <4>. HIDE DEF H, r
      <4>. QED  BY <3>2, <3>3, SumsAgree
    <3>5. G[t] = v[AnyOf(t)] + H(r)[r]
      BY <2>3
    <3>6. H(t)[t] = v[AnyOf(t)] + H(t)[r]
      BY <2>1, <2>3 DEF SumStep
    <3>. QED  BY <3>4, <3>5, <3>6
  <2>. QED  BY <2>2, <2>3
<1>5. ASSUME NEW s \in SUBSET U
      PROVE  G[s] = SumStep(v, G, s)
  <2>1. CASE s = {}
    BY <2>1 DEF SumStep
  <2>2. CASE s # {}
    <3>. DEFINE t == s \ {AnyOf(s)}
    <3>1. t \in SUBSET U /\ t # U
      BY <2>2, AnyOfIn
    <3>2. G[s] = v[AnyOf(s)] + H(t)[t]
      BY <2>2
    <3>3. G[t] = H(t)[t]
      BY <1>4, <3>1
    <3>. HIDE DEF G, H
    <3>. QED  BY <2>2, <3>2, <3>3 DEF SumStep
  <2>. QED  BY <2>1, <2>2
<1>6. IsSum(v, G, U)
  <2>1. DOMAIN G = SUBSET U /\ G = [s \in SUBSET U |-> G[s]]
    OBVIOUS
  <2>. HIDE DEF G
  <2>. QED  BY <1>5, <2>1 DEF IsSum
<1>. QED  BY <1>6

\* Smaller numbers have smaller sums.
LEMMA SumsCompare ==
  ASSUME NEW S, IsFiniteSet(S), NEW v, NEW w, NEW g, NEW h,
         \A x \in S : v[x] \in Nat /\ w[x] \in Nat /\ v[x] <= w[x],
         IsSum(v, g, S), IsSum(w, h, S)
  PROVE  g[S] \in Nat /\ h[S] \in Nat /\ g[S] <= h[S]
<1>. DEFINE Fine(s) == g[s] \in Nat /\ h[s] \in Nat /\ g[s] <= h[s]
            T == {s \in SUBSET S : ~ Fine(s)}
<1>. SUFFICES ASSUME T # {} PROVE FALSE
  OBVIOUS
<1>1. \A r \in T : r \subseteq S
  OBVIOUS
<1>2. PICK r \in T : \A y \in T : y \subseteq r => y = r
  <2>. HIDE DEF T
  <2>. QED  BY <1>1, MinimalSet
<1>3. g[r] = SumStep(v, g, r) /\ h[r] = SumStep(w, h, r)
  BY DEF IsSum
<1>4. CASE r = {}
  BY <1>3, <1>4 DEF SumStep
<1>5. CASE r # {}
  <2>. DEFINE t == r \ {AnyOf(r)}
  <2>1. t \subseteq r /\ t # r /\ AnyOf(r) \in S
    BY <1>5, AnyOfIn
  <2>2. t \notin T
    BY <1>2, <2>1
  <2>3. Fine(t)
    BY <2>1, <2>2
  <2>4. /\ g[r] = v[AnyOf(r)] + g[t]
        /\ h[r] = w[AnyOf(r)] + h[t]
    BY <1>3, <1>5 DEF SumStep
  <2>5. v[AnyOf(r)] \in Nat /\ w[AnyOf(r)] \in Nat
          /\ v[AnyOf(r)] <= w[AnyOf(r)]
    BY <2>1
  <2>. HIDE DEF t
  <2>6. Fine(r)
    BY <2>3, <2>4, <2>5
  <2>. QED  BY <2>6
<1>. QED  BY <1>4, <1>5

\* The terms of Pages.
Terms(chunks, weight) ==
  [i \in DOMAIN chunks |-> chunks[i] * 2^(i - 1) * weight[i]]

\* The library sums with a recursive function, of which there is one.
LEMMA PagesAreSums ==
  ASSUME NEW chunks, NEW weight, IsFiniteSet(DOMAIN chunks)
  PROVE  \E g : /\ IsSum(Terms(chunks, weight), g, DOMAIN chunks)
                /\ Pages(chunks, weight) = g[DOMAIN chunks]
<1>. DEFINE S == DOMAIN chunks
            v == Terms(chunks, weight)
            Folds(it) ==
              it = [s \in SUBSET S |->
                      IF s = {} THEN 0
                      ELSE LET x == CHOOSE x \in s : TRUE
                           IN chunks[x] * 2^(x - 1) * weight[x]
                                + it[s \ {x}]]
<1>1. Pages(chunks, weight) = (CHOOSE it : Folds(it))[S]
  BY DEF Pages, MapThenSumSet, MapThenFoldSet
<1>2. ASSUME NEW it PROVE Folds(it) <=> IsSum(v, it, S)
  <2>1. ASSUME NEW s \in SUBSET S
        PROVE  (IF s = {} THEN 0
                ELSE LET x == CHOOSE x \in s : TRUE
                     IN chunks[x] * 2^(x - 1) * weight[x] + it[s \ {x}])
                 = SumStep(v, it, s)
    BY AnyOfIn DEF SumStep, Terms, AnyOf
  <2>. QED  BY <2>1 DEF IsSum
<1>3. \E it : IsSum(v, it, S)
  BY SumExists
<1>. HIDE DEF Folds
<1>4. Folds(CHOOSE it : Folds(it))
  BY <1>2, <1>3
<1>. QED  BY <1>1, <1>2, <1>4

LEMMA Powers ==
  ASSUME NEW e \in 0..10
  PROVE  2^e \in Nat
<1>1. /\ 2^0 \in Nat /\ 2^1 \in Nat /\ 2^2 \in Nat /\ 2^3 \in Nat
      /\ 2^4 \in Nat /\ 2^5 \in Nat /\ 2^6 \in Nat /\ 2^7 \in Nat
      /\ 2^8 \in Nat /\ 2^9 \in Nat /\ 2^10 \in Nat
  OBVIOUS
<1>2. e \in {0, 1, 2, 3, 4, 5, 6, 7, 8, 9, 10}
  OBVIOUS
<1>. QED  BY <1>1, <1>2, Zenon

LEMMA TermGrows ==
  ASSUME NEW a \in Nat, NEW b \in 0..10
  PROVE  a * b \in Nat /\ a * 10 \in Nat /\ a * b <= a * 10
OBVIOUS

\* No order is above 10, so that the index is at most 100 percent.
LEMMA IndexIsBounded ==
  ASSUME NEW chunks \in Seq(Nat), Len(chunks) <= 11
  PROVE  LET frag == CalculateFragmentationIndex(chunks)
         IN 0 <= frag.num /\ frag.num <= frag.den
<1>. DEFINE S == DOMAIN chunks
            tens   == [i \in S |-> 10]
            orders == [i \in S |-> i - 1]
            v == Terms(chunks, orders)
            w == Terms(chunks, tens)
<1>1. S = 1..Len(chunks) /\ S \subseteq 1..11 /\ IsFiniteSet(S)
  <2>1. Len(chunks) \in Nat /\ S = 1..Len(chunks)
    OBVIOUS
  <2>. HIDE DEF S
  <2>2. IsFiniteSet(1..Len(chunks))
    BY <2>1, FS_Interval
  <2>3. \A i \in 1..Len(chunks) : i \in 1..11
    BY <2>1
  <2>. QED  BY <2>1, <2>2, <2>3
<1>2. ASSUME NEW i \in S
      PROVE  v[i] \in Nat /\ w[i] \in Nat /\ v[i] <= w[i]
  <2>. DEFINE a == chunks[i] * 2^(i - 1)
              b == i - 1
  <2>1. i \in 1..11 /\ chunks[i] \in Nat
    BY <1>1
  <2>2. b \in 0..10
    BY <2>1
  <2>3. a \in Nat
    <3>1. 2^b \in Nat
      BY <2>2, Powers
    <3>. QED  BY <2>1, <3>1
  <2>4. v[i] = a * b /\ w[i] = a * 10
    BY DEF Terms
  <2>. HIDE DEF a, b, v, w
  <2>. QED  BY <2>2, <2>3, <2>4, TermGrows
<1>3. PICK g : IsSum(v, g, S) /\ Pages(chunks, orders) = g[S]
  BY <1>1, PagesAreSums
<1>4. PICK h : IsSum(w, h, S) /\ Pages(chunks, tens) = h[S]
  BY <1>1, PagesAreSums
<1>5. g[S] \in Nat /\ h[S] \in Nat /\ g[S] <= h[S]
  <2>. HIDE DEF S, v, w
  <2>. QED  BY <1>1, <1>2, <1>3, <1>4, SumsCompare
<1>6. CalculateFragmentationIndex(chunks) = Index(h[S], g[S])
  BY <1>3, <1>4 DEF CalculateFragmentationIndex
<1>. HIDE DEF S
<1>. QED  BY <1>5, <1>6 DEF Index

-----------------------------------------------------------------------------
(* Which members are written. *)

LEMMA LoadsAre ==
  /\ Loads = {"load_avg_1m", "load_avg_5m", "load_avg_15m"}
  /\ {LoadFields[j] : j \in 1..3} = Loads
<1>1. /\ LoadFields[1] = "load_avg_1m" /\ LoadFields[2] = "load_avg_5m"
      /\ LoadFields[3] = "load_avg_15m" /\ 1..3 = {1, 2, 3}
  BY DEF LoadFields
<1>2. {LoadFields[j] : j \in 1..3}
        = {LoadFields[1], LoadFields[2], LoadFields[3]}
  BY <1>1
<1>. QED  BY <1>1, <1>2 DEF Loads

\* All members that some document shows.
Shown == UNION {KeysOf[f] : f \in DOMAIN KeysOf}

\* What a lambda of the pipeline may write.
Fields ==
  [battery_info |-> {"battery_info"}, cpu_temp |-> {"cpu_temp_c"},
   memory |-> {"meminfo", "swapinfo"},
   uptime |-> {"uptime", "cpu_frequency_ghz"},
   load_and_process_stats |-> Loads, sysinfo |-> SystemNames]

\* The words of /proc/loadavg that are taken.
LoadWords == {"1m", "5m", "15m"}

LEMMA ReadingsWrite ==
  ASSUME NEW task, NEW a, a.loadavg \in Seq(LoadWords), Len(a.loadavg) <= 3
  PROVE  LET R == Readings(task, a)
         IN /\ DOMAIN R = DOMAIN Fields
            /\ \A f \in DOMAIN R :
                 /\ f # "load_and_process_stats" => DOMAIN R[f] = Fields[f]
                 /\ DOMAIN R[f] \subseteq Fields[f]
                 /\ \A k \in DOMAIN R[f] : R[f][k].at = "now"
                 /\ DOMAIN R["load_and_process_stats"] # {}
                      => "load_avg_1m" \in DOMAIN R["load_and_process_stats"]
<1>. DEFINE R == Readings(task, a)
<1>1. DOMAIN R = DOMAIN Fields
  BY DEF Readings, Fields
<1>2. DOMAIN Fields = {"battery_info", "cpu_temp", "memory", "uptime",
                       "load_and_process_stats", "sysinfo"}
  BY DEF Fields
<1>3. \A f \in DOMAIN R : \A k \in DOMAIN R[f] : R[f][k].at = "now"
  <2>. SUFFICES ASSUME NEW f \in DOMAIN R, NEW k \in DOMAIN R[f]
                PROVE  R[f][k].at = "now"
    OBVIOUS
  <2>1. CASE f = "battery_info"
    BY <2>1 DEF Readings, Now
  <2>2. CASE f = "cpu_temp"
    BY <2>2 DEF Readings, Now
  <2>3. CASE f = "memory"
    BY <2>3 DEF Readings, Now
  <2>4. CASE f = "uptime"
    BY <2>4 DEF Readings, Now
  <2>5. CASE f = "load_and_process_stats"
    BY <2>5 DEF Readings, Now
  <2>6. CASE f = "sysinfo"
    BY <2>6 DEF Readings, Now
  <2>. QED  BY <1>1, <1>2, <2>1, <2>2, <2>3, <2>4, <2>5, <2>6
<1>4. \A f \in DOMAIN R :
         f # "load_and_process_stats" => DOMAIN R[f] = Fields[f]
  <2>1. DOMAIN R["battery_info"] = Fields["battery_info"]
    BY DEF Readings, Fields
  <2>2. DOMAIN R["cpu_temp"] = Fields["cpu_temp"]
    BY DEF Readings, Fields
  <2>3. DOMAIN R["memory"] = Fields["memory"]
    BY DEF Readings, Fields
  <2>4. DOMAIN R["uptime"] = Fields["uptime"]
    BY DEF Readings, Fields
  <2>5. DOMAIN R["sysinfo"] = Fields["sysinfo"]
    BY DEF Readings, Fields
  <2>. HIDE DEF R
  <2>. QED  BY <1>1, <1>2, <2>1, <2>2, <2>3, <2>4, <2>5
<1>5. DOMAIN R["load_and_process_stats"]
        = {LoadFields[i] : i \in DOMAIN a.loadavg}
  BY DEF Readings, GetLoadAndProcessStats
<1>6. DOMAIN a.loadavg \subseteq 1..3
  OBVIOUS
<1>7. {LoadFields[i] : i \in DOMAIN a.loadavg} \subseteq Loads
  BY <1>6 DEF Loads
<1>8. DOMAIN a.loadavg # {} => 1 \in DOMAIN a.loadavg
  OBVIOUS
<1>9. LoadFields[1] = "load_avg_1m"
  BY DEF LoadFields
<1>10. Fields["load_and_process_stats"] = Loads
  BY DEF Fields
<1>11. DOMAIN R["load_and_process_stats"] # {}
         => "load_avg_1m" \in DOMAIN R["load_and_process_stats"]
  BY <1>5, <1>8, <1>9
<1>. HIDE DEF R
<1>. QED  BY <1>1, <1>2, <1>3, <1>4, <1>5, <1>7, <1>10, <1>11 DEF R

LEMMA AnswersType ==
  ASSUME NEW task, NEW a \in Answers(task)
  PROVE  a.loadavg \in Seq(LoadWords) /\ Len(a.loadavg) <= 3
<1>1. a.loadavg \in Streams(<<"1m", "5m", "15m">>, task.remote)
  BY DEF Answers
<1>2. <<"1m", "5m", "15m">> \in Seq(LoadWords)
  BY DEF LoadWords
<1>3. Len(<<"1m", "5m", "15m">>) = 3
  OBVIOUS
<1>. QED  BY <1>1, <1>2, <1>3, StreamsType

\* What the lambdas of the pipeline make of a SystemMetrics.
LEMMA ReadDataWrites ==
  ASSUME NEW task, NEW a \in Answers(task), NEW m
  PROVE  LET n == ReadData(task, a, m)
         IN /\ DOMAIN n = Members
            /\ \A k \in Members :
                 /\ \/ n[k] = m[k]
                    \/ /\ n[k].at = "now"
                       /\ \E f \in task.features \cap DOMAIN Fields :
                            k \in Fields[f]
                 /\ k \in Loads /\ n[k].at = "now" =>
                      m[k].at = "now" \/ n["load_avg_1m"].at = "now"
                 /\ \A f \in task.features \cap DOMAIN Fields :
                      k \in Fields[f] /\ f # "load_and_process_stats"
                        => n[k].at = "now"
<1>. DEFINE R == Readings(task, a)
            n == ReadData(task, a, m)
            Own == task.features \cap DOMAIN R
<1>1. a.loadavg \in Seq(LoadWords) /\ Len(a.loadavg) <= 3
  BY AnswersType
<1>2. /\ DOMAIN R = DOMAIN Fields
      /\ \A f \in DOMAIN R :
           /\ f # "load_and_process_stats" => DOMAIN R[f] = Fields[f]
           /\ DOMAIN R[f] \subseteq Fields[f]
           /\ \A k \in DOMAIN R[f] : R[f][k].at = "now"
      /\ DOMAIN R["load_and_process_stats"] # {}
           => "load_avg_1m" \in DOMAIN R["load_and_process_stats"]
  <2>1. "load_and_process_stats" \in DOMAIN Fields
    BY DEF Fields
  <2>. QED  BY <1>1, <2>1, ReadingsWrite
<1>3. n = [k \in Members |->
             IF \E f \in Own : k \in DOMAIN R[f]
             THEN LET f == CHOOSE g \in Own : k \in DOMAIN R[g]
                  IN R[f][k]
             ELSE m[k]]
  BY DEF ReadData, Overlay
<1>. HIDE DEF R, n
<1>4. \A k \in Members : (\E f \in Own : k \in DOMAIN R[f])
        => n[k].at = "now"
  <2>. SUFFICES ASSUME NEW k \in Members, \E f \in Own : k \in DOMAIN R[f]
                PROVE  n[k].at = "now"
    OBVIOUS
  <2>. DEFINE f == CHOOSE g \in Own : k \in DOMAIN R[g]
  <2>1. f \in Own /\ k \in DOMAIN R[f]
    OBVIOUS
  <2>2. n[k] = R[f][k]
    BY <1>3
  <2>. QED  BY <1>2, <2>1, <2>2
<1>5. \A k \in Members : (\A f \in Own : k \notin DOMAIN R[f])
        => n[k] = m[k]
  BY <1>3
<1>6. DOMAIN n = Members
  BY <1>3
<1>7. \A f \in DOMAIN Fields, k \in Loads : k \in Fields[f]
        => f = "load_and_process_stats"
  BY LoadsAre DEF Fields, SystemNames
<1>8. "load_avg_1m" \in Members
  BY DEF Members, LoadFields
<1>9. ASSUME NEW k \in Members, k \in Loads, n[k].at = "now",
             m[k].at # "now"
      PROVE  n["load_avg_1m"].at = "now"
  <2>1. PICK f \in Own : k \in DOMAIN R[f]
    BY <1>5, <1>9
  <2>2. f = "load_and_process_stats"
    BY <1>2, <1>7, <1>9, <2>1
  <2>. QED  BY <1>2, <1>4, <1>8, <2>1, <2>2
<1>10. ASSUME NEW k \in Members
       PROVE  \/ n[k] = m[k]
              \/ /\ n[k].at = "now"
                 /\ \E f \in task.features \cap DOMAIN Fields :
                      k \in Fields[f]
  BY <1>2, <1>4, <1>5
<1>11. ASSUME NEW k \in Members,
              NEW f \in task.features \cap DOMAIN Fields,
              k \in Fields[f], f # "load_and_process_stats"
       PROVE  n[k].at = "now"
  BY <1>2, <1>4, <1>11
<1>. QED  BY <1>6, <1>9, <1>10, <1>11 DEF n

\* What the members that a document is checked against are made of.
LEMMA ReadDataTells ==
  ASSUME NEW task, NEW a \in Answers(task), NEW m
  PROVE  LET r == ReadData(task, a, m)
         IN /\ r["cpu_temp_c"] \in
                 {m["cpu_temp_c"],
                  Now(<<GetCpuTemperature(SensorsOf(machine, task.remote))>>)}
            /\ \A k \in {"meminfo", "swapinfo"} :
                 r[k] \in {m[k], Now(<<GetMemUsage(a.meminfo)[k]>>)}
            /\ r["memory_fragmentation_index"]
                 = m["memory_fragmentation_index"]
<1>. DEFINE R == Readings(task, a)
            r == ReadData(task, a, m)
            Own == task.features \cap DOMAIN R
<1>1. /\ DOMAIN R = DOMAIN Fields
      /\ \A f \in DOMAIN R : DOMAIN R[f] \subseteq Fields[f]
  BY AnswersType, ReadingsWrite
<1>2. r = [k \in Members |->
             IF \E f \in Own : k \in DOMAIN R[f]
             THEN LET f == CHOOSE g \in Own : k \in DOMAIN R[g]
                  IN R[f][k]
             ELSE m[k]]
  BY DEF ReadData, Overlay
<1>3. R["cpu_temp"] =
        [k \in {"cpu_temp_c"} |->
           Now(<<GetCpuTemperature(SensorsOf(machine, task.remote))>>)]
  BY DEF Readings
<1>4. R["memory"] = [k \in {"meminfo", "swapinfo"} |->
                       Now(<<GetMemUsage(a.meminfo)[k]>>)]
  BY DEF Readings
<1>. HIDE DEF R, r
<1>5. ASSUME NEW k \in Members
      PROVE  r[k] = m[k] \/ \E f \in Own : k \in DOMAIN R[f] /\ r[k] = R[f][k]
  <2>1. CASE \E f \in Own : k \in DOMAIN R[f]
    <3>. DEFINE f == CHOOSE g \in Own : k \in DOMAIN R[g]
    <3>1. f \in Own /\ k \in DOMAIN R[f]
      BY <2>1
    <3>2. r[k] = R[f][k]
      BY <1>2, <2>1
    <3>. QED  BY <3>1, <3>2
  <2>2. CASE ~ \E f \in Own : k \in DOMAIN R[f]
    BY <1>2, <2>2
  <2>. QED  BY <2>1, <2>2
<1>6. \A f \in DOMAIN Fields :
        /\ "cpu_temp_c" \in Fields[f] => f = "cpu_temp"
        /\ \A k \in {"meminfo", "swapinfo"} : k \in Fields[f] => f = "memory"
        /\ "memory_fragmentation_index" \notin Fields[f]
  BY LoadsAre DEF Fields, SystemNames
<1>7. {"cpu_temp_c", "meminfo", "swapinfo", "memory_fragmentation_index"}
        \subseteq Members
  BY DEF Members, Uninitialised, StabilityMembers
<1>8. r["cpu_temp_c"] \in {m["cpu_temp_c"], R["cpu_temp"]["cpu_temp_c"]}
  BY <1>1, <1>5, <1>6, <1>7
<1>9. ASSUME NEW k \in {"meminfo", "swapinfo"}
      PROVE  r[k] \in {m[k], R["memory"][k]}
  BY <1>1, <1>5, <1>6, <1>7
<1>10. r["memory_fragmentation_index"] = m["memory_fragmentation_index"]
  BY <1>1, <1>5, <1>6, <1>7
<1>. QED  BY <1>3, <1>4, <1>8, <1>9, <1>10 DEF r

\* The index is written by no one but FragmentationIndex.
LEMMA PolledTells ==
  ASSUME NEW features, machine \in Machines
  PROVE  LET W == IF first THEN StabilitySnapshot(features)
                  ELSE Polled(features)
             k == "memory_fragmentation_index"
         IN k \in DOMAIN W => W[k] = Now(<<Fragmentation(machine.zones)>>)
<1>. DEFINE S == StabilitySnapshot(features)
            G == FragmentationIndex(features)
            L == ListsFilled(features) \cup
                   (IF "cpuinfo" \in features THEN {"cores"} ELSE {}) \cup
                   (IF "network_stats" \in features
                    THEN {"network_interfaces"} ELSE {}) \cup
                   (IF "diskstat" \in features THEN {"disks", "disk_io"}
                    ELSE {})
            T == [k \in L |-> Now(<<>>)]
            frag == "memory_fragmentation_index"
<1>1. DOMAIN <<>> = {}
  OBVIOUS
<1>2. frag \notin DOMAIN S
  <2>1. machine.stability_files \subseteq
          {"file_descriptors", "memory_pressure", "io_pressure"}
    BY DocumentAssumption DEF MachineType
  <2>. QED  BY <1>1, <2>1 DEF StabilitySnapshot
<1>3. frag \in DOMAIN G => G[frag] = Now(<<Fragmentation(machine.zones)>>)
  BY <1>1 DEF FragmentationIndex
<1>4. frag \notin L
  BY DEF ListsFilled
<1>5. Polled(features) = Over(Over(S, G), T) /\ DOMAIN T = L
  BY DEF Polled
<1>. HIDE DEF S, G, T, L, frag
<1>6. frag \in DOMAIN Over(Over(S, G), T)
        => /\ frag \in DOMAIN G
           /\ Over(Over(S, G), T)[frag] = G[frag]
  BY <1>2, <1>4, <1>5 DEF Over
<1>7. CASE first
  BY <1>2, <1>7 DEF S, frag
<1>8. CASE ~first
  BY <1>3, <1>5, <1>6, <1>8 DEF frag
<1>. QED  BY <1>7, <1>8

\* What the polling tasks write when they calculate, and at first.
LEMMA PolledWrite ==
  ASSUME NEW features, machine \in Machines
  PROVE  LET W == IF first THEN StabilitySnapshot(features)
                  ELSE Polled(features)
         IN /\ \A k \in DOMAIN W : W[k].at = "now"
            /\ DOMAIN W \subseteq
                 ListsFilled(features) \cup StabilityMembers
                   \cup {k \in {"cores"} : "cpuinfo" \in features}
                   \cup {k \in {"network_interfaces"} :
                           "network_stats" \in features}
                   \cup {k \in {"disks", "disk_io"} : "diskstat" \in features}
            /\ ~first =>
                 /\ ListsFilled(features) \subseteq DOMAIN W
                 /\ "cpuinfo" \in features => "cores" \in DOMAIN W
                 /\ "network_stats" \in features
                      => "network_interfaces" \in DOMAIN W
                 /\ "diskstat" \in features
                      => {"disks", "disk_io"} \subseteq DOMAIN W
<1>. DEFINE S == StabilitySnapshot(features)
            G == FragmentationIndex(features)
            L == ListsFilled(features) \cup
                   (IF "cpuinfo" \in features THEN {"cores"} ELSE {}) \cup
                   (IF "network_stats" \in features
                    THEN {"network_interfaces"} ELSE {}) \cup
                   (IF "diskstat" \in features THEN {"disks", "disk_io"}
                    ELSE {})
            T == [k \in L |-> Now(<<>>)]
<1>1. DOMAIN S \subseteq StabilityMembers /\ \A k \in DOMAIN S : S[k].at = "now"
  <2>1. DOMAIN <<>> = {}
    OBVIOUS
  <2>2. machine.stability_files \subseteq StabilityMembers
    BY DocumentAssumption DEF MachineType, StabilityMembers
  <2>. QED  BY <2>1, <2>2 DEF StabilitySnapshot, Now
<1>2. DOMAIN G \subseteq StabilityMembers /\ \A k \in DOMAIN G : G[k].at = "now"
  <2>1. DOMAIN <<>> = {}
    OBVIOUS
  <2>. QED  BY <2>1 DEF FragmentationIndex, Now, StabilityMembers
<1>3. DOMAIN T = L /\ \A k \in L : T[k].at = "now"
  BY DEF Now
<1>4. Polled(features) = Over(Over(S, G), T)
  BY DEF Polled
<1>. HIDE DEF S, G, T
<1>5. DOMAIN Over(Over(S, G), T) = (DOMAIN S \cup DOMAIN G) \cup L
  BY <1>3 DEF Over
<1>6. \A k \in DOMAIN Over(Over(S, G), T) : Over(Over(S, G), T)[k].at = "now"
  BY <1>1, <1>2, <1>3 DEF Over
<1>7. CASE first
  BY <1>1, <1>7 DEF S
<1>8. CASE ~first
  BY <1>1, <1>2, <1>4, <1>5, <1>6, <1>8
<1>. QED  BY <1>7, <1>8

\* The features whose lambdas of the pipeline put keys into the document.
KeyFeatures ==
  {"sysinfo", "uptime", "load_and_process_stats", "network_stats", "memory",
   "cpu_temp", "cpuinfo", "diskstat", "avg_cpu", "realtime_cpu", "avg_mem",
   "realtime_mem"}

LEMMA KeysAre ==
  /\ DOMAIN KeysOf = KeyFeatures
  /\ KeysOf["sysinfo"] = SystemNames
  /\ KeysOf["uptime"] = {"uptime", "cpu_frequency_ghz"}
  /\ KeysOf["load_and_process_stats"] = Loads \cup Counts
  /\ KeysOf["network_stats"] = {"network_interfaces"}
  /\ KeysOf["memory"] = {"meminfo", "swapinfo"}
  /\ KeysOf["cpu_temp"] = {"cpu_temp_c"}
  /\ KeysOf["cpuinfo"] = {"cores"}
  /\ KeysOf["diskstat"] = {"disks", "disk_io"}
  /\ KeysOf["avg_cpu"] = {"top_processes_avg_cpu"}
  /\ KeysOf["realtime_cpu"] = {"top_processes_real_cpu"}
  /\ KeysOf["avg_mem"] = {"top_processes_avg_mem"}
  /\ KeysOf["realtime_mem"] = {"top_processes_real_mem"}
  BY LoadsAre DEF KeysOf, KeyFeatures

LEMMA PipelineHas ==
  ASSUME NEW F, NEW f \in F, f \in KeyFeatures
  PROVE  KeysOf[f] \subseteq Pipeline(F)
  BY KeysAre DEF Pipeline

\* What one task makes of a SystemMetrics in its turn.
LEMMA TaskWrites ==
  ASSUME NEW task, NEW a \in Answers(task), NEW m, machine \in Machines
  PROVE  LET n   == Poll(task.features, ReadData(task, a, m))
             own == Pipeline(task.features)
         IN /\ DOMAIN n = Members
            /\ \A k \in Members :
                 /\ n[k] = m[k] \/ n[k].at = "now"
                 /\ k \in Counts => n[k] = m[k]
                 /\ k \in Loads /\ n[k].at = "now" =>
                      m[k].at = "now" \/ n["load_avg_1m"].at = "now"
                 /\ k \in Shown \ own /\ k # "top_processes_real_mem"
                      => n[k] = m[k]
                 /\ ~first /\ k \in own \ (Counts \cup Loads)
                      => n[k].at = "now"
<1>. DEFINE F == task.features
            r == ReadData(task, a, m)
            W == IF first THEN StabilitySnapshot(F) ELSE Polled(F)
            n == Poll(F, r)
            own == Pipeline(F)
            Tables == ListsFilled(F) \cup StabilityMembers
                   \cup {k \in {"cores"} : "cpuinfo" \in F}
                   \cup {k \in {"network_interfaces"} :
                           "network_stats" \in F}
                   \cup {k \in {"disks", "disk_io"} : "diskstat" \in F}
<1>1. /\ DOMAIN r = Members
      /\ \A k \in Members :
                 /\ \/ r[k] = m[k]
                    \/ /\ r[k].at = "now"
                       /\ \E f \in F \cap DOMAIN Fields : k \in Fields[f]
                 /\ k \in Loads /\ r[k].at = "now" =>
                      m[k].at = "now" \/ r["load_avg_1m"].at = "now"
                 /\ \A f \in F \cap DOMAIN Fields :
                      k \in Fields[f] /\ f # "load_and_process_stats"
                        => r[k].at = "now"
  BY ReadDataWrites
<1>2. /\ \A k \in DOMAIN W : W[k].at = "now"
      /\ DOMAIN W \subseteq Tables
      /\ ~first =>
           /\ ListsFilled(F) \subseteq DOMAIN W
           /\ "cpuinfo" \in F => "cores" \in DOMAIN W
           /\ "network_stats" \in F => "network_interfaces" \in DOMAIN W
           /\ "diskstat" \in F => {"disks", "disk_io"} \subseteq DOMAIN W
  BY PolledWrite
<1>3. n = [k \in DOMAIN W \cup DOMAIN r |->
             IF k \in DOMAIN W THEN W[k] ELSE r[k]]
  BY DEF Poll, Over
<1>4. ListsFilled(F) \subseteq ProcessLists
  BY DEF ListsFilled, ProcessLists
<1>5. ProcessLists \cup StabilityMembers
        \cup {"cores", "network_interfaces", "disks", "disk_io"}
          \subseteq Members \ (Counts \cup Loads)
  <2>1. Counts \cup Loads = {"processes_total", "processes_running",
                      "load_avg_1m", "load_avg_5m", "load_avg_15m"}
    BY LoadsAre DEF Counts
  <2>. QED  BY <2>1 DEF Members, ProcessLists, StabilityMembers
<1>6. Tables \subseteq Members \ (Counts \cup Loads)
  BY <1>4, <1>5
<1>. HIDE DEF r, W, n
<1>7. DOMAIN n = Members
  BY <1>1, <1>2, <1>3, <1>6
<1>8. \A k \in Members : k \in DOMAIN W => n[k].at = "now"
  BY <1>2, <1>3
<1>9. \A k \in Members : k \notin DOMAIN W => n[k] = r[k]
  BY <1>1, <1>3
<1>10. "load_avg_1m" \in Members /\ "load_avg_1m" \in Loads
  BY LoadsAre DEF Members
<1>11. ASSUME NEW k \in Members
       PROVE  n[k] = m[k] \/ n[k].at = "now"
  BY <1>1, <1>8, <1>9
<1>12. ASSUME NEW k \in Counts
       PROVE  n[k] = m[k]
  <2>1. k \in Members
    BY DEF Members
  <2>2. \A f \in DOMAIN Fields : k \notin Fields[f]
    BY LoadsAre DEF Fields, Counts, SystemNames
  <2>. QED  BY <1>1, <1>2, <1>6, <1>9, <2>1, <2>2
<1>13. ASSUME NEW k \in Members, k \in Loads, n[k].at = "now"
       PROVE  m[k].at = "now" \/ n["load_avg_1m"].at = "now"
  BY <1>1, <1>2, <1>6, <1>9, <1>10, <1>13
<1>14. ASSUME NEW k \in Members, k \in Shown, k \notin own,
              k # "top_processes_real_mem"
       PROVE  n[k] = m[k]
  <2>1. ASSUME NEW f \in F \cap DOMAIN Fields, k \in Fields[f]
        PROVE  FALSE
    <3>1. f # "battery_info"
      <4>1. "battery_info" \notin Shown
        BY KeysAre, LoadsAre
           DEF Shown, KeyFeatures, SystemNames, Counts
      <4>. QED  BY <1>14, <2>1, <4>1 DEF Fields
    <3>2. f \in KeyFeatures /\ Fields[f] \subseteq KeysOf[f]
      BY <3>1, KeysAre DEF Fields, KeyFeatures
    <3>. QED  BY <1>14, <2>1, <3>2, PipelineHas
  <2>2. k \notin Tables
    <3>1. ASSUME k \in ListsFilled(F) PROVE FALSE
      BY <1>14, <3>1, KeysAre, PipelineHas DEF ListsFilled, KeyFeatures
    <3>2. ASSUME k \in StabilityMembers PROVE FALSE
      <4>1. StabilityMembers \cap Shown = {}
        BY KeysAre, LoadsAre
           DEF Shown, KeyFeatures, SystemNames, Counts, StabilityMembers
      <4>. QED  BY <1>14, <3>2, <4>1
    <3>3. ASSUME k = "cores", "cpuinfo" \in F PROVE FALSE
      BY <1>14, <3>3, KeysAre, PipelineHas DEF KeyFeatures
    <3>4. ASSUME k = "network_interfaces", "network_stats" \in F PROVE FALSE
      BY <1>14, <3>4, KeysAre, PipelineHas DEF KeyFeatures
    <3>5. ASSUME k \in {"disks", "disk_io"}, "diskstat" \in F PROVE FALSE
      BY <1>14, <3>5, KeysAre, PipelineHas DEF KeyFeatures
    <3>. QED  BY <3>1, <3>2, <3>3, <3>4, <3>5
  <2>. QED  BY <1>1, <1>2, <1>9, <2>1, <2>2
<1>15. ASSUME NEW k \in Members, ~first, k \in own,
              k \notin Counts \cup Loads
       PROVE  n[k].at = "now"
  <2>1. PICK f \in F \cap KeyFeatures : k \in KeysOf[f]
    BY <1>15, KeysAre DEF Pipeline
  <2>2. ASSUME f \in {"sysinfo", "uptime", "memory", "cpu_temp"}
        PROVE  n[k].at = "now"
    <3>1. f \in DOMAIN Fields /\ Fields[f] = KeysOf[f]
      <4>1. /\ {"sysinfo", "uptime", "memory", "cpu_temp"}
                 \subseteq DOMAIN Fields
            /\ Fields["sysinfo"] = SystemNames
            /\ Fields["uptime"] = {"uptime", "cpu_frequency_ghz"}
            /\ Fields["memory"] = {"meminfo", "swapinfo"}
            /\ Fields["cpu_temp"] = {"cpu_temp_c"}
        BY DEF Fields
      <4>. QED  BY <2>2, <4>1, KeysAre
    <3>2. r[k].at = "now"
      BY <1>1, <2>1, <2>2, <3>1
    <3>. QED  BY <1>8, <1>9, <3>2
  <2>3. ASSUME f \in {"network_stats", "cpuinfo", "diskstat"}
        PROVE  n[k].at = "now"
    <3>1. k \in DOMAIN W
      BY <1>2, <1>15, <2>1, <2>3, KeysAre
    <3>. QED  BY <1>8, <3>1
  <2>4. ASSUME f \in {"avg_cpu", "realtime_cpu", "avg_mem", "realtime_mem"}
        PROVE  n[k].at = "now"
    <3>1. k \in ListsFilled(F)
      BY <2>1, <2>4, KeysAre DEF ListsFilled
    <3>. QED  BY <1>2, <1>8, <1>15, <3>1
  <2>5. f # "load_and_process_stats"
    BY <1>15, <2>1, KeysAre
  <2>. QED  BY <2>1, <2>2, <2>3, <2>4, <2>5 DEF KeyFeatures
<1>. HIDE DEF own
<1>. QED  BY <1>7, <1>11, <1>12, <1>13, <1>14, <1>15 DEF n, r, own

LEMMA TaskTells ==
  ASSUME NEW task, NEW a \in Answers(task), NEW m, machine \in Machines
  PROVE  LET n == Poll(task.features, ReadData(task, a, m))
         IN /\ n["cpu_temp_c"] \in
                 {m["cpu_temp_c"],
                  Now(<<GetCpuTemperature(SensorsOf(machine, task.remote))>>)}
            /\ \A k \in {"meminfo", "swapinfo"} :
                 \/ n[k] = m[k]
                 \/ \E lines \in MeminfoStreams(machine.meminfo, task.remote) :
                      n[k] = Now(<<GetMemUsage(lines)[k]>>)
            /\ n["memory_fragmentation_index"] \in
                 {m["memory_fragmentation_index"],
                  Now(<<Fragmentation(machine.zones)>>)}
<1>. DEFINE F == task.features
            r == ReadData(task, a, m)
            W == IF first THEN StabilitySnapshot(F) ELSE Polled(F)
            n == Poll(F, r)
            frag == "memory_fragmentation_index"
<1>1. /\ r["cpu_temp_c"] \in
           {m["cpu_temp_c"],
            Now(<<GetCpuTemperature(SensorsOf(machine, task.remote))>>)}
      /\ \A k \in {"meminfo", "swapinfo"} :
           r[k] \in {m[k], Now(<<GetMemUsage(a.meminfo)[k]>>)}
      /\ r[frag] = m[frag]
  BY ReadDataTells
<1>2. DOMAIN r = Members
  BY ReadDataWrites
<1>3. frag \in DOMAIN W => W[frag] = Now(<<Fragmentation(machine.zones)>>)
  BY PolledTells
<1>4. {"cpu_temp_c", "meminfo", "swapinfo"} \cap DOMAIN W = {}
  <2>1. DOMAIN W \subseteq
          ListsFilled(F) \cup StabilityMembers
            \cup {k \in {"cores"} : "cpuinfo" \in F}
            \cup {k \in {"network_interfaces"} : "network_stats" \in F}
            \cup {k \in {"disks", "disk_io"} : "diskstat" \in F}
    BY PolledWrite
  <2>. HIDE DEF W
  <2>. QED  BY <2>1 DEF ListsFilled, StabilityMembers
<1>5. n = [k \in DOMAIN W \cup DOMAIN r |->
             IF k \in DOMAIN W THEN W[k] ELSE r[k]]
  BY DEF Poll, Over
<1>6. {"cpu_temp_c", "meminfo", "swapinfo", frag} \subseteq Members
  BY DEF Members, Uninitialised, StabilityMembers
<1>7. a.meminfo \in MeminfoStreams(machine.meminfo, task.remote)
  BY DEF Answers
<1>. HIDE DEF n, r, W
<1>8. \A k \in {"cpu_temp_c", "meminfo", "swapinfo"} : n[k] = r[k]
  BY <1>2, <1>4, <1>5, <1>6
<1>9. n[frag] = IF frag \in DOMAIN W THEN W[frag] ELSE r[frag]
  BY <1>2, <1>5, <1>6
<1>. QED  BY <1>1, <1>3, <1>7, <1>8, <1>9 DEF n, r

-----------------------------------------------------------------------------
(* The inductive invariant.                                                 *)

\* What the age of a value tells of the tasks that have run in this tick.
ValueInv(i, k) ==
  LET at  == metrics[i][k].at
      own == Pipeline(tasks[i].features)
  IN /\ k \notin Uninitialised => at # "never"
     /\ k \in Counts => at = "initial"
     /\ next # 0 /\ i >= next => at # "now"
     /\ ~first /\ i < next /\ k \in own \ (Counts \cup Loads) => at = "now"
     /\ at = "now" /\ k \in Loads => metrics[i]["load_avg_1m"].at = "now"
     /\ at = "now" /\ k \in Shown \ own => k = "top_processes_real_mem"

\* Every task has a SystemMetrics with all its members.
MetricsInv ==
  /\ tasks \in Configs /\ machine \in Machines
  /\ next \in Nat /\ first \in BOOLEAN
  /\ DOMAIN metrics = DOMAIN tasks
  /\ \A i \in DOMAIN tasks :
       DOMAIN metrics[i] = Members /\ \A k \in Members : ValueInv(i, k)

\* What a value that was read in this tick was made of.
Told(i, k) ==
  LET value  == metrics[i][k]
      remote == tasks[i].remote
  IN value.at = "now" =>
       /\ k = "cpu_temp_c" =>
            value.what = <<GetCpuTemperature(SensorsOf(machine, remote))>>
       /\ k \in {"meminfo", "swapinfo"} =>
            \E lines \in MeminfoStreams(machine.meminfo, remote) :
              value.what = <<GetMemUsage(lines)[k]>>
       /\ k = "memory_fragmentation_index" =>
            value.what = <<Fragmentation(machine.zones)>>

ToldInv == \A i \in DOMAIN tasks, k \in Members : Told(i, k)

\* Documents are there between two ticks only.
BetweenTicks == next # 0 => output = <<>>

\* The two properties that the run checks, and what they rest on.
DocInv ==
  /\ MetricsInv /\ ToldInv /\ BetweenTicks
  /\ ReadInThisTick /\ TellsTheTruth

LEMMA TasksType ==
  ASSUME tasks \in Configs
  PROVE  Len(tasks) \in Nat /\ DOMAIN tasks = 1..Len(tasks)
BY DocumentAssumption

LEMMA FreshValues ==
  ASSUME NEW k \in Members
  PROVE  /\ DOMAIN Fresh = Members
         /\ k \notin Uninitialised => Fresh[k].at = "initial"
         /\ Fresh[k].at # "now"
BY DEF Fresh

LEMMA AgedValues ==
  ASSUME NEW m, NEW k \in Members
  PROVE  /\ DOMAIN Aged(m) = Members
         /\ Aged(m)[k].at # "now"
         /\ Aged(m)[k].at \in {m[k].at, "earlier"}
         /\ m[k].at # "now" => Aged(m)[k] = m[k]
BY DEF Aged

LEMMA CountsAre == Counts \subseteq Members \ Uninitialised
BY DEF Counts, Members, Uninitialised

LEMMA LoadsMembers == Loads \subseteq Members \ Uninitialised
  /\ "load_avg_1m" \in Loads
BY LoadsAre DEF Members, Uninitialised

LEMMA MetricsInit == DocInit => MetricsInv
<1>. SUFFICES ASSUME DocInit PROVE MetricsInv
  OBVIOUS
<1>1. DOMAIN metrics = DOMAIN tasks
  BY DEF DocInit
<1>2. ASSUME NEW i \in DOMAIN tasks
      PROVE  metrics[i] = Fresh
  BY DEF DocInit
<1>3. ASSUME NEW i \in DOMAIN tasks, NEW k \in Members
      PROVE  ValueInv(i, k)
  <2>1. first
    BY DEF DocInit
  <2>. QED  BY <1>2, <2>1, FreshValues, CountsAre DEF ValueInv
<1>. QED  BY <1>1, <1>2, <1>3, FreshValues DEF MetricsInv, DocInit, Fresh

LEMMA MetricsBegin == MetricsInv /\ BeginTick => MetricsInv'
<1>. SUFFICES ASSUME MetricsInv, BeginTick PROVE MetricsInv'
  OBVIOUS
<1>1. DOMAIN metrics' = DOMAIN tasks'
  BY DEF BeginTick
<1>2. ASSUME NEW i \in DOMAIN tasks
      PROVE  metrics'[i] = Aged(metrics[i])
  BY DEF BeginTick
<1>3. Len(tasks) \in Nat /\ DOMAIN tasks = 1..Len(tasks)
  BY TasksType DEF MetricsInv
<1>4. ASSUME NEW i \in DOMAIN tasks', NEW k \in Members
      PROVE  ValueInv(i, k)'
  <2>1. i \in DOMAIN tasks /\ tasks' = tasks /\ next' = 1
    BY <1>4 DEF BeginTick
  <2>2. ~(i < 1)
    BY <1>3, <2>1
  <2>3. ValueInv(i, k)
    BY <2>1 DEF MetricsInv
  <2>4. /\ metrics'[i][k].at # "now"
        /\ metrics'[i][k].at \in {metrics[i][k].at, "earlier"}
        /\ metrics[i][k].at # "now" => metrics'[i][k] = metrics[i][k]
    BY <1>2, <2>1, AgedValues
  <2>. QED  BY <2>1, <2>2, <2>3, <2>4 DEF ValueInv
<1>. QED  BY <1>1, <1>2, <1>4, AgedValues DEF MetricsInv, BeginTick, Aged

LEMMA MetricsRun == MetricsInv /\ RunTask => MetricsInv'
<1>. SUFFICES ASSUME MetricsInv, RunTask PROVE MetricsInv'
  OBVIOUS
<1>1. PICK a \in Answers(tasks[next]) :
        metrics' = [metrics EXCEPT ![next] =
          Poll(tasks[next].features, ReadData(tasks[next], a, @))]
  BY DEF RunTask
<1>. DEFINE m == metrics[next]
            n == Poll(tasks[next].features, ReadData(tasks[next], a, m))
            own == Pipeline(tasks[next].features)
<1>2. next \in DOMAIN tasks /\ DOMAIN metrics = DOMAIN tasks
  BY DEF RunTask, MetricsInv
<1>3. /\ metrics'[next] = n
      /\ \A i \in DOMAIN tasks \ {next} : metrics'[i] = metrics[i]
      /\ DOMAIN metrics' = DOMAIN tasks
  BY <1>1, <1>2
<1>4. Len(tasks) \in Nat /\ DOMAIN tasks = 1..Len(tasks)
  BY TasksType DEF MetricsInv
<1>5. /\ DOMAIN n = Members
      /\ \A k \in Members :
                 /\ n[k] = m[k] \/ n[k].at = "now"
                 /\ k \in Counts => n[k] = m[k]
                 /\ k \in Loads /\ n[k].at = "now" =>
                      m[k].at = "now" \/ n["load_avg_1m"].at = "now"
                 /\ k \in Shown \ own /\ k # "top_processes_real_mem"
                      => n[k] = m[k]
                 /\ ~first /\ k \in own \ (Counts \cup Loads)
                      => n[k].at = "now"
  BY TaskWrites DEF MetricsInv
<1>. HIDE DEF n
<1>6. ASSUME NEW i \in DOMAIN tasks, NEW k \in Members, i # next
      PROVE  ValueInv(i, k)'
  <2>1. ValueInv(i, k)
    BY DEF MetricsInv
  <2>2. metrics'[i] = metrics[i]
    BY <1>3, <1>6
  <2>3. /\ next' = next + 1 /\ tasks' = tasks /\ first' = first
        /\ next \in Nat /\ next # 0 /\ i \in Nat
    BY <1>2, <1>4 DEF RunTask, MetricsInv
  <2>. QED  BY <1>6, <2>1, <2>2, <2>3 DEF ValueInv
<1>7. ASSUME NEW i, i = next, NEW k \in Members
      PROVE  ValueInv(i, k)'
  <2>1. ValueInv(i, k)
    BY <1>2, <1>7 DEF MetricsInv
  <2>2. next' = next + 1 /\ tasks' = tasks /\ first' = first
        /\ next \in Nat /\ next # 0
    BY <1>2, <1>4 DEF RunTask, MetricsInv
  <2>3. metrics'[i] = n /\ m[k].at # "now"
    BY <1>3, <1>7, <2>1, <2>2 DEF ValueInv
  <2>4. /\ n[k] = m[k] \/ n[k].at = "now"
        /\ k \in Counts => n[k] = m[k]
        /\ k \in Loads /\ n[k].at = "now" => n["load_avg_1m"].at = "now"
        /\ k \in Shown \ own /\ k # "top_processes_real_mem" => n[k] = m[k]
        /\ ~first /\ k \in own \ (Counts \cup Loads) => n[k].at = "now"
    BY <1>5, <2>3
  <2>5. /\ k \notin Uninitialised => m[k].at # "never"
        /\ k \in Counts => m[k].at = "initial"
    BY <1>7, <2>1 DEF ValueInv
  <2>6. ~(i >= next')
    BY <1>7, <2>2
  <2>7. own = Pipeline(tasks'[i].features)
    BY <1>7, <2>2
  <2>. HIDE DEF own, m
  <2>. QED  BY <2>2, <2>3, <2>4, <2>5, <2>6, <2>7 DEF ValueInv
<1>8. ASSUME NEW i \in DOMAIN tasks
      PROVE  DOMAIN metrics'[i] = Members
  BY <1>3, <1>5 DEF MetricsInv
<1>9. ASSUME NEW i \in DOMAIN tasks, NEW k \in Members
      PROVE  ValueInv(i, k)'
  BY <1>6, <1>7
<1>10. /\ tasks' = tasks /\ machine' = machine /\ first' = first
       /\ next' = next + 1
  BY DEF RunTask
<1>11. /\ tasks' \in Configs /\ machine' \in Machines
       /\ next' \in Nat /\ first' \in BOOLEAN
  BY <1>10 DEF MetricsInv
<1>. QED  BY <1>3, <1>8, <1>9, <1>10, <1>11 DEF MetricsInv

\* Steps that run no task leave the values alone; with the last task done no
\* turn is left to come.
LEMMA MetricsKept ==
  ASSUME MetricsInv, UNCHANGED <<tasks, metrics, machine>>,
         \/ next' = next /\ first' = first
         \/ next' = 0 /\ first' = FALSE
  PROVE  MetricsInv'
<1>1. Len(tasks) \in Nat /\ DOMAIN tasks = 1..Len(tasks)
  BY TasksType DEF MetricsInv
<1>2. ASSUME NEW i \in DOMAIN tasks, NEW k \in Members
      PROVE  ValueInv(i, k)'
  <2>1. ValueInv(i, k)
    BY DEF MetricsInv
  <2>2. ~(i < 0)
    BY <1>1
  <2>. QED  BY <2>1, <2>2 DEF ValueInv
<1>3. next' \in Nat
  BY DEF MetricsInv
<1>4. first' \in BOOLEAN
  BY DEF MetricsInv
<1>. QED  BY <1>2, <1>3, <1>4 DEF MetricsInv

LEMMA PipelineShown ==
  ASSUME NEW features
  PROVE  /\ Pipeline(features) \subseteq Shown
         /\ Pipeline(features) \subseteq Members
         /\ Pipeline(features) \cap Loads # {}
              => "load_avg_1m" \in Pipeline(features)
<1>1. Pipeline(features) \subseteq Shown
  BY DEF Pipeline, Shown
<1>2. ASSUME NEW f \in KeyFeatures PROVE KeysOf[f] \subseteq Members
  <2>1. Loads \cup Counts \subseteq Members
    BY LoadsMembers, CountsAre
  <2>2. SystemNames \subseteq Members
    BY DEF Members
  <2>3. ProcessLists \subseteq Members
    BY DEF Members
  <2>4. {"uptime", "cpu_frequency_ghz", "network_interfaces", "meminfo",
         "swapinfo", "cpu_temp_c", "cores", "disks", "disk_io"}
          \subseteq Members
    BY DEF Members, Uninitialised
  <2>5. f \in {"avg_cpu", "realtime_cpu", "avg_mem", "realtime_mem"}
          => KeysOf[f] \subseteq ProcessLists
    BY KeysAre DEF ProcessLists
  <2>6. f \in {"uptime", "network_stats", "memory", "cpu_temp", "cpuinfo",
               "diskstat"}
          => KeysOf[f] \subseteq
               {"uptime", "cpu_frequency_ghz", "network_interfaces",
                "meminfo", "swapinfo", "cpu_temp_c", "cores", "disks",
                "disk_io"}
    BY KeysAre
  <2>7. f \in {"sysinfo", "load_and_process_stats"}
          => KeysOf[f] \subseteq Members
    BY <2>1, <2>2, KeysAre
  <2>. QED  BY <2>3, <2>4, <2>5, <2>6, <2>7 DEF KeyFeatures
<1>3. Pipeline(features) \subseteq Members
  BY <1>2, KeysAre DEF Pipeline
<1>4. ASSUME NEW k \in Pipeline(features) \cap Loads
      PROVE  "load_avg_1m" \in Pipeline(features)
  <2>1. PICK f \in features \cap KeyFeatures : k \in KeysOf[f]
    BY KeysAre DEF Pipeline
  <2>2. f = "load_and_process_stats"
    BY <2>1, KeysAre, LoadsAre DEF KeyFeatures, SystemNames
  <2>. QED  BY <2>1, <2>2, KeysAre, LoadsMembers, PipelineHas
<1>. QED  BY <1>1, <1>3, <1>4

\* The document shows the members of the features, which were all read.
LEMMA DocumentIsOfThisTick ==
  ASSUME MetricsInv, Done
  PROVE  ReadInThisTick'
<1>1. /\ tasks' = tasks /\ next > Len(tasks)
      /\ output' = IF first THEN <<>> ELSE Render
  BY DEF Done
<1>2. Len(tasks) \in Nat /\ DOMAIN tasks = 1..Len(tasks) /\ next \in Nat
  BY TasksType DEF MetricsInv
<1>3. CASE first
  <2>1. DOMAIN output' = {}
    BY <1>1, <1>3
  <2>. QED  BY <2>1 DEF ReadInThisTick
<1>4. CASE ~first
  <2>. DEFINE F(i) == tasks[i].features
  <2>1. output' = Render
    BY <1>1, <1>4
  <2>2. DOMAIN output' = DOMAIN tasks
    BY <2>1 DEF Render
  <2>3. ASSUME NEW i \in DOMAIN tasks
        PROVE  /\ DOMAIN output'[i] = Pipeline(F(1))
               /\ \A k \in Pipeline(F(1)) : output'[i][k] = metrics[i][k]
    BY <2>1 DEF Render, Serialize
  <2>4. ASSUME NEW i \in DOMAIN tasks, NEW k \in Pipeline(F(1))
        PROVE  LET at == output'[i][k].at
               IN IF k \in Pipeline(F(i))
                  THEN CASE k \in Counts -> at = "initial"
                         [] k \in Loads  ->
                              /\ at # "never"
                              /\ at = "now" =>
                                   output'[i]["load_avg_1m"].at = "now"
                         [] OTHER        -> at = "now"
                  ELSE /\ i # 1
                       /\ at = "now" => k = "top_processes_real_mem"
    <3>1. k \in Members /\ k \in Shown
      BY PipelineShown
    <3>2. ValueInv(i, k)
      BY <3>1 DEF MetricsInv
    <3>3. i < next /\ output'[i][k] = metrics[i][k]
      BY <1>1, <1>2, <2>3
    <3>4. k \in Loads =>
            output'[i]["load_avg_1m"] = metrics[i]["load_avg_1m"]
      BY <2>3, PipelineShown
    <3>5. CASE k \in Pipeline(F(i)) /\ k \in Counts
      <4>1. k \notin Loads
        BY <3>5, LoadsAre DEF Counts
      <4>. QED  BY <3>2, <3>3, <3>5, <4>1 DEF ValueInv
    <3>6. CASE k \in Pipeline(F(i)) /\ k \in Loads
      <4>1. k \notin Counts
        BY <3>6, LoadsAre DEF Counts
      <4>. QED  BY <3>2, <3>3, <3>4, <3>6, <4>1, LoadsMembers DEF ValueInv
    <3>7. CASE k \in Pipeline(F(i)) /\ k \notin Loads \cup Counts
      BY <1>4, <3>2, <3>3, <3>7 DEF ValueInv
    <3>8. CASE k \notin Pipeline(F(i))
      BY <3>1, <3>2, <3>3, <3>8 DEF ValueInv
    <3>. QED  BY <3>5, <3>6, <3>7, <3>8
  <2>. QED  BY <1>1, <2>2, <2>3, <2>4 DEF ReadInThisTick
<1>. QED  BY <1>3, <1>4

LEMMA ToldInit == DocInit => ToldInv
<1>. SUFFICES ASSUME DocInit, NEW i \in DOMAIN tasks, NEW k \in Members
              PROVE  Told(i, k)
  BY DEF ToldInv
<1>1. metrics[i] = Fresh
  BY DEF DocInit
<1>. QED  BY <1>1, FreshValues DEF Told

LEMMA ToldBegin == MetricsInv /\ ToldInv /\ BeginTick => ToldInv'
<1>. SUFFICES ASSUME MetricsInv, BeginTick,
                     NEW i \in DOMAIN tasks', NEW k \in Members
              PROVE  Told(i, k)'
  BY DEF ToldInv
<1>1. metrics'[i] = Aged(metrics[i])
  BY DEF BeginTick
<1>. QED  BY <1>1, AgedValues DEF Told

LEMMA ToldRun == MetricsInv /\ ToldInv /\ RunTask => ToldInv'
<1>. SUFFICES ASSUME MetricsInv, ToldInv, RunTask,
                     NEW i \in DOMAIN tasks', NEW k \in Members
              PROVE  Told(i, k)'
  BY DEF ToldInv
<1>1. PICK a \in Answers(tasks[next]) :
        metrics' = [metrics EXCEPT ![next] =
          Poll(tasks[next].features, ReadData(tasks[next], a, @))]
  BY DEF RunTask
<1>2. /\ next \in DOMAIN tasks /\ DOMAIN metrics = DOMAIN tasks
      /\ tasks' = tasks /\ machine' = machine /\ i \in DOMAIN tasks
      /\ machine \in Machines
  BY DEF RunTask, MetricsInv
<1>3. Len(tasks) \in Nat /\ DOMAIN tasks = 1..Len(tasks)
  BY TasksType DEF MetricsInv
<1>4. CASE i # next
  <2>1. metrics'[i] = metrics[i]
    BY <1>1, <1>2, <1>4
  <2>. QED  BY <1>2, <2>1 DEF ToldInv, Told
<1>5. CASE i = next
  <2>. DEFINE m == metrics[i]
              n == Poll(tasks[i].features, ReadData(tasks[i], a, m))
  <2>1. metrics'[i] = n
    BY <1>1, <1>2, <1>5
  <2>2. m[k].at # "now"
    <3>1. ValueInv(i, k)
      BY <1>2 DEF MetricsInv
    <3>2. next # 0 /\ i >= next
      BY <1>2, <1>3, <1>5
    <3>. QED  BY <3>1, <3>2 DEF ValueInv
  <2>3. /\ n["cpu_temp_c"] \in
             {m["cpu_temp_c"],
              Now(<<GetCpuTemperature(SensorsOf(machine, tasks[i].remote))>>)}
        /\ \A q \in {"meminfo", "swapinfo"} :
             \/ n[q] = m[q]
             \/ \E lines \in MeminfoStreams(machine.meminfo,
                                            tasks[i].remote) :
                  n[q] = Now(<<GetMemUsage(lines)[q]>>)
        /\ n["memory_fragmentation_index"] \in
             {m["memory_fragmentation_index"],
              Now(<<Fragmentation(machine.zones)>>)}
    BY <1>2, <1>5, TaskTells
  <2>. HIDE DEF m, n
  <2>4. ASSUME n[k].at = "now" PROVE n[k] # m[k]
    BY <2>2, <2>4
  <2>5. ASSUME n[k].at = "now", k = "cpu_temp_c"
        PROVE  n[k].what =
                 <<GetCpuTemperature(SensorsOf(machine, tasks[i].remote))>>
    BY <2>3, <2>4, <2>5 DEF Now
  <2>6. ASSUME n[k].at = "now", k \in {"meminfo", "swapinfo"}
        PROVE  \E lines \in MeminfoStreams(machine.meminfo,
                                           tasks[i].remote) :
                 n[k].what = <<GetMemUsage(lines)[k]>>
    <3>1. PICK lines \in MeminfoStreams(machine.meminfo, tasks[i].remote) :
            n[k] = Now(<<GetMemUsage(lines)[k]>>)
      BY <2>3, <2>4, <2>6
    <3>2. n[k].what = <<GetMemUsage(lines)[k]>>
      BY <3>1 DEF Now
    <3>. QED  BY <3>2
  <2>7. ASSUME n[k].at = "now", k = "memory_fragmentation_index"
        PROVE  n[k].what = <<Fragmentation(machine.zones)>>
    BY <2>3, <2>4, <2>7 DEF Now
  <2>. QED  BY <1>2, <2>1, <2>5, <2>6, <2>7 DEF Told
<1>. QED  BY <1>4, <1>5

LEMMA MachineHas ==
  ASSUME machine \in Machines
  PROVE  MachineType(machine)
BY DocumentAssumption

LEMMA RemoteType ==
  ASSUME tasks \in Configs, NEW i \in DOMAIN tasks
  PROVE  tasks[i].remote \in BOOLEAN
<1>1. tasks \in Seq(TaskType)
  BY DocumentAssumption
<1>2. tasks[i] \in TaskType
  BY <1>1, ElementOfSeq
<1>. QED  BY <1>2 DEF TaskType

\* A document that shows values of this tick as they are tells the truth.
LEMMA MemoryIsShown ==
  ASSUME machine \in Machines, NEW remote \in BOOLEAN, NEW doc,
         \A k \in {"meminfo", "swapinfo"} \cap DOMAIN doc :
           doc[k].at = "now" =>
             \E lines \in MeminfoStreams(machine.meminfo, remote) :
               doc[k].what = <<GetMemUsage(lines)[k]>>
  PROVE  MemoryShown(doc, remote)
<1>. SUFFICES ASSUME NEW k \in {"meminfo", "swapinfo"} \cap DOMAIN doc,
                     doc[k].at = "now"
              PROVE
      LET shown == doc[k].what[1]
          name  == IF k = "meminfo" THEN "MemTotal:" ELSE "SwapTotal:"
          rest  == IF k = "meminfo" THEN "MemAvailable:" ELSE "SwapFree:"
          total == ValueOf(name, machine.meminfo)
          used  == total - ValueOf(rest, machine.meminfo)
      IN \/ /\ shown.total_kb = total /\ shown.used_kb = used
            /\ total > 0 => /\ shown.percent * total <= 100 * used
                            /\ (shown.percent + 1) * total > 100 * used
         \/ shown = [total_kb |-> -1, used_kb |-> 0, percent |-> 0]
         \/ /\ remote /\ shown.total_kb \in {total, total \div 10}
            /\ shown.used_kb <= shown.total_kb + 1
            /\ \/ shown.used_kb = shown.total_kb + 1
               \/ shown.total_kb = total /\ shown.used_kb >= used
  BY DEF MemoryShown
<1>1. PICK lines \in MeminfoStreams(machine.meminfo, remote) :
        doc[k].what = <<GetMemUsage(lines)[k]>>
  OBVIOUS
<1>. DEFINE name == IF k = "meminfo" THEN "MemTotal:" ELSE "SwapTotal:"
            rest == IF k = "meminfo" THEN "MemAvailable:" ELSE "SwapFree:"
<1>2. doc[k].what[1] = MemInfo(ValueOf(name, lines), ValueOf(rest, lines))
  BY <1>1 DEF GetMemUsage
<1>3. /\ machine.meminfo \in Seq(LineType)
      /\ TotalBeforeRest(machine.meminfo, name, rest)
  BY MachineHas DEF MachineType
<1>. HIDE DEF name, rest
<1>4. LET shown == doc[k].what[1]
          all   == ValueOf(name, machine.meminfo)
          used  == all - ValueOf(rest, machine.meminfo)
      IN \/ /\ shown.total_kb = all /\ shown.used_kb = used
            /\ all > 0 => /\ shown.percent * all <= 100 * used
                          /\ (shown.percent + 1) * all > 100 * used
         \/ shown = [total_kb |-> -1, used_kb |-> 0, percent |-> 0]
         \/ /\ remote /\ shown.total_kb \in {all, all \div 10}
            /\ shown.used_kb <= shown.total_kb + 1
            /\ \/ shown.used_kb = shown.total_kb + 1
               \/ shown.total_kb = all /\ shown.used_kb >= used
  BY <1>2, <1>3, MemoryIsRight
<1>. QED  BY <1>4, Zenon DEF name, rest

LEMMA TemperatureIsShown ==
  ASSUME machine \in Machines, NEW remote \in BOOLEAN, NEW doc,
         "cpu_temp_c" \in DOMAIN doc /\ doc["cpu_temp_c"].at = "now" =>
           doc["cpu_temp_c"].what =
             <<GetCpuTemperature(SensorsOf(machine, remote))>>
  PROVE  TemperatureShown(doc, remote)
<1>. SUFFICES ASSUME "cpu_temp_c" \in DOMAIN doc,
                     doc["cpu_temp_c"].at = "now", ~remote,
                     \A i \in DOMAIN machine.sensors :
                       machine.sensors[i].input # "garbled"
              PROVE
      LET shown   == doc["cpu_temp_c"].what[1]
          sensors == machine.sensors
          Package == {i \in DOMAIN sensors :
                        /\ sensors[i].chip /\ sensors[i].package
                        /\ sensors[i].input = "number"}
      IN IF Package # {} THEN shown \in Package
         ELSE shown # -1 => sensors[shown].chip
  BY DEF TemperatureShown
<1>1. doc["cpu_temp_c"].what[1] = GetCpuTemperature(machine.sensors)
  BY DEF SensorsOf
<1>2. machine.sensors \in Seq(SensorType)
  BY MachineHas DEF MachineType
<1>. QED  BY <1>1, <1>2, TemperatureIsRight

LEMMA IndexIsShown ==
  ASSUME machine \in Machines, NEW m,
         m["memory_fragmentation_index"].at = "now" =>
           m["memory_fragmentation_index"].what =
             <<Fragmentation(machine.zones)>>
  PROVE  IndexBounded(m)
<1>. DEFINE frag == Fragmentation(machine.zones)
<1>1. \A z \in DOMAIN frag :
        0 <= frag[z].num /\ frag[z].num <= frag[z].den
  <2>. SUFFICES ASSUME NEW z \in DOMAIN frag
                PROVE  0 <= frag[z].num /\ frag[z].num <= frag[z].den
    OBVIOUS
  <2>1. /\ z \in DOMAIN machine.zones
        /\ frag[z] = CalculateFragmentationIndex(machine.zones[z])
    BY DEF Fragmentation
  <2>2. machine.zones[z] \in Seq(Nat) /\ Len(machine.zones[z]) <= 11
    BY <2>1, MachineHas DEF MachineType
  <2>. HIDE DEF frag
  <2>. QED  BY <2>1, <2>2, IndexIsBounded
<1>. HIDE DEF frag
<1>2. m["memory_fragmentation_index"].at = "now" =>
        m["memory_fragmentation_index"].what[1] = frag
  BY DEF frag
<1>. QED  BY <1>1, <1>2 DEF IndexBounded

LEMMA DocumentIsTrue ==
  ASSUME MetricsInv, ToldInv, Done
  PROVE  TellsTheTruth'
<1>1. /\ tasks' = tasks /\ machine' = machine /\ metrics' = metrics
      /\ output' = IF first THEN <<>> ELSE Render
  BY DEF Done
<1>2. CASE first
  <2>1. DOMAIN output' = {}
    BY <1>1, <1>2
  <2>. QED  BY <2>1 DEF TellsTheTruth
<1>3. CASE ~first
  <2>1. output' = Render /\ DOMAIN output' = DOMAIN tasks
    BY <1>1, <1>3 DEF Render
  <2>2. ASSUME NEW i \in DOMAIN tasks
        PROVE  /\ MemoryShown(output'[i], tasks[i].remote)
               /\ TemperatureShown(output'[i], tasks[i].remote)
               /\ IndexBounded(metrics[i])
    <3>1. tasks[i].remote \in BOOLEAN /\ machine \in Machines
      BY RemoteType DEF MetricsInv
    <3>2. /\ DOMAIN output'[i] \subseteq Members
          /\ \A k \in DOMAIN output'[i] : output'[i][k] = metrics[i][k]
      BY <2>1, PipelineShown DEF Render, Serialize
    <3>3. \A k \in Members : Told(i, k)
      BY DEF ToldInv
    <3>4. "memory_fragmentation_index" \in Members
      BY DEF Members, StabilityMembers
    <3>5. MemoryShown(output'[i], tasks[i].remote)
      <4>1. \A k \in {"meminfo", "swapinfo"} \cap DOMAIN output'[i] :
              output'[i][k].at = "now" =>
                \E lines \in MeminfoStreams(machine.meminfo,
                                            tasks[i].remote) :
                  output'[i][k].what = <<GetMemUsage(lines)[k]>>
        BY <3>2, <3>3 DEF Told
      <4>. QED  BY <3>1, <4>1, MemoryIsShown
    <3>6. TemperatureShown(output'[i], tasks[i].remote)
      BY <3>1, <3>2, <3>3, TemperatureIsShown DEF Told
    <3>7. IndexBounded(metrics[i])
      BY <3>1, <3>3, <3>4, IndexIsShown DEF Told
    <3>. QED  BY <3>5, <3>6, <3>7
  <2>3. ASSUME NEW i \in DOMAIN tasks
        PROVE  /\ MemoryShown(output[i], tasks[i].remote)'
               /\ TemperatureShown(output[i], tasks[i].remote)'
               /\ IndexBounded(metrics[i])'
    <3>1. MemoryShown(output[i], tasks[i].remote)'
      <4>1. MemoryShown(output'[i], tasks[i].remote)
        BY <2>2
      <4>. QED  BY <1>1, <4>1, SMTT(60) DEF MemoryShown
    <3>2. TemperatureShown(output[i], tasks[i].remote)'
      BY <1>1, <2>2, Zenon DEF TemperatureShown
    <3>3. IndexBounded(metrics[i])'
      BY <1>1, <2>2, Zenon DEF IndexBounded
    <3>. QED  BY <3>1, <3>2, <3>3
  <2>. QED  BY <1>1, <2>1, <2>3 DEF TellsTheTruth
<1>. QED  BY <1>2, <1>3

LEMMA DocInitially == DocInit => DocInv
<1>. SUFFICES ASSUME DocInit PROVE DocInv
  OBVIOUS
<1>1. MetricsInv
  BY MetricsInit
<1>2. ReadInThisTick
  <2>1. DOMAIN output = {}
    BY DEF DocInit
  <2>. QED  BY <2>1 DEF ReadInThisTick
<1>3. BetweenTicks
  BY DEF DocInit, BetweenTicks
<1>4. TellsTheTruth
  <2>1. DOMAIN output = {}
    BY DEF DocInit
  <2>. QED  BY <2>1 DEF TellsTheTruth
<1>. QED  BY <1>1, <1>2, <1>3, <1>4, ToldInit DEF DocInv

LEMMA DocStep == DocInv /\ [DocNext]_docVars => DocInv'
<1>. SUFFICES ASSUME DocInv, [DocNext]_docVars PROVE DocInv'
  OBVIOUS
<1>. USE DEF DocInv
<1>0. Len(tasks) \in Nat /\ DOMAIN tasks = 1..Len(tasks)
  BY TasksType DEF MetricsInv
<1>1. ASSUME output' = <<>>
      PROVE  ReadInThisTick' /\ TellsTheTruth'
  <2>1. DOMAIN output' = {}
    BY <1>1
  <2>. QED  BY <2>1 DEF ReadInThisTick, TellsTheTruth
<1>2. ASSUME UNCHANGED <<tasks, metrics, machine, next, first, output>>
      PROVE  /\ MetricsInv' /\ ToldInv' /\ ReadInThisTick' /\ TellsTheTruth'
  <2>1. MetricsInv'
    BY <1>2, MetricsKept
  <2>2. ToldInv'
    BY <1>2 DEF ToldInv, Told
  <2>3. ReadInThisTick'
    BY <1>2 DEF ReadInThisTick
  <2>4. TellsTheTruth'
    BY <1>2 DEF TellsTheTruth, MemoryShown, TemperatureShown, IndexBounded
  <2>. QED  BY <2>1, <2>2, <2>3, <2>4
<1>3. CASE BeginTick
  <2>1. MetricsInv' /\ ToldInv'
    BY <1>3, MetricsBegin, ToldBegin
  <2>2. ReadInThisTick' /\ TellsTheTruth'
    BY <1>1, <1>3 DEF BeginTick
  <2>3. BetweenTicks'
    BY <1>3 DEF BeginTick, BetweenTicks
  <2>. QED  BY <2>1, <2>2, <2>3
<1>4. CASE RunTask
  <2>1. MetricsInv' /\ ToldInv'
    BY <1>4, MetricsRun, ToldRun
  <2>2. output' = <<>>
    BY <1>0, <1>4 DEF RunTask, BetweenTicks
  <2>3. ReadInThisTick' /\ TellsTheTruth'
    BY <1>1, <2>2
  <2>4. BetweenTicks'
    BY <2>2 DEF BetweenTicks
  <2>. QED  BY <2>1, <2>3, <2>4
<1>5. CASE TaskThrows
  <2>1. UNCHANGED <<tasks, metrics, machine, next, first, output>>
    BY <1>5 DEF TaskThrows
  <2>2. BetweenTicks'
    BY <2>1 DEF BetweenTicks
  <2>. QED  BY <1>2, <2>1, <2>2
<1>6. CASE Done
  <2>1. /\ UNCHANGED <<tasks, metrics, machine>>
        /\ next' = 0 /\ first' = FALSE
    BY <1>6 DEF Done
  <2>2. MetricsInv'
    BY <2>1, MetricsKept
  <2>3. ToldInv'
    BY <2>1 DEF ToldInv, Told
  <2>4. ReadInThisTick' /\ TellsTheTruth'
    BY <1>6, DocumentIsOfThisTick, DocumentIsTrue
  <2>5. BetweenTicks'
    BY <2>1 DEF BetweenTicks
  <2>. QED  BY <2>2, <2>3, <2>4, <2>5
<1>7. CASE ReadBack
  <2>1. UNCHANGED <<tasks, metrics, machine, next, first, output>>
    BY <1>7 DEF ReadBack
  <2>2. BetweenTicks'
    BY <2>1 DEF BetweenTicks
  <2>. QED  BY <1>2, <2>1, <2>2
<1>8. CASE UNCHANGED docVars
  <2>1. UNCHANGED <<tasks, metrics, machine, next, first, output>>
    BY <1>8 DEF docVars
  <2>2. BetweenTicks'
    BY <2>1 DEF BetweenTicks
  <2>. QED  BY <1>2, <2>1, <2>2
<1>. QED  BY <1>3, <1>4, <1>5, <1>6, <1>7, <1>8 DEF DocNext

(* Whatever the configurations, the machines and their answers, every       *)
(* SystemMetrics has only values that its task was given, in the order in   *)
(* which the tasks of a tick run (Controller::tick, read_data).             *)
THEOREM DocumentInvariant == DocSpec => []DocInv
BY DocInitially, DocStep, PTL DEF DocSpec

(* No key of a document has a value of an earlier tick or of another task:  *)
(* what a feature shows was read for it in this tick, except the counts of  *)
(* processes, which nobody reads, and the load averages that an answer left *)
(* out (read_data, the pipeline of lambdas, to_json).                       *)
THEOREM ValuesAreOfThisTick == DocSpec => []ReadInThisTick
<1>1. DocInv => ReadInThisTick
  BY DEF DocInv
<1>. QED  BY <1>1, DocumentInvariant, PTL

(* What a document shows of a machine is so.  The memory in use is the total *)
(* less what is available, and the percentage is theirs, unless no answer   *)
(* came or that of another machine broke off, after which all of the total  *)
(* it has, or too much of it, is in use.  The temperature is that of the    *)
(* package or else of a sensor of the processor.  The index of              *)
(* fragmentation is between 0 and 1 (get_mem_usage, get_cpu_temperature,    *)
(* calculate_fragmentation_index).                                          *)
THEOREM DocumentTellsTheTruth == DocSpec => []TellsTheTruth
<1>1. DocInv => TellsTheTruth
  BY DEF DocInv
<1>. QED  BY <1>1, DocumentInvariant, PTL

-----------------------------------------------------------------------------
(* THE WEBSOCKET SERVER                                                     *)

(* The inductive invariant.                                                 *)

\* The flag of the proxy is up between updateData and consume only.
FlagInv == stage # "poll" => ~has_new_data

\* The proxy is one document ahead of the server while its flag is up, and
\* level with it otherwise; only the broadcast that crashes loses one.
AheadInv ==
  stage # "crashed" =>
    current = IF has_new_data THEN Newest + 1 ELSE Newest

\* A callback is outstanding only for a reader that lacks the newest message.
ReaderInv ==
  /\ \A c \in clients : received[c] <= Newest
  /\ \A c \in want : received[c] < Newest

LwsInv == LwsTypeOK /\ OnlyLiveConnections /\ FlagInv /\ AheadInv /\ ReaderInv

\* The newest message has a number.
LEMMA NewestType ==
  ASSUME LwsTypeOK
  PROVE  /\ Newest \in 0..MaxDocs
         /\ Newest # 0 => pending = Newest
         /\ pending # None => Newest = pending
<1>1. CASE pending = None
  <2>1. Newest = 0 /\ 0 \in 0..MaxDocs
    BY <1>1, LwsAssumption DEF Newest
  <2>. QED  BY <1>1, <2>1
<1>2. CASE pending # None
  <2>1. Newest = pending
    BY <1>2 DEF Newest
  <2>2. pending \in 1..MaxDocs
    BY <1>2 DEF LwsTypeOK
  <2>3. pending \in 0..MaxDocs
    BY <2>2, LwsAssumption
  <2>. QED  BY <2>1, <2>3
<1>. QED  BY <1>1, <1>2

\* So have the documents counted, and none of these numbers is None.
LEMMA NumberTypes ==
  ASSUME LwsTypeOK
  PROVE  /\ MaxDocs \in Nat
         /\ current \in 0..MaxDocs
         /\ current \in Nat
         /\ \A n \in 0..MaxDocs : n # None /\ n \in Nat
<1>1. MaxDocs \in Nat
  BY LwsAssumption
<1>2. current \in 0..MaxDocs
  BY DEF LwsTypeOK
<1>3. ASSUME NEW n \in 0..MaxDocs
      PROVE  n \in Nat
  BY <1>1
<1>4. \A n \in 0..MaxDocs : n # None /\ n \in Nat
  BY <1>3, LwsAssumption
<1>. QED  BY <1>1, <1>2, <1>3, <1>4

LEMMA LwsStart == LwsInit => LwsInv
<1>. SUFFICES ASSUME LwsInit
              PROVE  LwsInv
  OBVIOUS
<1>1. LwsTypeOK
  <2>1. current \in 0..MaxDocs /\ received \in [Peers -> 0..MaxDocs]
    BY LwsAssumption DEF LwsInit
  <2>2. peer \in [Peers -> {"gone", "asks", "open", "hung up"}]
    BY DEF LwsInit
  <2>. QED  BY <2>1, <2>2 DEF LwsInit, LwsTypeOK
<1>2. Newest = 0
  BY DEF LwsInit, Newest
<1>3. OnlyLiveConnections /\ FlagInv /\ AheadInv /\ ReaderInv
  BY <1>2
  DEF LwsInit, OnlyLiveConnections, Connected, FlagInv, AheadInv, ReaderInv
<1>. QED  BY <1>1, <1>3 DEF LwsInv

\* Every step keeps the invariant.
LEMMA LwsStep == LwsInv /\ [LwsNext]_lwsVars => LwsInv'
<1>. SUFFICES ASSUME LwsInv, [LwsNext]_lwsVars
              PROVE  LwsInv'
  OBVIOUS
<1>. USE DEF netVars, stateVars, proxyVars
<1>t. LwsTypeOK
  BY DEF LwsInv
<1>r. ReaderInv /\ OnlyLiveConnections /\ FlagInv /\ AheadInv
  BY DEF LwsInv
<1>n. /\ Newest \in 0..MaxDocs /\ Newest \in Nat
      /\ pending # None => pending = Newest
  BY <1>t, NewestType, NumberTypes
<1>g. /\ clients \subseteq Peers /\ want \subseteq clients
      /\ received \in [Peers -> 0..MaxDocs]
  BY <1>t, <1>r DEF LwsTypeOK, OnlyLiveConnections
<1>1. ASSUME NEW c \in Peers, Connect(c)
      PROVE  LwsInv'
  <2>1. Connected' = Connected
    BY <1>1, <1>t DEF Connect, Connected, LwsTypeOK
  <2>2. LwsTypeOK'
    BY <1>1, <1>t DEF Connect, LwsTypeOK
  <2>3. ReaderInv' /\ OnlyLiveConnections' /\ FlagInv' /\ AheadInv'
    BY <1>1, <1>r, <2>1
    DEF Connect, Newest, ReaderInv, OnlyLiveConnections, FlagInv, AheadInv
  <2>. QED  BY <2>2, <2>3 DEF LwsInv
<1>2. ASSUME NEW c \in Peers, HangUp(c)
      PROVE  LwsInv'
  <2>1. Connected' = Connected
    BY <1>2, <1>t DEF HangUp, Connected, LwsTypeOK
  <2>2. LwsTypeOK'
    BY <1>2, <1>t DEF HangUp, LwsTypeOK
  <2>3. ReaderInv' /\ OnlyLiveConnections' /\ FlagInv' /\ AheadInv'
    BY <1>2, <1>r, <2>1
    DEF HangUp, Newest, ReaderInv, OnlyLiveConnections, FlagInv, AheadInv
  <2>. QED  BY <2>2, <2>3 DEF LwsInv
<1>3. ASSUME NEW c \in Peers, Established(c)
      PROVE  LwsInv'
  <2>1. Connected' = Connected \cup {c} /\ c \notin Connected
    BY <1>3, <1>t DEF Established, Connected, LwsTypeOK
  <2>2. /\ clients' = clients \cup {c}
        /\ received' = [received EXCEPT ![c] = Newest]
        /\ UNCHANGED <<stage, want, pending, current, has_new_data>>
    BY <1>3 DEF Established
  <2>3. Newest' = Newest
    BY <2>2 DEF Newest
  <2>4. LwsTypeOK'
    BY <1>3, <1>t, <1>n, <2>2 DEF Established, LwsTypeOK
  <2>5. OnlyLiveConnections' /\ c \notin want
    BY <1>r, <2>1, <2>2 DEF OnlyLiveConnections
  <2>6. ReaderInv'
    <3>1. ASSUME NEW d \in clients'
          PROVE  received'[d] <= Newest
      BY <1>r, <1>n, <1>g, <2>2 DEF ReaderInv
    <3>2. ASSUME NEW d \in want
          PROVE  received'[d] < Newest
      BY <1>r, <1>g, <2>2, <2>5 DEF ReaderInv
    <3>. QED  BY <2>2, <2>3, <3>1, <3>2 DEF ReaderInv
  <2>7. FlagInv' /\ AheadInv'
    BY <1>r, <2>2, <2>3 DEF FlagInv, AheadInv
  <2>. QED  BY <2>4, <2>5, <2>6, <2>7 DEF LwsInv
<1>4. ASSUME NEW c \in Peers, Closed(c)
      PROVE  LwsInv'
  <2>1. Connected' = Connected \ {c}
    BY <1>4, <1>t DEF Closed, Connected, LwsTypeOK
  <2>2. LwsTypeOK'
    BY <1>4, <1>t DEF Closed, LwsTypeOK
  <2>3. ReaderInv' /\ OnlyLiveConnections' /\ FlagInv' /\ AheadInv'
    BY <1>4, <1>r, <2>1
    DEF Closed, Newest, ReaderInv, OnlyLiveConnections, FlagInv, AheadInv
  <2>. QED  BY <2>2, <2>3 DEF LwsInv
<1>5. ASSUME NEW c \in Peers, Writeable(c)
      PROVE  LwsInv'
  <2>1. /\ want' = want \ {c} /\ c \in want
        /\ received' = received \/ received' = [received EXCEPT ![c] = Newest]
        /\ UNCHANGED <<stage, persistent, context, peer, clients, pending,
                       current, has_new_data>>
    BY <1>5, <1>n DEF Writeable
  <2>2. UNCHANGED <<Newest, Connected>>
    BY <2>1 DEF Newest, Connected
  <2>3. received' \in [Peers -> 0..MaxDocs]
    BY <1>g, <1>n, <2>1
  <2>4. LwsTypeOK'
    BY <1>t, <2>1, <2>3 DEF LwsTypeOK
  <2>5. OnlyLiveConnections' /\ FlagInv' /\ AheadInv'
    BY <1>r, <2>1, <2>2 DEF OnlyLiveConnections, FlagInv, AheadInv
  <2>6. ReaderInv'
    <3>1. ASSUME NEW d \in clients
          PROVE  received'[d] <= Newest
      BY <1>r, <1>n, <1>g, <2>1 DEF ReaderInv
    <3>2. ASSUME NEW d \in want \ {c}
          PROVE  received'[d] < Newest
      BY <1>r, <1>g, <2>1 DEF ReaderInv
    <3>. QED  BY <2>1, <2>2, <3>1, <3>2 DEF ReaderInv
  <2>. QED  BY <2>4, <2>5, <2>6 DEF LwsInv
<1>6. CASE Create \/ LoopTest \/ StepReturns \/ TickReloads \/ Sleep
  <2>1. /\ UNCHANGED <<peer, want, clients, pending, current, has_new_data,
                       received>>
        /\ stage \notin {"poll", "crashed"}
    BY <1>6 DEF Create, LoopTest, StepReturns, TickReloads, Sleep
  <2>2. /\ stage' \in {"loop", "step", "tick", "poll", "destroy"}
        /\ context' \in {"none", "null", "up", "destroyed"}
    BY <1>6, <1>t
    DEF Create, LoopTest, StepReturns, TickReloads, Sleep, LwsTypeOK
  <2>3. persistent' \in BOOLEAN
    BY <1>6, <1>t
    DEF Create, LoopTest, StepReturns, TickReloads, Sleep, LwsTypeOK
  <2>4. UNCHANGED <<Newest, Connected>>
    BY <2>1 DEF Newest, Connected
  <2>5. LwsTypeOK'
    BY <1>t, <2>1, <2>2, <2>3 DEF LwsTypeOK
  <2>6. OnlyLiveConnections' /\ FlagInv' /\ AheadInv' /\ ReaderInv'
    BY <1>r, <2>1, <2>4 DEF OnlyLiveConnections, FlagInv, AheadInv, ReaderInv
  <2>. QED  BY <2>5, <2>6 DEF LwsInv
<1>7. CASE TickPublishes
  <2>1. /\ UNCHANGED <<persistent, context, peer, want, clients, pending,
                      received>>
        /\ stage = "tick" /\ stage' = "poll" /\ has_new_data' = TRUE
        /\ current' = current + 1 /\ current < MaxDocs
    BY <1>7 DEF TickPublishes
  <2>2. UNCHANGED <<Newest, Connected>>
    BY <2>1 DEF Newest, Connected
  <2>3. current' \in 0..MaxDocs
    BY <1>t, <2>1, NumberTypes
  <2>4. LwsTypeOK'
    BY <1>t, <2>1, <2>3 DEF LwsTypeOK
  <2>5. OnlyLiveConnections' /\ FlagInv' /\ AheadInv' /\ ReaderInv'
    BY <1>r, <2>1, <2>2 DEF OnlyLiveConnections, FlagInv, AheadInv, ReaderInv
  <2>. QED  BY <2>4, <2>5 DEF LwsInv
<1>8. CASE TickThrows
  <2>1. LwsTypeOK'
    BY <1>8, <1>t DEF TickThrows, LwsTypeOK
  <2>2. ReaderInv' /\ OnlyLiveConnections' /\ FlagInv' /\ AheadInv'
    BY <1>8, <1>r
    DEF TickThrows, Newest, Connected, ReaderInv, OnlyLiveConnections,
        FlagInv, AheadInv
  <2>. QED  BY <2>1, <2>2 DEF LwsInv
<1>9. CASE PollProxy
  <2>1. /\ stage = "poll"
        /\ UNCHANGED <<persistent, context, peer, clients, received, current>>
        /\ UNCHANGED Connected
    BY <1>9 DEF PollProxy, Connected
  <2>2. CASE \/ stage' = "sleep" /\ ~has_new_data
             \/ stage' = "crashed"
    <3>1. UNCHANGED <<pending, want>> /\ has_new_data' = FALSE
      BY <1>9, <2>2 DEF PollProxy, Broadcast
    <3>2. UNCHANGED Newest
      BY <3>1 DEF Newest
    <3>3. LwsTypeOK'
      BY <1>t, <2>1, <2>2, <3>1 DEF LwsTypeOK
    <3>4. OnlyLiveConnections' /\ FlagInv' /\ AheadInv' /\ ReaderInv'
      BY <1>r, <2>1, <2>2, <3>1, <3>2
      DEF OnlyLiveConnections, FlagInv, AheadInv, ReaderInv
    <3>. QED  BY <3>3, <3>4 DEF LwsInv
  <2>3. CASE has_new_data /\ context # "null"
    <3>1. /\ pending' = current /\ want' = Connected /\ stage' = "sleep"
          /\ has_new_data' = FALSE
      BY <1>9, <2>3 DEF PollProxy, Broadcast
    <3>2. current = Newest + 1
      BY <1>r, <2>1, <2>3 DEF AheadInv
    <3>3. current \in 1..MaxDocs /\ current # None
      BY <1>t, <1>n, <3>2, NumberTypes
    <3>4. Newest' = current
      BY <3>1, <3>3 DEF Newest
    <3>5. LwsTypeOK'
      BY <1>t, <2>1, <3>1, <3>3 DEF LwsTypeOK, Connected
    <3>6. OnlyLiveConnections' /\ FlagInv' /\ AheadInv'
      BY <1>r, <2>1, <3>1, <3>4 DEF OnlyLiveConnections, FlagInv, AheadInv
    <3>7. ReaderInv'
      <4>1. ASSUME NEW d \in clients
            PROVE  received[d] < current
        <5>1. received[d] <= Newest /\ received[d] \in Nat
          BY <1>r, <1>g, NumberTypes, <1>t DEF ReaderInv
        <5>. QED  BY <1>n, <3>2, <5>1
      <4>2. received \in [Peers -> Nat] /\ current \in Nat
        BY <1>g, <1>t, NumberTypes
      <4>. QED  BY <1>r, <1>g, <2>1, <3>1, <3>4, <4>1, <4>2
                DEF ReaderInv, OnlyLiveConnections
    <3>. QED  BY <3>5, <3>6, <3>7 DEF LwsInv
  <2>. QED  BY <1>9, <2>2, <2>3 DEF PollProxy, Broadcast
<1>10. CASE Destroy
  <2>1. /\ peer' = [c \in Peers |-> "gone"] /\ Connected = {}
        /\ stage = "destroy" /\ stage' = "exit"
        /\ UNCHANGED <<persistent, want, clients, pending, current,
                       has_new_data, received>>
    BY <1>10 DEF Destroy
  <2>2. context' \in {"none", "null", "up", "destroyed"}
    BY <1>10, <1>t DEF Destroy, LwsTypeOK
  <2>3. Connected' = {} /\ UNCHANGED Newest
    BY <2>1 DEF Connected, Newest
  <2>4. LwsTypeOK'
    BY <1>t, <2>1, <2>2 DEF LwsTypeOK
  <2>5. OnlyLiveConnections' /\ FlagInv' /\ AheadInv' /\ ReaderInv'
    BY <1>r, <2>1, <2>3 DEF OnlyLiveConnections, FlagInv, AheadInv, ReaderInv
  <2>. QED  BY <2>4, <2>5 DEF LwsInv
<1>11. CASE LwsTerminated \/ UNCHANGED lwsVars
  <2>1. UNCHANGED lwsVars
    BY <1>11 DEF LwsTerminated
  <2>. QED
    BY <1>t, <1>r, <2>1
    DEF lwsVars, LwsInv, LwsTypeOK, OnlyLiveConnections, FlagInv, AheadInv,
        ReaderInv, Newest, Connected
<1>. QED
  BY <1>1, <1>2, <1>3, <1>4, <1>5, <1>6, <1>7, <1>8, <1>9, <1>10, <1>11
  DEF LwsNext, LwsMain

LEMMA LwsInvariant == LwsSpec => []LwsInv
<1>. QED  BY LwsStart, LwsStep, PTL DEF LwsSpec

\* The state keeps its shape: in particular no empty message is broadcast.
THEOREM LwsTypeCorrect == LwsSpec => []LwsTypeOK
<1>1. LwsInv => LwsTypeOK
  BY DEF LwsInv
<1>. QED  BY <1>1, LwsInvariant, PTL

\* No closed connection stays behind in the set of clients or with a callback
\* outstanding, whatever order peers come, hang up and are destroyed in.
THEOREM NoDanglingConnection == LwsSpec => []OnlyLiveConnections
<1>1. LwsInv => OnlyLiveConnections
  BY DEF LwsInv
<1>. QED  BY <1>1, LwsInvariant, PTL

\* No document is overwritten in the proxy before it was broadcast.
THEOREM ProxyLosesNothing == LwsSpec => []NothingOverwritten
<1>1. LwsInv => NothingOverwritten
  BY DEF LwsInv, FlagInv, NothingOverwritten
<1>. QED  BY <1>1, LwsInvariant, PTL

\* No reader is written the same message twice, nor an empty one.
THEOREM NoRepeats == LwsSpec => []OnlyNewsIsSent
<1>1. ASSUME LwsInv
      PROVE  OnlyNewsIsSent
  <2>1. ASSUME NEW c \in want
        PROVE  pending # None /\ received[c] < pending
    <3>1. LwsTypeOK /\ received[c] < Newest /\ received[c] \in 0..MaxDocs
      BY <1>1, <2>1 DEF LwsInv, LwsTypeOK, ReaderInv
    <3>2. Newest # 0
      BY <3>1, NumberTypes
    <3>3. pending = Newest
      BY <3>1, <3>2, NewestType
    <3>4. Newest # None
      BY <3>1, NewestType, NumberTypes
    <3>. QED  BY <3>1, <3>3, <3>4
  <2>. QED  BY <2>1 DEF OnlyNewsIsSent
<1>. QED  BY <1>1, LwsInvariant, PTL

-----------------------------------------------------------------------------
(* The server implements Bulletin.                                          *)

SeenBy == [c \in Peers |-> IF c \in clients THEN received[c] ELSE None]

LEMMA BoardStep ==
  ASSUME LwsInv, LwsInv', [LwsNext]_lwsVars
  PROVE  \/ UNCHANGED <<Newest, SeenBy>>
         \/ Newest' = Newest + 1 /\ UNCHANGED SeenBy
         \/ \E c \in Peers : /\ SeenBy[c] = None
                             /\ SeenBy' = [SeenBy EXCEPT ![c] = Newest]
                             /\ UNCHANGED Newest
         \/ \E c \in Peers : /\ SeenBy[c] # None /\ SeenBy[c] < Newest
                             /\ SeenBy' = [SeenBy EXCEPT ![c] = Newest]
                             /\ UNCHANGED Newest
         \/ \E c \in Peers : /\ SeenBy[c] # None
                             /\ SeenBy' = [SeenBy EXCEPT ![c] = None]
                             /\ UNCHANGED Newest
<1>. USE DEF netVars, stateVars, proxyVars
<1>a. LwsTypeOK /\ OnlyLiveConnections /\ ReaderInv
  BY DEF LwsInv
<1>1. ASSUME NEW c \in Peers, Connect(c) \/ HangUp(c)
      PROVE  UNCHANGED <<Newest, SeenBy>>
  BY <1>1 DEF Connect, HangUp, Newest, SeenBy
<1>2. ASSUME NEW c \in Peers, Established(c)
      PROVE  /\ SeenBy[c] = None
             /\ SeenBy' = [SeenBy EXCEPT ![c] = Newest]
             /\ UNCHANGED Newest
  <2>1. c \notin clients
    BY <1>2, <1>a DEF Established, OnlyLiveConnections, Connected
  <2>2. /\ clients' = clients \cup {c}
        /\ received' = [received EXCEPT ![c] = Newest]
    BY <1>2 DEF Established
  <2>3. SeenBy' = [SeenBy EXCEPT ![c] = Newest]
    BY <1>a, <2>1, <2>2 DEF SeenBy, LwsTypeOK
  <2>4. UNCHANGED Newest
    BY <1>2 DEF Established, Newest
  <2>. QED  BY <2>1, <2>3, <2>4 DEF SeenBy
<1>3. ASSUME NEW c \in Peers, Closed(c)
      PROVE  \/ UNCHANGED <<Newest, SeenBy>>
             \/ /\ SeenBy[c] # None
                /\ SeenBy' = [SeenBy EXCEPT ![c] = None]
                /\ UNCHANGED Newest
  <2>1. c \in clients
    BY <1>3, <1>a DEF Closed, OnlyLiveConnections, Connected
  <2>2. /\ clients' = clients \ {c}
        /\ UNCHANGED <<received, Newest>>
    BY <1>3 DEF Closed, Newest
  <2>3. SeenBy[c] # None
    <3>1. SeenBy[c] = received[c] /\ received[c] \in 0..MaxDocs
      BY <1>a, <2>1 DEF SeenBy, LwsTypeOK
    <3>. QED  BY <3>1, <1>a, NumberTypes
  <2>4. SeenBy' = [SeenBy EXCEPT ![c] = None]
    BY <1>a, <2>1, <2>2 DEF SeenBy, LwsTypeOK
  <2>. QED  BY <2>2, <2>3, <2>4
<1>4. ASSUME NEW c \in Peers, Writeable(c)
      PROVE  \/ UNCHANGED <<Newest, SeenBy>>
             \/ /\ SeenBy[c] # None /\ SeenBy[c] < Newest
                /\ SeenBy' = [SeenBy EXCEPT ![c] = Newest]
                /\ UNCHANGED Newest
  <2>1. c \in want /\ c \in clients /\ received[c] < Newest
    BY <1>4, <1>a DEF Writeable, OnlyLiveConnections, ReaderInv
  <2>2. UNCHANGED <<Newest, clients>>
    BY <1>4 DEF Writeable, Newest
  <2>3. CASE received' = received
    BY <2>2, <2>3 DEF SeenBy
  <2>4. CASE received' # received
    <3>1. received' = [received EXCEPT ![c] = Newest]
      BY <1>4, <1>a, <2>4, NewestType DEF Writeable
    <3>2. SeenBy[c] # None /\ SeenBy[c] < Newest
      <4>1. SeenBy[c] = received[c] /\ received[c] \in 0..MaxDocs
        BY <1>a, <2>1 DEF SeenBy, LwsTypeOK
      <4>. QED  BY <4>1, <2>1, <1>a, NumberTypes
    <3>3. SeenBy' = [SeenBy EXCEPT ![c] = Newest]
      BY <1>a, <2>1, <2>2, <3>1 DEF SeenBy, LwsTypeOK
    <3>. QED  BY <2>2, <3>2, <3>3
  <2>. QED  BY <2>3, <2>4
<1>5. CASE PollProxy
  <2>1. UNCHANGED SeenBy
    BY <1>5 DEF PollProxy, SeenBy
  <2>2. CASE UNCHANGED pending
    BY <2>1, <2>2 DEF Newest
  <2>3. CASE ~UNCHANGED pending
    <3>1. /\ has_new_data /\ pending' = current /\ stage = "poll"
      BY <1>5, <2>3 DEF PollProxy, Broadcast
    <3>2. current = Newest + 1 /\ current \in Nat
      <4>1. current \in Nat
        BY <1>a, NumberTypes
      <4>2. current = Newest + 1
        BY <3>1 DEF LwsInv, AheadInv
      <4>. QED  BY <4>1, <4>2
    <3>3. Newest' = Newest + 1
      <4>1. current # None
        BY <1>a, NumberTypes
      <4>. QED  BY <3>1, <3>2, <4>1 DEF Newest
    <3>. QED  BY <2>1, <3>3
  <2>. QED  BY <2>2, <2>3
<1>6. CASE \/ Create \/ LoopTest \/ StepReturns \/ TickPublishes
           \/ TickReloads \/ TickThrows \/ Sleep \/ Destroy
  <2>1. UNCHANGED <<pending, clients, received>>
    BY <1>6 DEF Create, LoopTest, StepReturns, TickPublishes, TickReloads,
                TickThrows, Sleep, Destroy
  <2>. QED  BY <2>1 DEF Newest, SeenBy
<1>7. CASE LwsTerminated \/ UNCHANGED lwsVars
  BY <1>7 DEF LwsTerminated, lwsVars, Newest, SeenBy
<1>. QED
  BY <1>1, <1>2, <1>3, <1>4, <1>5, <1>6, <1>7 DEF LwsNext, LwsMain

\* Readers see documents in order, none from before they came, and always the
\* newest: the server is a Bulletin.
THEOREM ServerIsABulletin == LwsSpec => ReadersSeeTheNewest
<1>1. LwsInit => Board!BulletinInit
  BY DEF LwsInit, Newest, Board!BulletinInit
<1>2. LwsInv /\ LwsInv' /\ [LwsNext]_lwsVars
        => [Board!BulletinNext]_Board!bulletinVars
  BY BoardStep
  DEF SeenBy, Board!BulletinNext, Board!Post, Board!Come, Board!Receive,
      Board!Go, Board!bulletinVars
<1>. QED  BY <1>1, <1>2, LwsInvariant, PTL
          DEF LwsSpec, ReadersSeeTheNewest, Board!BulletinSpec

-----------------------------------------------------------------------------
(* THE LOG                                                                  *)

PlaceType ==
  /\ disk \in [Places -> Nat]
  /\ newest \in Nat /\ begun \in Nat
  /\ index \in 0..(MaxFiles - 1)
  /\ pc \in {"idle", "rotate", "open"}
  /\ torn \in BOOLEAN /\ lost \in BOOLEAN

OrderInv ==
  /\ \A p \in Places : disk[p] <= newest
  /\ \A p, q \in Places :
       p < q /\ disk[p] # 0 /\ disk[q] # 0 => disk[p] > disk[q]

\* The log that must not be lost is never in the way of another one.
KeptInv ==
  /\ begun <= newest
  /\ ~up => pc = "idle"
  /\ pc = "rotate" => disk[0] # 0 /\ begun = newest
  /\ ~lost =>
       /\ pc = "open" => disk[0] = 0
       /\ newest # 0 => newest \in Kept
       /\ begun # 0 => begun \in Kept

\* The log at a place if all were put away, one after the other.
Log(p) == IF newest > p THEN newest - p ELSE 0

\* The gap that moves down through the places while the program rotates.
Rotating(p) ==
  IF p <= index \/ index = MaxFiles - 1 THEN Log(p)
  ELSE IF p = index + 1 THEN 0 ELSE Log(p - 1)

ExactInv ==
  ~torn /\ ~lost =>
    \A p \in Places :
      disk[p] = CASE pc = "idle"   -> Log(p)
                  [] pc = "rotate" -> Rotating(p)
                  [] pc = "open"   -> IF p = 0 THEN 0 ELSE Log(p - 1)

RotationInv == PlaceType /\ OrderInv /\ KeptInv /\ ExactInv

-----------------------------------------------------------------------------
(* One rename.                                                              *)

LEMMA Renamed ==
  ASSUME PlaceType, NEW i \in 0..(MaxFiles - 1), Rename(i, i + 1)
  PROVE  /\ disk' \in [Places -> Nat]
         /\ \A p \in Places :
              disk'[p] = IF p = i THEN 0
                         ELSE IF p = i + 1 THEN disk[i] ELSE disk[p]
<1>1. i \in Places /\ i + 1 \in Places
  BY LogAssumption DEF Places
<1>. QED
  BY <1>1 DEF PlaceType, Rename

\* The order survives, and so does the newest of all logs.
LEMMA RenameKeeps ==
  ASSUME PlaceType, OrderInv, NEW i \in 0..(MaxFiles - 1), disk[i] # 0,
         Rename(i, i + 1), newest' = newest
  PROVE  OrderInv' /\ (newest \in Kept => newest \in Kept')
<1>0. i \in Places /\ i + 1 \in Places /\ Places \subseteq Nat
  BY LogAssumption DEF Places
<1>1. \A p \in Places : disk'[p] = IF p = i THEN 0
                                   ELSE IF p = i + 1 THEN disk[i] ELSE disk[p]
  BY Renamed
<1>2. \A p \in Places : disk'[p] <= newest'
  BY <1>0, <1>1 DEF OrderInv, PlaceType
<1>3. ASSUME NEW p \in Places, NEW q \in Places,
             p < q, disk'[p] # 0, disk'[q] # 0
      PROVE  disk'[p] > disk'[q]
  <2>1. p # i /\ q # i
    BY <1>1, <1>3
  <2>2. CASE p = i + 1
    <3>1. q # i + 1 /\ i < q /\ disk'[p] = disk[i] /\ disk'[q] = disk[q]
      BY <1>0, <1>1, <1>3, <2>1, <2>2
    <3>. QED  BY <1>0, <1>3, <3>1 DEF OrderInv
  <2>3. CASE q = i + 1
    <3>1. p < i /\ disk'[q] = disk[i] /\ disk'[p] = disk[p]
      BY <1>0, <1>1, <1>3, <2>1, <2>3
    <3>. QED  BY <1>0, <1>3, <3>1 DEF OrderInv
  <2>4. CASE p # i + 1 /\ q # i + 1
    BY <1>1, <1>3, <2>1, <2>4 DEF OrderInv
  <2>. QED  BY <2>2, <2>3, <2>4
<1>4. ASSUME newest \in Kept  PROVE newest \in Kept'
  <2>1. PICK p \in Places : disk[p] = newest
    BY <1>4 DEF Kept
  <2>2. disk[i] <= newest /\ disk[i] \in Nat /\ newest \in Nat
    BY <1>0 DEF OrderInv, PlaceType
  <2>3. p # i + 1
    <3>1. SUFFICES ASSUME p = i + 1  PROVE FALSE
      OBVIOUS
    <3>2. disk[i] > disk[i + 1]
      BY <1>0, <2>1, <2>2, <3>1 DEF OrderInv
    <3>. QED  BY <2>1, <2>2, <3>1, <3>2
  <2>4. CASE p = i
    BY <1>0, <1>1, <2>1, <2>4 DEF Kept
  <2>5. CASE p # i
    BY <1>1, <2>1, <2>3, <2>5 DEF Kept
  <2>. QED  BY <2>4, <2>5
<1>. QED  BY <1>2, <1>3, <1>4 DEF OrderInv

-----------------------------------------------------------------------------
LEMMA RotationInit == LogInit => RotationInv
<1>. SUFFICES ASSUME LogInit  PROVE RotationInv
  OBVIOUS
<1>0. Places \subseteq Nat /\ \A p \in Places : disk[p] = 0
  BY LogAssumption DEF LogInit, Places
<1>1. PlaceType
  <2>1. disk \in [Places -> Nat]
    BY DEF LogInit
  <2>2. 0 \in 0..(MaxFiles - 1)
    BY LogAssumption
  <2>. QED  BY <2>1, <2>2 DEF LogInit, PlaceType
<1>2. OrderInv
  BY <1>0 DEF LogInit, OrderInv
<1>3. KeptInv
  BY DEF LogInit, KeptInv
<1>4. ExactInv
  BY <1>0 DEF LogInit, ExactInv, Log
<1>. QED  BY <1>1, <1>2, <1>3, <1>4 DEF RotationInv

\* The first output of a program.
LEMMA StartKeeps == RotationInv /\ Start => RotationInv'
<1>. SUFFICES ASSUME RotationInv, Start  PROVE RotationInv'
  OBVIOUS
<1>t. PlaceType /\ OrderInv /\ KeptInv /\ ExactInv
  BY DEF RotationInv
<1>p. Places \subseteq Nat /\ 0 \in Places
  BY LogAssumption DEF Places
<1>d. disk \in [Places -> Nat] /\ newest \in Nat /\ begun \in Nat
  BY <1>t DEF PlaceType
<1>s. UNCHANGED <<pc, index, torn, lost, begun>> /\ up' /\ pc = "idle"
  BY <1>t DEF Start, outVars, KeptInv
<1>1. CASE newest' = newest /\ disk' = disk
  <2>1. newest' = newest /\ disk' = disk
    BY <1>1
  <2>2. PlaceType' /\ OrderInv'
    BY <1>t, <1>s, <2>1 DEF PlaceType, OrderInv
  <2>3. KeptInv'
    BY <1>t, <1>s, <1>1, <2>1 DEF KeptInv, Kept
  <2>4. ExactInv'
    BY <1>t, <1>s, <2>1 DEF ExactInv, Log, Rotating
  <2>. QED  BY <2>2, <2>3, <2>4 DEF RotationInv
<1>2. CASE /\ disk[0] = 0 /\ newest' = newest + 1
           /\ disk' = [disk EXCEPT ![0] = newest']
  <2>1. newest' = newest + 1 /\ disk' = [disk EXCEPT ![0] = newest + 1]
    BY <1>2
  <2>2. newest + 1 \in Nat
    BY <1>d
  <2>3. disk' \in [Places -> Nat]
    BY <1>d, <2>1, <2>2
  <2>4. disk'[0] = newest + 1 /\ \A p \in Places : p # 0 => disk'[p] = disk[p]
    BY <1>d, <1>p, <2>1
  <2>5. PlaceType'
    BY <1>t, <1>s, <2>1, <2>2, <2>3 DEF PlaceType
  <2>6. \A p \in Places : disk'[p] <= newest'
    BY <1>t, <1>d, <2>1, <2>4 DEF OrderInv
  <2>7. \A p, q \in Places :
          p < q /\ disk'[p] # 0 /\ disk'[q] # 0 => disk'[p] > disk'[q]
    <3>. SUFFICES ASSUME NEW p \in Places, NEW q \in Places,
                         p < q, disk'[p] # 0, disk'[q] # 0
                  PROVE  disk'[p] > disk'[q]
      OBVIOUS
    <3>1. q # 0 /\ disk'[q] = disk[q] /\ disk[q] <= newest /\ disk[q] \in Nat
      BY <1>t, <1>d, <1>p, <2>4 DEF OrderInv
    <3>2. CASE p = 0
      BY <1>d, <2>4, <3>1, <3>2
    <3>3. CASE p # 0
      BY <1>t, <2>4, <3>1, <3>3 DEF OrderInv
    <3>. QED  BY <3>2, <3>3
  <2>8. KeptInv'
    <3>1. newest' \in Kept'
      BY <1>p, <2>1, <2>4 DEF Kept
    <3>2. ~lost /\ begun # 0 => begun \in Kept'
      BY <1>t, <1>d, <1>2, <2>4 DEF KeptInv, Kept
    <3>3. begun <= newest + 1 /\ newest + 1 # 0
      BY <1>t, <1>d DEF KeptInv
    <3>. QED  BY <1>s, <2>1, <2>4, <3>1, <3>2, <3>3 DEF KeptInv
  <2>9. ExactInv'
    <3>. SUFFICES ASSUME ~torn, ~lost  PROVE ExactInv'
      BY <1>s DEF ExactInv
    <3>1. \A p \in Places : disk[p] = Log(p)
      BY <1>t, <1>s DEF ExactInv
    <3>2. newest = 0
      BY <1>d, <1>p, <1>2, <3>1 DEF Log
    <3>3. \A p \in Places : p \in Nat /\ disk'[p] = IF p = 0 THEN 1 ELSE 0
      BY <1>p, <2>4, <3>1, <3>2 DEF Log
    <3>4. newest' = 1
      BY <2>1, <3>2
    <3>5. \A p \in Places : disk'[p] = Log(p)'
      BY <3>3, <3>4 DEF Log
    <3>. QED  BY <1>s, <3>5 DEF ExactInv
  <2>. QED  BY <2>5, <2>6, <2>7, <2>8, <2>9 DEF RotationInv, OrderInv
<1>. QED  BY <1>1, <1>2 DEF Start

LEMMA StopKeeps == RotationInv /\ Stop => RotationInv'
<1>. SUFFICES ASSUME RotationInv, Stop  PROVE RotationInv'
  OBVIOUS
<1>t. PlaceType /\ OrderInv /\ KeptInv /\ ExactInv
  BY DEF RotationInv
<1>1. 0 \in 0..(MaxFiles - 1)
  BY LogAssumption
<1>2. PlaceType'
  BY <1>t, <1>1 DEF Stop, PlaceType
<1>3. OrderInv'
  BY <1>t DEF Stop, OrderInv
<1>4. KeptInv'
  BY <1>t DEF Stop, KeptInv, Kept
<1>5. ExactInv'
  BY <1>t DEF Stop, ExactInv, Log
<1>. QED  BY <1>2, <1>3, <1>4, <1>5 DEF RotationInv

\* There is a log to rotate, or there is none at all to keep.
LEMMA BeginKeeps == RotationInv /\ BeginSetup => RotationInv'
<1>. SUFFICES ASSUME RotationInv, BeginSetup  PROVE RotationInv'
  OBVIOUS
<1>t. PlaceType /\ OrderInv /\ KeptInv /\ ExactInv
  BY DEF RotationInv
<1>p. Places \subseteq Nat /\ 0 \in Places
  BY LogAssumption DEF Places
<1>u. /\ up /\ pc = "idle" /\ begun' = newest
      /\ UNCHANGED <<up, disk, newest, torn, lost>>
  BY DEF BeginSetup
<1>i. 0 \in 0..(MaxFiles - 1) /\ MaxFiles - 1 \in 0..(MaxFiles - 1)
  BY LogAssumption
<1>1. CASE disk[0] # 0 /\ pc' = "rotate" /\ index' = MaxFiles - 1
  <2>1. PlaceType'
    BY <1>t, <1>u, <1>i, <1>1 DEF PlaceType
  <2>2. OrderInv'
    BY <1>t, <1>u DEF OrderInv
  <2>3. KeptInv'
    BY <1>t, <1>u, <1>1 DEF KeptInv, Kept, PlaceType
  <2>4. ExactInv'
    BY <1>t, <1>u, <1>1 DEF ExactInv, Log, Rotating
  <2>. QED  BY <2>1, <2>2, <2>3, <2>4 DEF RotationInv
<1>2. CASE disk[0] = 0 /\ pc' = "open" /\ index' = 0
  <2>1. PlaceType'
    BY <1>t, <1>u, <1>i, <1>2 DEF PlaceType
  <2>2. OrderInv'
    BY <1>t, <1>u DEF OrderInv
  <2>3. KeptInv'
    BY <1>t, <1>u, <1>2 DEF KeptInv, Kept, PlaceType
  <2>4. ExactInv'
    <3>. SUFFICES ASSUME ~torn, ~lost  PROVE ExactInv'
      BY <1>u DEF ExactInv
    <3>1. \A p \in Places : disk[p] = Log(p)
      BY <1>t, <1>u DEF ExactInv
    <3>2. newest = 0
      BY <1>t, <1>p, <1>2, <3>1 DEF Log, PlaceType
    <3>3. \A p \in Places : p \in Nat /\ disk[p] = 0
      BY <1>p, <3>1, <3>2 DEF Log
    <3>4. ASSUME NEW p \in Places  PROVE (p = 0 \/ Log(p - 1)' = 0)
      <4>1. p \in Nat
        BY <3>3
      <4>. QED  BY <1>u, <3>2, <4>1 DEF Log
    <3>. QED  BY <1>u, <1>2, <3>3, <3>4 DEF ExactInv
  <2>. QED  BY <2>1, <2>2, <2>3, <2>4 DEF RotationInv
<1>. QED  BY <1>1, <1>2 DEF BeginSetup

LEMMA RotateOneKeeps == RotationInv /\ RotateOne => RotationInv'
<1>. SUFFICES ASSUME RotationInv, RotateOne  PROVE RotationInv'
  OBVIOUS
<1>t. PlaceType /\ OrderInv /\ KeptInv /\ ExactInv
  BY DEF RotationInv
<1>i. /\ index \in 1..(MaxFiles - 1) /\ index - 1 \in 0..(MaxFiles - 1)
      /\ index \in 0..(MaxFiles - 1) /\ index' = index - 1
      /\ index \in Nat /\ index # 0
      /\ index \in Places /\ index + 1 \in Places /\ 0 \in Places
  BY <1>t, LogAssumption DEF RotateOne, PlaceType, Places
<1>u. pc = "rotate" /\ UNCHANGED <<up, pc, newest, torn, begun>>
  BY DEF RotateOne
<1>p. Places \subseteq Nat /\ \A p \in Places : p <= MaxFiles
  BY LogAssumption DEF Places
<1>1. CASE disk[index] # 0 /\ Rename(index, index + 1) /\ lost' = lost
  <2>1. /\ disk' \in [Places -> Nat]
        /\ \A p \in Places : disk'[p] = IF p = index THEN 0
                      ELSE IF p = index + 1 THEN disk[index] ELSE disk[p]
    BY <1>t, <1>i, <1>1, Renamed
  <2>2. OrderInv' /\ (newest \in Kept => newest \in Kept')
    BY <1>t, <1>i, <1>u, <1>1, RenameKeeps
  <2>3. PlaceType'
    BY <1>t, <1>i, <1>u, <1>1, <2>1 DEF PlaceType
  <2>4. KeptInv'
    <3>1. disk'[0] = disk[0]
      BY <1>i, <2>1
    <3>. QED  BY <1>t, <1>u, <1>1, <2>2, <3>1 DEF KeptInv
  <2>5. ExactInv'
    <3>. SUFFICES ASSUME ~torn, ~lost  PROVE ExactInv'
      BY <1>u, <1>1 DEF ExactInv
    <3>1. \A p \in Places : disk[p] = Rotating(p)
      BY <1>t, <1>u DEF ExactInv
    <3>2. disk[index] = Log(index)
      BY <1>i, <3>1 DEF Rotating
    <3>3. ASSUME NEW p \in Places  PROVE disk'[p] = Rotating(p)'
      <4>1. Log(p)' = Log(p) /\ Log(p - 1)' = Log(p - 1)
        BY <1>u DEF Log
      <4>2. index' # MaxFiles - 1 /\ MaxFiles \in Nat /\ p \in Nat
        BY <1>i, <1>p, LogAssumption
      <4>3. CASE p <= index - 1
        BY <1>i, <1>p, <2>1, <3>1, <4>1, <4>2, <4>3 DEF Rotating
      <4>4. CASE p = index
        BY <1>i, <1>p, <2>1, <4>1, <4>2, <4>4 DEF Rotating
      <4>5. CASE p = index + 1
        <5>1. disk'[p] = Log(index) /\ p - 1 = index
          BY <1>i, <2>1, <3>2, <4>5
        <5>2. Rotating(p)' = Log(p - 1)
          BY <1>i, <4>1, <4>2, <4>5 DEF Rotating
        <5>. QED  BY <5>1, <5>2
      <4>6. CASE p > index + 1
        <5>1. index # MaxFiles - 1
          BY <1>i, <1>p, <4>2, <4>6
        <5>2. disk'[p] = Log(p - 1)
          BY <1>i, <1>p, <2>1, <3>1, <4>2, <4>6, <5>1 DEF Rotating
        <5>3. Rotating(p)' = Log(p - 1)
          BY <1>i, <4>1, <4>2, <4>6 DEF Rotating
        <5>. QED  BY <5>2, <5>3
      <4>. QED  BY <1>i, <4>2, <4>3, <4>4, <4>5, <4>6
    <3>. QED  BY <1>u, <3>3 DEF ExactInv
  <2>. QED  BY <2>2, <2>3, <2>4, <2>5 DEF RotationInv
<1>2. CASE disk[index] = 0 /\ disk' = disk /\ lost' = lost
  <2>1. PlaceType'
    BY <1>t, <1>i, <1>u, <1>2 DEF PlaceType
  <2>2. OrderInv'
    BY <1>t, <1>u, <1>2 DEF OrderInv
  <2>3. KeptInv'
    BY <1>t, <1>u, <1>2 DEF KeptInv, Kept
  <2>4. ExactInv'
    <3>. SUFFICES ASSUME ~torn, ~lost  PROVE ExactInv'
      BY <1>u, <1>2 DEF ExactInv
    <3>1. \A p \in Places : disk[p] = Rotating(p)
      BY <1>t, <1>u DEF ExactInv
    <3>2. newest <= index /\ newest \in Nat
      BY <1>t, <1>i, <1>2, <3>1 DEF Rotating, Log, PlaceType
    <3>3. ASSUME NEW p \in Places  PROVE disk[p] = Rotating(p)'
      <4>1. Log(p)' = Log(p) /\ Log(p - 1)' = Log(p - 1)
        BY <1>u DEF Log
      <4>2. index' # MaxFiles - 1 /\ MaxFiles \in Nat /\ p \in Nat
        BY <1>i, <1>p, LogAssumption
      <4>3. CASE p <= index - 1
        BY <1>i, <1>p, <3>1, <4>1, <4>2, <4>3 DEF Rotating
      <4>4. CASE p = index
        BY <1>i, <1>p, <1>2, <4>1, <4>2, <4>4 DEF Rotating
      <4>5. CASE p > index
        <5>1. Log(p) = 0 /\ Log(p - 1) = 0
          BY <1>i, <3>2, <4>2, <4>5 DEF Log
        <5>2. disk[p] = 0
          BY <3>1, <5>1 DEF Rotating
        <5>3. Rotating(p)' = 0
          BY <1>i, <4>1, <4>2, <4>5, <5>1 DEF Rotating
        <5>. QED  BY <5>2, <5>3
      <4>. QED  BY <1>i, <4>2, <4>3, <4>4, <4>5
    <3>. QED  BY <1>u, <1>2, <3>3 DEF ExactInv
  <2>. QED  BY <2>1, <2>2, <2>3, <2>4 DEF RotationInv
<1>3. CASE disk' = disk /\ lost' = TRUE
  <2>1. PlaceType'
    BY <1>t, <1>i, <1>u, <1>3 DEF PlaceType
  <2>2. OrderInv'
    BY <1>t, <1>u, <1>3 DEF OrderInv
  <2>3. KeptInv' /\ ExactInv'
    BY <1>t, <1>u, <1>3 DEF KeptInv, ExactInv
  <2>. QED  BY <2>1, <2>2, <2>3 DEF RotationInv
<1>4. \/ disk[index] # 0 /\ Rename(index, index + 1) /\ lost' = lost
      \/ disk[index] = 0 /\ disk' = disk /\ lost' = lost
      \/ disk' = disk /\ lost' = TRUE
  BY DEF RotateOne
<1>. QED  BY <1>1, <1>2, <1>3, <1>4

LEMMA RotateLastKeeps == RotationInv /\ RotateLast => RotationInv'
<1>. SUFFICES ASSUME RotationInv, RotateLast  PROVE RotationInv'
  OBVIOUS
<1>t. PlaceType /\ OrderInv /\ KeptInv /\ ExactInv
  BY DEF RotationInv
<1>u. /\ pc = "rotate" /\ pc' = "open" /\ index = 0
      /\ UNCHANGED <<up, index, newest, torn, begun>>
  BY DEF RotateLast
<1>p. /\ Places \subseteq Nat /\ 0 \in Places /\ 1 \in Places
      /\ 0 \in 0..(MaxFiles - 1) /\ \A p \in Places : p <= MaxFiles
  BY LogAssumption DEF Places
<1>k. up /\ disk[0] # 0 /\ begun = newest
  BY <1>t, <1>u DEF KeptInv
<1>1. CASE Rename(0, 1) /\ lost' = lost
  <2>1. /\ disk' \in [Places -> Nat]
        /\ \A p \in Places : disk'[p] = IF p = 0 THEN 0
                                ELSE IF p = 1 THEN disk[0] ELSE disk[p]
    BY <1>t, <1>p, <1>1, Renamed
  <2>2. OrderInv' /\ (newest \in Kept => newest \in Kept')
    BY <1>t, <1>p, <1>u, <1>k, <1>1, RenameKeeps
  <2>3. PlaceType'
    BY <1>t, <1>u, <1>1, <2>1 DEF PlaceType
  <2>4. KeptInv'
    <3>1. disk'[0] = 0
      BY <1>p, <2>1
    <3>. QED  BY <1>t, <1>u, <1>k, <1>1, <2>2, <3>1 DEF KeptInv
  <2>5. ExactInv'
    <3>. SUFFICES ASSUME ~torn, ~lost  PROVE ExactInv'
      BY <1>u, <1>1 DEF ExactInv
    <3>1. \A p \in Places : disk[p] = Rotating(p)
      BY <1>t, <1>u DEF ExactInv
    <3>2. disk[0] = Log(0)
      BY <1>p, <1>u, <3>1 DEF Rotating
    <3>3. ASSUME NEW p \in Places
          PROVE  disk'[p] = IF p = 0 THEN 0 ELSE Log(p - 1)'
      <4>1. Log(p - 1)' = Log(p - 1) /\ p \in Nat /\ MaxFiles \in Nat
        BY <1>u, <1>p, LogAssumption DEF Log
      <4>2. CASE p = 0
        BY <2>1, <4>2
      <4>3. CASE p = 1
        BY <2>1, <3>2, <4>1, <4>3
      <4>4. CASE p > 1
        <5>1. index # MaxFiles - 1
          BY <1>u, <1>p, <4>1, <4>4
        <5>. QED  BY <1>u, <2>1, <3>1, <4>1, <4>4, <5>1 DEF Rotating
      <4>. QED  BY <4>1, <4>2, <4>3, <4>4
    <3>. QED  BY <1>u, <3>3 DEF ExactInv
  <2>. QED  BY <2>2, <2>3, <2>4, <2>5 DEF RotationInv
<1>2. CASE disk' = disk /\ lost' = TRUE
  <2>1. PlaceType'
    BY <1>t, <1>u, <1>2 DEF PlaceType
  <2>2. OrderInv'
    BY <1>t, <1>u, <1>2 DEF OrderInv
  <2>3. KeptInv' /\ ExactInv'
    BY <1>t, <1>u, <1>k, <1>2 DEF KeptInv, ExactInv
  <2>. QED  BY <2>1, <2>2, <2>3 DEF RotationInv
<1>. QED  BY <1>1, <1>2 DEF RotateLast

LEMMA OpenKeeps == RotationInv /\ Open => RotationInv'
<1>. SUFFICES ASSUME RotationInv, Open  PROVE RotationInv'
  OBVIOUS
<1>t. PlaceType /\ OrderInv /\ KeptInv /\ ExactInv
  BY DEF RotationInv
<1>u. /\ pc = "open" /\ pc' = "idle" /\ newest' = newest + 1
      /\ disk' = [disk EXCEPT ![0] = newest + 1]
      /\ UNCHANGED <<up, index, torn, lost, begun>>
  BY DEF Open, NewLog
<1>p. Places \subseteq Nat /\ 0 \in Places
  BY LogAssumption DEF Places
<1>d. /\ disk \in [Places -> Nat] /\ newest \in Nat /\ begun \in Nat
      /\ newest + 1 \in Nat
  BY <1>t DEF PlaceType
<1>1. disk'[0] = newest + 1 /\ \A p \in Places : p # 0 => disk'[p] = disk[p]
  BY <1>d, <1>p, <1>u
<1>2. PlaceType'
  <2>1. disk' \in [Places -> Nat]
    BY <1>d, <1>u
  <2>. QED  BY <1>t, <1>u, <1>d, <2>1 DEF PlaceType
<1>3. OrderInv'
  <2>1. \A p \in Places : disk'[p] <= newest'
    BY <1>t, <1>d, <1>u, <1>1 DEF OrderInv
  <2>2. ASSUME NEW p \in Places, NEW q \in Places,
               p < q, disk'[p] # 0, disk'[q] # 0
        PROVE  disk'[p] > disk'[q]
    <3>1. q # 0 /\ disk'[q] = disk[q] /\ disk[q] <= newest /\ disk[q] \in Nat
      BY <1>t, <1>d, <1>p, <1>1, <2>2 DEF OrderInv
    <3>2. CASE p = 0
      BY <1>d, <1>1, <3>1, <3>2
    <3>3. CASE p # 0
      BY <1>t, <1>1, <2>2, <3>1, <3>3 DEF OrderInv
    <3>. QED  BY <3>2, <3>3
  <2>. QED  BY <2>1, <2>2 DEF OrderInv
<1>4. KeptInv'
  <2>1. newest' \in Kept'
    BY <1>p, <1>u, <1>1 DEF Kept
  <2>2. ~lost /\ begun # 0 => begun \in Kept'
    BY <1>t, <1>u, <1>1 DEF KeptInv, Kept
  <2>3. begun <= newest + 1 /\ newest + 1 # 0
    BY <1>t, <1>d DEF KeptInv
  <2>4. up
    BY <1>t, <1>u DEF KeptInv
  <2>. QED  BY <1>u, <1>1, <2>1, <2>2, <2>3, <2>4 DEF KeptInv
<1>5. ExactInv'
  <2>. SUFFICES ASSUME ~torn, ~lost  PROVE ExactInv'
    BY <1>u DEF ExactInv
  <2>1. \A p \in Places : disk[p] = IF p = 0 THEN 0 ELSE Log(p - 1)
    BY <1>t, <1>u DEF ExactInv
  <2>2. ASSUME NEW p \in Places  PROVE disk'[p] = Log(p)'
    <3>1. p \in Nat
      BY <1>p
    <3>2. CASE p = 0
      BY <1>d, <1>u, <1>1, <3>2 DEF Log
    <3>3. CASE p # 0
      BY <1>d, <1>u, <1>1, <2>1, <3>1, <3>3 DEF Log
    <3>. QED  BY <3>2, <3>3
  <2>. QED  BY <1>u, <2>2 DEF ExactInv
<1>. QED  BY <1>2, <1>3, <1>4, <1>5 DEF RotationInv

LEMMA RotationStep == RotationInv /\ [LogNext]_logVars => RotationInv'
<1>. SUFFICES ASSUME RotationInv, [LogNext]_logVars  PROVE RotationInv'
  OBVIOUS
<1>1. ASSUME UNCHANGED <<up, pc, index, disk, newest, torn, lost, begun>>
      PROVE  RotationInv'
  BY <1>1 DEF RotationInv, PlaceType, OrderInv, KeptInv, Kept, ExactInv, Log,
     Rotating
<1>2. CASE \E c \in Chars : Put(c)
  BY <1>1, <1>2 DEF Put, diskVars
<1>3. CASE BreakSink
  BY <1>1, <1>3 DEF BreakSink, diskVars
<1>4. CASE UNCHANGED logVars
  BY <1>1, <1>4 DEF logVars, diskVars
<1>. QED  BY <1>2, <1>3, <1>4, StartKeeps, StopKeeps, BeginKeeps,
             RotateOneKeeps, RotateLastKeeps, OpenKeeps DEF LogNext

LEMMA RotationKeeps == RotationInv => LogsKept
<1>. SUFFICES ASSUME RotationInv  PROVE LogsKept
  OBVIOUS
<1>t. PlaceType /\ OrderInv /\ KeptInv /\ ExactInv
  BY DEF RotationInv
<1>1. ASSUME ~torn, ~lost, pc = "idle",
             NEW log \in 1..newest, log + MaxFiles >= newest
      PROVE  log \in Kept
  <2>1. newest - log \in Places /\ newest > newest - log
        /\ newest - (newest - log) = log
    BY <1>t, <1>1, LogAssumption DEF PlaceType, Places
  <2>2. disk[newest - log] = log
    BY <1>t, <1>1, <2>1 DEF ExactInv, Log
  <2>. QED  BY <2>1, <2>2 DEF Kept
<1>. QED  BY <1>t, <1>1 DEF OrderInv, KeptInv, LogsKept

(* A rotation that is broken off, at whatever rename, leaves the logs in    *)
(* order and the newest of them in place, and one that is not keeps as many *)
(* as there is room for (RotatingFileSink, rotate_logs).                    *)
THEOREM RotationKeepsLogs == LogSpec => []LogsKept
<1>. QED  BY RotationInit, RotationStep, RotationKeeps, PTL DEF LogSpec

-----------------------------------------------------------------------------
(* The output: what the sinks have and what a terminal shows.               *)

SinkNames == {"console", "file", "socket"}
SinkLists ==
  {<<>>, <<"console", "file">>, <<"console", "file", "socket">>}

TerminalType ==
  [seq : {"text", "esc", "csi"}, one : BOOLEAN, coloured : BOOLEAN]

OutType ==
  /\ tee \in [sinks : SinkLists, state : {"TEXT", "ESCAPED", "BRACKET"},
              buffer_fragment : Seq(Chars), is_colored : BOOLEAN,
              bad : BOOLEAN, at_line_start : BOOLEAN]
  /\ sent \in Nat
  /\ got \in [SinkNames -> Nat]
  /\ terminal \in TerminalType
  /\ tangled \in BOOLEAN
  /\ pc # "idle" => tee.sinks = <<>>

\* A character goes through the sinks in order and stops at one that refuses it;
\* none follows it then.
SinksInv ==
  \A n \in DOMAIN tee.sinks :
    /\ ~tee.bad => got[tee.sinks[n]] = sent
    /\ \A m \in DOMAIN tee.sinks :
         m < n => got[tee.sinks[m]] \in {got[tee.sinks[n]],
                                         got[tee.sinks[n]] + 1}

\* What a terminal and TeeBuf are in the middle of.
Agree(t, state) ==
  t.seq = CASE state = "TEXT"    -> "text"
            [] state = "ESCAPED" -> "esc"
            [] state = "BRACKET" -> "csi"

\* As long as output goes on and no sequence begins inside another, TeeBuf and
\* the terminal are at the same point of a sequence, a digit that colours is in
\* the fragment, and the terminal is coloured only if TeeBuf takes it to be.
ColourInv ==
  ~tee.bad /\ ~tangled =>
    /\ Agree(terminal, tee.state)
    /\ tee.state = "ESCAPED" => ~terminal.one
    /\ tee.state = "BRACKET" /\ terminal.one =>
         "1" \in ToSet(tee.buffer_fragment)
    /\ terminal.coloured => tee.is_colored
    /\ tee.at_line_start /\ got["file"] > 0 =>
         tee.state = "TEXT" /\ ~tee.is_colored

OutInv == OutType /\ SinksInv /\ ColourInv

LEMMA ToSetAppend ==
  ASSUME NEW S, NEW s \in Seq(S), NEW c \in S
  PROVE  ToSet(Append(s, c)) = ToSet(s) \cup {c}
<1> DEFINE r == Append(s, c)
<1>1. /\ DOMAIN s = 1..Len(s) /\ DOMAIN r = 1..(Len(s) + 1)
      /\ Len(s) \in Nat /\ r[Len(s) + 1] = c
      /\ \A k \in 1..Len(s) : r[k] = s[k]
  OBVIOUS
<1> HIDE DEF r
<1>2. ASSUME NEW x \in ToSet(r) PROVE x \in ToSet(s) \cup {c}
  <2>1. PICK k \in DOMAIN r : r[k] = x
    BY <1>2 DEF ToSet
  <2>2. CASE k = Len(s) + 1
    BY <1>1, <2>1, <2>2
  <2>3. CASE k # Len(s) + 1
    <3>1. k \in DOMAIN s /\ s[k] = x
      BY <1>1, <2>1, <2>3
    <3> QED BY <3>1 DEF ToSet
  <2> QED BY <2>2, <2>3
<1>3. ASSUME NEW x \in ToSet(s) PROVE x \in ToSet(r)
  <2>1. PICK k \in DOMAIN s : s[k] = x
    BY <1>3 DEF ToSet
  <2>2. k \in DOMAIN r /\ r[k] = x
    BY <1>1, <2>1
  <2> QED BY <2>2 DEF ToSet
<1>4. c \in ToSet(r)
  <2>1. Len(s) + 1 \in DOMAIN r
    BY <1>1
  <2> QED BY <1>1, <2>1 DEF ToSet
<1>5. ToSet(r) = ToSet(s) \cup {c}
  BY <1>2, <1>3, <1>4
<1> QED BY <1>5 DEF r

\* No sink is there twice.
LEMMA SinksDiffer ==
  ASSUME tee.sinks \in SinkLists
  PROVE  /\ Len(tee.sinks) \in 0..3 /\ DOMAIN tee.sinks = 1..Len(tee.sinks)
         /\ \A n \in DOMAIN tee.sinks : tee.sinks[n] \in SinkNames
         /\ \A m, n \in DOMAIN tee.sinks :
              tee.sinks[m] = tee.sinks[n] => m = n
         /\ tee.sinks # <<>> =>
              /\ \E n \in DOMAIN tee.sinks : tee.sinks[n] = "console"
              /\ \E n \in DOMAIN tee.sinks : tee.sinks[n] = "file"
<1>1. CASE tee.sinks = <<>>
  BY <1>1
<1>2. CASE tee.sinks = <<"console", "file">>
  <2>1. /\ Len(tee.sinks) = 2 /\ DOMAIN tee.sinks = 1..2
        /\ tee.sinks[1] = "console" /\ tee.sinks[2] = "file"
    BY <1>2
  <2> QED BY <2>1 DEF SinkNames
<1>3. CASE tee.sinks = <<"console", "file", "socket">>
  <2>1. /\ Len(tee.sinks) = 3 /\ DOMAIN tee.sinks = 1..3
        /\ tee.sinks[1] = "console" /\ tee.sinks[2] = "file"
        /\ tee.sinks[3] = "socket"
    BY <1>3
  <2> QED BY <2>1 DEF SinkNames
<1> QED BY <1>1, <1>2, <1>3 DEF SinkLists

\* A character reaches the sinks before the first one that refuses it.
LEMMA ReachedBefore ==
  ASSUME tee.sinks \in SinkLists
  PROVE  /\ Refusing \in 1..(Len(tee.sinks) + 1)
         /\ \A n \in DOMAIN tee.sinks :
              tee.sinks[n] \in Reached <=> n < Refusing
<1> DEFINE L == Len(tee.sinks)
           R == {n \in DOMAIN tee.sinks : tee.sinks[n] \in broken}
                  \cup {L + 1}
<1>1. L \in 0..3 /\ DOMAIN tee.sinks = 1..L
  BY SinksDiffer
<1>2. R \subseteq 1..(L + 1) /\ L + 1 \in R
  BY <1>1
<1> HIDE DEF L, R
<1>3. PICK least \in R : \A x \in R : least <= x
  <2>1. \E k \in 1..4 : k \in R /\ \A j \in 1..4 : j < k => j \notin R
    <3>1. CASE 1 \in R
      BY <3>1
    <3>2. CASE 1 \notin R /\ 2 \in R
      BY <3>2
    <3>3. CASE 1 \notin R /\ 2 \notin R /\ 3 \in R
      BY <3>3
    <3>4. CASE 1 \notin R /\ 2 \notin R /\ 3 \notin R
      <4>1. 4 \in R
        <5>1. L + 1 \in {1, 2, 3, 4}
          BY <1>1
        <5> QED BY <1>2, <3>4, <5>1
      <4> QED BY <3>4, <4>1
    <3> QED BY <3>1, <3>2, <3>3, <3>4
  <2>2. 1..(L + 1) \subseteq 1..4
    BY <1>1
  <2> QED BY <1>2, <2>1, <2>2
<1>4. Min(R) \in R
  BY <1>3 DEF Min
<1>5. Refusing = Min(R)
  BY DEF Refusing, R, L
<1>6. Refusing \in 1..(L + 1)
  BY <1>2, <1>4, <1>5
<1>7. ASSUME NEW n \in DOMAIN tee.sinks
      PROVE  tee.sinks[n] \in Reached <=> n < Refusing
  <2>1. ASSUME n < Refusing PROVE tee.sinks[n] \in Reached
    <3>1. n \in 1..(Refusing - 1)
      BY <1>1, <1>6, <2>1
    <3> QED BY <3>1 DEF Reached
  <2>2. ASSUME tee.sinks[n] \in Reached PROVE n < Refusing
    <3>1. PICK m \in 1..(Refusing - 1) : tee.sinks[m] = tee.sinks[n]
      BY <2>2 DEF Reached
    <3>2. m \in DOMAIN tee.sinks
      BY <1>1, <1>6
    <3>3. m = n
      BY <3>1, <3>2, SinksDiffer
    <3> QED BY <1>1, <1>6, <3>1, <3>3
  <2> QED BY <2>1, <2>2
<1> QED BY <1>6, <1>7 DEF L

\* All fields of what a character makes of TeeBuf.
LEMMA PutFields ==
  ASSUME OutType, ~tee.bad, NEW c \in Chars, Put(c)
  PROVE  /\ tee'.sinks = tee.sinks /\ tee'.state = NextState(c)
         /\ NextState(c) \in {"TEXT", "ESCAPED", "BRACKET"}
         /\ tee'.buffer_fragment = IF NextState(c) = "TEXT" THEN <<>>
                                   ELSE Append(tee.buffer_fragment, c)
         /\ tee'.is_colored =
              IF tee.state = "BRACKET" /\ c = "m"
              THEN tee.buffer_fragment # <<"esc", "[", "0">>
              ELSE tee.is_colored
         /\ tee'.at_line_start = IF "file" \in Reached THEN c = "nl"
                                 ELSE tee.at_line_start
         /\ tee'.bad = \/ Refusing <= Len(tee.sinks)
                       \/ c = "nl" /\ (tee'.is_colored
                                        \/ tee'.state # "TEXT")
         /\ sent' = sent + 1 /\ pc' = pc
         /\ got' = [s \in DOMAIN got |->
                      got[s] + IF s \in Reached THEN 1 ELSE 0]
         /\ terminal' = IF "console" \in Reached THEN Shows(terminal, c)
                        ELSE terminal
         /\ tangled' = \/ tangled
                       \/ c = "esc" /\ tee.state # "TEXT"
                       \/ c = "nl" /\ tee.state = "ESCAPED"
         /\ tee' \in [sinks : SinkLists, state : {"TEXT", "ESCAPED", "BRACKET"},
                      buffer_fragment : Seq(Chars), is_colored : BOOLEAN,
                      bad : BOOLEAN, at_line_start : BOOLEAN]
<1> DEFINE after == UpdateColorState(c)
           start == IF "file" \in Reached THEN FileOverflow(c)
                    ELSE after.at_line_start
           bad == \/ Refusing <= Len(tee.sinks)
                  \/ c = "nl" /\ (after.is_colored \/ after.state # "TEXT")
           fragment == IF NextState(c) = "TEXT" THEN <<>>
                       ELSE Append(tee.buffer_fragment, c)
           colored == IF tee.state = "BRACKET" /\ c = "m"
                      THEN tee.buffer_fragment # <<"esc", "[", "0">>
                      ELSE tee.is_colored
<1>1. tee' = [after EXCEPT !.at_line_start = start, !.bad = bad]
  BY DEF Put
<1>2. NextState(c) \in {"TEXT", "ESCAPED", "BRACKET"}
  BY DEF NextState
<1>3. fragment \in Seq(Chars) /\ colored \in BOOLEAN
  <2>1. tee.buffer_fragment \in Seq(Chars) /\ tee.is_colored \in BOOLEAN
    BY DEF OutType
  <2>2. Append(tee.buffer_fragment, c) \in Seq(Chars) /\ <<>> \in Seq(Chars)
    BY <2>1
  <2>3. fragment \in Seq(Chars)
    BY <2>2
  <2>4. colored \in BOOLEAN
    BY <2>1
  <2> QED BY <2>3, <2>4
<1>4. after = [tee EXCEPT !.state = NextState(c), !.buffer_fragment = fragment,
                         !.is_colored = colored]
  BY DEF UpdateColorState
<1>5. tee \in [sinks : SinkLists, state : {"TEXT", "ESCAPED", "BRACKET"},
               buffer_fragment : Seq(Chars), is_colored : BOOLEAN,
               bad : BOOLEAN, at_line_start : BOOLEAN]
  BY DEF OutType
<1> HIDE DEF fragment, colored
<1>6. /\ after \in [sinks : SinkLists, state : {"TEXT", "ESCAPED", "BRACKET"},
                   buffer_fragment : Seq(Chars), is_colored : BOOLEAN,
                   bad : BOOLEAN, at_line_start : BOOLEAN]
      /\ after.sinks = tee.sinks /\ after.state = NextState(c)
      /\ after.buffer_fragment = fragment /\ after.is_colored = colored
      /\ after.at_line_start = tee.at_line_start
  BY <1>2, <1>3, <1>4, <1>5
<1> HIDE DEF after
<1>7. start \in BOOLEAN /\ bad \in BOOLEAN
  BY <1>6 DEF FileOverflow
<1> HIDE DEF start, bad
<1>8. /\ tee'.sinks = tee.sinks /\ tee'.state = NextState(c)
      /\ tee'.buffer_fragment = fragment /\ tee'.is_colored = colored
      /\ tee'.at_line_start = start /\ tee'.bad = bad
      /\ tee' \in [sinks : SinkLists, state : {"TEXT", "ESCAPED", "BRACKET"},
                   buffer_fragment : Seq(Chars), is_colored : BOOLEAN,
                   bad : BOOLEAN, at_line_start : BOOLEAN]
  BY <1>1, <1>6, <1>7
<1>9. /\ sent' = sent + 1 /\ pc' = pc
      /\ got' = [s \in DOMAIN got |->
                   got[s] + IF s \in Reached THEN 1 ELSE 0]
      /\ terminal' = IF "console" \in Reached THEN Shows(terminal, c)
                     ELSE terminal
      /\ tangled' = \/ tangled
                    \/ c = "esc" /\ tee.state # "TEXT"
                    \/ c = "nl" /\ tee.state = "ESCAPED"
  BY DEF Put
<1>10. start = IF "file" \in Reached THEN c = "nl" ELSE tee.at_line_start
  BY <1>6 DEF start, FileOverflow
<1>11. bad = \/ Refusing <= Len(tee.sinks)
             \/ c = "nl" /\ (tee'.is_colored \/ tee'.state # "TEXT")
  BY <1>6, <1>8 DEF bad
<1> QED BY <1>2, <1>8, <1>9, <1>10, <1>11 DEF fragment, colored

\* While nothing goes wrong a character reaches every sink.
LEMMA AllReached ==
  ASSUME OutType, Refusing > Len(tee.sinks)
  PROVE  \A n \in DOMAIN tee.sinks : tee.sinks[n] \in Reached
<1>1. tee.sinks \in SinkLists
  BY DEF OutType
<1>2. Len(tee.sinks) \in Nat /\ DOMAIN tee.sinks = 1..Len(tee.sinks)
  BY <1>1, SinksDiffer
<1>3. Refusing \in 1..(Len(tee.sinks) + 1)
  BY <1>1, ReachedBefore
<1>4. \A n \in DOMAIN tee.sinks : n < Refusing
  BY <1>2, <1>3
<1> QED BY <1>1, <1>4, ReachedBefore

LEMMA PutInStep ==
  ASSUME OutInv, ~tee.bad, NEW c \in Chars, Put(c)
  PROVE  SinksInv'
<1>1. /\ tee.sinks \in SinkLists /\ sent \in Nat
      /\ got \in [SinkNames -> Nat] /\ OutType
  BY DEF OutInv, OutType
<1>2. /\ tee'.sinks = tee.sinks /\ sent' = sent + 1
      /\ tee'.bad = \/ Refusing <= Len(tee.sinks)
                    \/ c = "nl" /\ (tee'.is_colored \/ tee'.state # "TEXT")
      /\ got' = [s \in DOMAIN got |->
                   got[s] + IF s \in Reached THEN 1 ELSE 0]
  BY <1>1, PutFields
<1>3. /\ Len(tee.sinks) \in Nat /\ DOMAIN tee.sinks = 1..Len(tee.sinks)
      /\ \A n \in DOMAIN tee.sinks : tee.sinks[n] \in SinkNames
  BY <1>1, SinksDiffer
<1>4. /\ Refusing \in 1..(Len(tee.sinks) + 1)
      /\ \A n \in DOMAIN tee.sinks : tee.sinks[n] \in Reached <=> n < Refusing
  BY <1>1, ReachedBefore
<1>5. \A n \in DOMAIN tee.sinks :
        got'[tee.sinks[n]] = sent + IF n < Refusing THEN 1 ELSE 0
  BY <1>1, <1>2, <1>3, <1>4 DEF OutInv, SinksInv
<1> SUFFICES ASSUME NEW n \in DOMAIN tee.sinks
             PROVE  /\ ~tee'.bad => got'[tee.sinks[n]] = sent'
                    /\ \A m \in DOMAIN tee.sinks :
                         m < n => got'[tee.sinks[m]] \in
                                    {got'[tee.sinks[n]], got'[tee.sinks[n]] + 1}
  BY <1>2 DEF SinksInv
<1>6. ASSUME ~tee'.bad PROVE got'[tee.sinks[n]] = sent'
  <2>1. n < Refusing
    BY <1>2, <1>3, <1>4, <1>6
  <2> QED BY <1>2, <1>5, <2>1
<1>7. ASSUME NEW m \in DOMAIN tee.sinks, m < n
      PROVE  got'[tee.sinks[m]] \in {got'[tee.sinks[n]],
                                     got'[tee.sinks[n]] + 1}
  <2>1. n < Refusing => m < Refusing
    BY <1>3, <1>4, <1>7
  <2>2. /\ got'[tee.sinks[m]] = sent + IF m < Refusing THEN 1 ELSE 0
        /\ got'[tee.sinks[n]] = sent + IF n < Refusing THEN 1 ELSE 0
    BY <1>5
  <2> QED BY <1>1, <2>1, <2>2
<1> QED BY <1>6, <1>7

\* The fields of a terminal that has been changed.
LEMMA TerminalFields ==
  ASSUME NEW S, NEW B, NEW t \in [seq : S, one : B, coloured : B]
  PROVE  /\ t.seq \in S /\ t.one \in B /\ t.coloured \in B
         /\ \A seq \in S : \A u : u = [t EXCEPT !.seq = seq] =>
              /\ u \in [seq : S, one : B, coloured : B]
              /\ u.seq = seq /\ u.one = t.one /\ u.coloured = t.coloured
         /\ \A one \in B : \A u : u = [t EXCEPT !.one = one] =>
              /\ u \in [seq : S, one : B, coloured : B]
              /\ u.seq = t.seq /\ u.one = one /\ u.coloured = t.coloured
         /\ \A seq \in S, one \in B : \A u :
              u = [t EXCEPT !.seq = seq, !.one = one] =>
                /\ u \in [seq : S, one : B, coloured : B]
                /\ u.seq = seq /\ u.one = one /\ u.coloured = t.coloured
OBVIOUS

LEMMA PlainFields ==
  ASSUME NEW S, NEW B, NEW seq \in S, NEW one \in B, NEW coloured \in B,
         NEW v \in B
  PROVE  LET t == [[seq |-> seq, one |-> one, coloured |-> coloured]
                     EXCEPT !.coloured = v]
         IN  /\ t \in [seq : S, one : B, coloured : B]
             /\ t.seq = seq /\ t.one = one /\ t.coloured = v
OBVIOUS

\* What a terminal makes of a character, by where it is in a sequence.
LEMMA ShowsFields ==
  ASSUME NEW t \in TerminalType, NEW c \in Chars
  PROVE  /\ Shows(t, c) \in TerminalType
         /\ Shows(t, c).seq =
              CASE c = "esc" -> "esc"
                [] c # "esc" /\ (t.seq = "text" \/ c = "nl") -> t.seq
                [] t.seq = "esc" /\ c = "[" -> "csi"
                [] t.seq = "csi" /\ c \in {"0", "1"} -> "csi"
                [] OTHER -> "text"
         /\ c = "esc" => Shows(t, c).one = FALSE
         /\ \/ Shows(t, c).one = t.one
            \/ Shows(t, c).one = FALSE
            \/ t.seq = "csi" /\ c = "1"
         /\ Shows(t, c).coloured = IF t.seq = "csi" /\ c = "m" THEN t.one
                                   ELSE t.coloured
<1> DEFINE S == {"text", "esc", "csi"}
           T == [seq : S, one : BOOLEAN, coloured : BOOLEAN]
<1>0. /\ t \in T /\ TerminalType = T /\ TRUE \in BOOLEAN /\ FALSE \in BOOLEAN
      /\ "text" \in S /\ "esc" \in S /\ "csi" \in S
  BY DEF TerminalType
<1> HIDE DEF S
<1>t. t.seq \in S /\ t.one \in BOOLEAN /\ t.coloured \in BOOLEAN
  BY <1>0, TerminalFields, Zenon
<1>1. CASE c = "esc"
  <2>1. Shows(t, c) = [t EXCEPT !.seq = "esc", !.one = FALSE]
    BY <1>1 DEF Shows
  <2>2. /\ Shows(t, c) \in T /\ Shows(t, c).seq = "esc"
        /\ Shows(t, c).one = FALSE /\ Shows(t, c).coloured = t.coloured
    BY <1>0, <2>1, TerminalFields, Zenon
  <2> QED BY <1>0, <1>1, <2>2
<1>2. CASE c # "esc" /\ (t.seq = "text" \/ c = "nl")
  <2>1. Shows(t, c) = t
    BY <1>2 DEF Shows
  <2> QED BY <1>0, <1>2, <2>1
<1>3. CASE t.seq = "esc" /\ c \notin {"esc", "nl"}
  <2> DEFINE seq == IF c = "[" THEN "csi" ELSE "text"
  <2>1. Shows(t, c) = [t EXCEPT !.seq = seq]
    BY <1>3 DEF Shows
  <2>2. seq \in S
    BY <1>0
  <2> HIDE DEF seq
  <2>3. /\ Shows(t, c) \in T /\ Shows(t, c).seq = seq
        /\ Shows(t, c).one = t.one /\ Shows(t, c).coloured = t.coloured
    BY <1>0, <2>1, <2>2, TerminalFields, Zenon
  <2> QED BY <1>0, <1>3, <2>3 DEF seq
<1>4. CASE t.seq = "csi" /\ c \in {"0", "1"}
  <2> DEFINE one == t.one \/ c = "1"
  <2>1. Shows(t, c) = [t EXCEPT !.one = one]
    BY <1>4 DEF Shows
  <2>2. one \in BOOLEAN /\ (c # "1" => one = t.one)
    BY <1>t
  <2> HIDE DEF one
  <2>3. /\ Shows(t, c) \in T /\ Shows(t, c).seq = t.seq
        /\ Shows(t, c).one = one /\ Shows(t, c).coloured = t.coloured
    BY <1>0, <2>1, <2>2, TerminalFields, Zenon
  <2> QED BY <1>0, <1>4, <2>2, <2>3
<1>5. CASE t.seq = "csi" /\ c = "m"
  <2>1. Shows(t, c) = [Plain EXCEPT !.coloured = t.one]
    BY <1>5 DEF Shows
  <2>2. /\ Shows(t, c) \in T /\ Shows(t, c).seq = "text"
        /\ Shows(t, c).one = FALSE /\ Shows(t, c).coloured = t.one
    BY <1>0, <1>t, <2>1, PlainFields, Zenon DEF Plain
  <2> QED BY <1>0, <1>5, <2>2
<1>6. CASE t.seq = "csi" /\ c = "["
  <2>1. Shows(t, c) = [t EXCEPT !.seq = "text", !.one = FALSE]
    BY <1>6 DEF Shows
  <2>2. /\ Shows(t, c) \in T /\ Shows(t, c).seq = "text"
        /\ Shows(t, c).one = FALSE /\ Shows(t, c).coloured = t.coloured
    BY <1>0, <2>1, TerminalFields, Zenon
  <2> QED BY <1>0, <1>6, <2>2
<1>7. t.seq \in {"text", "esc", "csi"}
  BY <1>t DEF S
<1> QED BY <1>1, <1>2, <1>3, <1>4, <1>5, <1>6, <1>7 DEF Chars

\* The terminal goes through the same states as TeeBuf.
LEMMA SameSequence ==
  ASSUME OutType, NEW c \in Chars, c = "esc" => tee.state = "TEXT",
         c = "nl" => tee.state # "ESCAPED", Agree(terminal, tee.state)
  PROVE  Agree(Shows(terminal, c), NextState(c))
<1>1. /\ tee.state \in {"TEXT", "ESCAPED", "BRACKET"}
      /\ terminal \in TerminalType
  BY DEF OutType
<1>2. Shows(terminal, c).seq =
        CASE c = "esc" -> "esc"
          [] c # "esc" /\ (terminal.seq = "text" \/ c = "nl") -> terminal.seq
          [] terminal.seq = "esc" /\ c = "[" -> "csi"
          [] terminal.seq = "csi" /\ c \in {"0", "1"} -> "csi"
          [] OTHER -> "text"
  BY <1>1, ShowsFields
<1>3. CASE tee.state = "TEXT"
  <2>1. terminal.seq = "text"
    BY <1>3 DEF Agree
  <2> QED BY <1>2, <1>3, <2>1 DEF Agree, NextState, Chars
<1>4. CASE tee.state = "ESCAPED"
  <2>1. terminal.seq = "esc" /\ c \notin {"esc", "nl"}
    BY <1>4 DEF Agree
  <2> QED BY <1>2, <1>4, <2>1 DEF Agree, NextState, Chars
<1>5. CASE tee.state = "BRACKET"
  <2>1. terminal.seq = "csi" /\ c # "esc"
    BY <1>5 DEF Agree
  <2> QED BY <1>2, <1>5, <2>1 DEF Agree, NextState, Chars
<1> QED BY <1>1, <1>3, <1>4, <1>5

LEMMA PutColours ==
  ASSUME OutInv, ~tee.bad, NEW c \in Chars, Put(c)
  PROVE  ColourInv'
<1> SUFFICES ASSUME ~tee'.bad, ~tangled'
             PROVE  /\ Agree(terminal', tee'.state)
                    /\ tee'.state = "ESCAPED" => ~terminal'.one
                    /\ tee'.state = "BRACKET" /\ terminal'.one =>
                         "1" \in ToSet(tee'.buffer_fragment)
                    /\ terminal'.coloured => tee'.is_colored
                    /\ tee'.at_line_start /\ got'["file"] > 0 =>
                         tee'.state = "TEXT" /\ ~tee'.is_colored
  BY DEF ColourInv, Agree
<1>1. OutType /\ ColourInv
  BY DEF OutInv
<1>2. /\ tee'.state = NextState(c)
      /\ NextState(c) \in {"TEXT", "ESCAPED", "BRACKET"}
      /\ tee'.buffer_fragment = IF NextState(c) = "TEXT" THEN <<>>
                                ELSE Append(tee.buffer_fragment, c)
      /\ tee'.is_colored =
           IF tee.state = "BRACKET" /\ c = "m"
           THEN tee.buffer_fragment # <<"esc", "[", "0">>
           ELSE tee.is_colored
      /\ tee'.at_line_start = IF "file" \in Reached THEN c = "nl"
                              ELSE tee.at_line_start
      /\ tee'.bad = \/ Refusing <= Len(tee.sinks)
                    \/ c = "nl" /\ (tee'.is_colored \/ tee'.state # "TEXT")
      /\ terminal' = IF "console" \in Reached THEN Shows(terminal, c)
                     ELSE terminal
      /\ tangled' = \/ tangled
                    \/ c = "esc" /\ tee.state # "TEXT"
                    \/ c = "nl" /\ tee.state = "ESCAPED"
  BY <1>1, PutFields
<1>3. /\ tee.sinks \in SinkLists /\ tee.sinks # <<>>
      /\ tee.buffer_fragment \in Seq(Chars)
      /\ tee.state \in {"TEXT", "ESCAPED", "BRACKET"}
      /\ terminal \in TerminalType
  BY <1>1 DEF OutType, Put, TerminalType
<1>4. /\ ~tangled
      /\ c = "esc" => tee.state = "TEXT"
      /\ c = "nl" => tee.state # "ESCAPED"
  BY <1>2
<1>5. Refusing > Len(tee.sinks)
  BY <1>2, <1>3, ReachedBefore, SinksDiffer
<1>6. "console" \in Reached /\ "file" \in Reached
  BY <1>1, <1>3, <1>5, AllReached, SinksDiffer
<1>7. terminal' = Shows(terminal, c)
  BY <1>2, <1>6
<1>8. /\ Agree(terminal, tee.state)
      /\ tee.state = "ESCAPED" => ~terminal.one
      /\ tee.state = "BRACKET" /\ terminal.one =>
           "1" \in ToSet(tee.buffer_fragment)
      /\ terminal.coloured => tee.is_colored
  BY <1>1, <1>4 DEF ColourInv
<1>9. Agree(terminal', tee'.state)
  BY <1>1, <1>2, <1>4, <1>7, <1>8, SameSequence
<1>10. ASSUME tee'.state = "ESCAPED"  PROVE ~terminal'.one
  <2>1. c = "esc"
    BY <1>2, <1>10 DEF NextState
  <2> QED BY <1>3, <1>7, <2>1, ShowsFields
<1>11. ASSUME tee'.state = "BRACKET", terminal'.one
       PROVE  "1" \in ToSet(tee'.buffer_fragment)
  <2>1. ToSet(tee'.buffer_fragment) = ToSet(tee.buffer_fragment) \cup {c}
    BY <1>2, <1>3, <1>11, ToSetAppend
  <2>2. \/ tee.state = "ESCAPED" /\ c = "["
        \/ tee.state = "BRACKET"
    BY <1>2, <1>3, <1>11 DEF NextState
  <2>3. terminal.one \/ c = "1"
    BY <1>3, <1>7, <1>11, ShowsFields
  <2> QED BY <1>8, <2>1, <2>2, <2>3
<1>12. ASSUME terminal'.coloured PROVE tee'.is_colored
  <2>1. CASE tee.state = "BRACKET" /\ c = "m"
    <3>1. terminal.seq = "csi"
      BY <1>8, <2>1 DEF Agree
    <3>2. terminal.one
      BY <1>3, <1>7, <1>12, <2>1, <3>1, ShowsFields
    <3>3. "1" \in ToSet(tee.buffer_fragment)
      BY <1>8, <2>1, <3>2
    <3>4. tee.buffer_fragment # <<"esc", "[", "0">>
      <4>1. "1" \notin ToSet(<<"esc", "[", "0">>)
        BY DEF ToSet
      <4> QED BY <3>3, <4>1
    <3> QED BY <1>2, <2>1, <3>4
  <2>2. CASE ~(tee.state = "BRACKET" /\ c = "m")
    <3>1. ~(terminal.seq = "csi" /\ c = "m")
      BY <1>3, <1>8, <2>2 DEF Agree
    <3>2. terminal.coloured
      BY <1>3, <1>7, <1>12, <3>1, ShowsFields
    <3> QED BY <1>2, <1>8, <2>2, <3>2
  <2> QED BY <2>1, <2>2
<1>13. ASSUME tee'.at_line_start PROVE tee'.state = "TEXT" /\ ~tee'.is_colored
  <2>1. c = "nl"
    BY <1>2, <1>6, <1>13
  <2> QED BY <1>2, <2>1
<1> QED BY <1>9, <1>10, <1>11, <1>12, <1>13

LEMMA PutKeeps ==
  ASSUME OutInv, NEW c \in Chars, Put(c)
  PROVE  OutInv'
<1>1. OutType /\ SinksInv /\ ColourInv
  BY DEF OutInv
<1>2. sent' = sent + 1 /\ pc' = pc
  BY DEF Put
<1>3. CASE tee.bad
  <2>1. UNCHANGED <<tee, got, terminal, tangled>>
    BY <1>3 DEF Put
  <2>2. OutType'
    BY <1>1, <1>2, <2>1 DEF OutType
  <2>3. SinksInv' /\ ColourInv'
    BY <1>1, <1>3, <2>1 DEF SinksInv, ColourInv
  <2> QED BY <2>2, <2>3 DEF OutInv
<1>4. CASE ~tee.bad
  <2>1. /\ tee'.sinks = tee.sinks
        /\ tee' \in [sinks : SinkLists, state : {"TEXT", "ESCAPED", "BRACKET"},
                     buffer_fragment : Seq(Chars), is_colored : BOOLEAN,
                     bad : BOOLEAN, at_line_start : BOOLEAN]
        /\ got' = [s \in DOMAIN got |->
                     got[s] + IF s \in Reached THEN 1 ELSE 0]
        /\ terminal' = IF "console" \in Reached THEN Shows(terminal, c)
                       ELSE terminal
        /\ tangled' \in BOOLEAN
    BY <1>1, <1>4, PutFields DEF OutType
  <2>2. got' \in [SinkNames -> Nat]
    BY <1>1, <2>1 DEF OutType
  <2>3. terminal' \in TerminalType
    BY <1>1, <2>1, ShowsFields DEF OutType
  <2>4. sent' \in Nat
    BY <1>1, <1>2 DEF OutType
  <2>5. OutType'
    BY <1>1, <1>2, <2>1, <2>2, <2>3, <2>4 DEF OutType
  <2> QED BY <1>4, <2>5, PutInStep, PutColours DEF OutInv
<1> QED BY <1>3, <1>4

LEMMA FreshFields ==
  /\ FreshTee \in [sinks : SinkLists, state : {"TEXT", "ESCAPED", "BRACKET"},
                   buffer_fragment : Seq(Chars), is_colored : BOOLEAN,
                   bad : BOOLEAN, at_line_start : BOOLEAN]
  /\ NoneGot \in [SinkNames -> Nat]
  /\ Plain \in TerminalType
  /\ FreshTee.sinks = <<>>
<1>1. FreshTee.sinks = <<>> /\ <<>> \in SinkLists /\ <<>> \in Seq(Chars)
  BY DEF FreshTee, SinkLists
<1>2. FreshTee \in [sinks : SinkLists, state : {"TEXT", "ESCAPED", "BRACKET"},
                   buffer_fragment : Seq(Chars), is_colored : BOOLEAN,
                   bad : BOOLEAN, at_line_start : BOOLEAN]
  BY <1>1 DEF FreshTee
<1>3. NoneGot \in [SinkNames -> Nat]
  BY DEF NoneGot, SinkNames
<1>4. Plain \in TerminalType
  BY DEF Plain, TerminalType
<1> QED BY <1>1, <1>2, <1>3, <1>4

LEMMA FreshOutput ==
  ASSUME tee = FreshTee, sent = 0, got = NoneGot, terminal = Plain,
         tangled = FALSE, pc = "idle"
  PROVE  OutInv
<1>1. OutType
  BY FreshFields DEF OutType
<1>2. SinksInv
  BY DEF SinksInv, FreshTee
<1>3. ColourInv
  BY DEF ColourInv, Agree, FreshTee, NoneGot, Plain
<1> QED BY <1>1, <1>2, <1>3 DEF OutInv

\* setup_io takes the sinks away, and attaches all of them anew.
LEMMA BeginOutput == OutInv /\ BeginSetup => OutInv'
<1> SUFFICES ASSUME OutInv, BeginSetup PROVE OutInv'
  OBVIOUS
<1>1. /\ tee' = [tee EXCEPT !.sinks = <<>>]
      /\ UNCHANGED <<sent, got, terminal, tangled>>
  BY DEF BeginSetup
<1>2. OutType'
  BY <1>1 DEF OutInv, OutType, SinkLists
<1>3. /\ tee'.sinks = <<>> /\ tee'.state = tee.state /\ tee'.bad = tee.bad
      /\ tee'.buffer_fragment = tee.buffer_fragment
      /\ tee'.is_colored = tee.is_colored
      /\ tee'.at_line_start = tee.at_line_start
  BY <1>1 DEF OutInv, OutType
<1>4. SinksInv'
  BY <1>3 DEF SinksInv
<1>5. ColourInv'
  BY <1>1, <1>3 DEF OutInv, ColourInv, Agree
<1> QED BY <1>2, <1>4, <1>5 DEF OutInv

LEMMA OpenOutput == OutInv /\ Open => OutInv'
<1> SUFFICES ASSUME OutInv, Open PROVE OutInv'
  OBVIOUS
<1>1. tee.sinks = <<>>
  BY DEF OutInv, OutType, Open
<1>2. PICK out_socket \in BOOLEAN :
        tee' = [tee EXCEPT !.at_line_start = TRUE,
                           !.sinks = @ \o <<"console", "file">> \o
                             IF out_socket THEN <<"socket">> ELSE <<>>]
  BY DEF Open
<1> DEFINE sinks == tee.sinks \o <<"console", "file">> \o
                      IF out_socket THEN <<"socket">> ELSE <<>>
<1>3. sinks \in SinkLists
  <2>1. tee.sinks \o <<"console", "file">> = <<"console", "file">>
    BY <1>1
  <2>2. <<"console", "file">> \o <<"socket">> = <<"console", "file", "socket">>
    <3> DEFINE two == <<"console", "file">>
               one == <<"socket">>
               three == <<"console", "file", "socket">>
    <3>1. /\ two \in Seq(SinkNames) /\ one \in Seq(SinkNames)
          /\ three \in Seq(SinkNames)
          /\ Len(two) = 2 /\ Len(one) = 1 /\ Len(three) = 3
          /\ two[1] = three[1] /\ two[2] = three[2] /\ one[1] = three[3]
      BY DEF SinkNames
    <3> HIDE DEF one, two, three
    <3>2. /\ two \o one \in Seq(SinkNames)
          /\ Len(two \o one) = 3
          /\ \A k \in 1..3 : (two \o one)[k] =
                              IF k <= 2 THEN two[k] ELSE one[k - 2]
      BY <3>1, ConcatProperties
    <3>3. \A k \in 1..3 : (two \o one)[k] = three[k]
      BY <3>1, <3>2
    <3>4. two \o one = three
      BY <3>1, <3>2, <3>3, SeqEqual
    <3> QED BY <3>4 DEF one, two, three
  <2>3. <<"console", "file">> \o <<>> = <<"console", "file">>
    OBVIOUS
  <2> QED BY <2>1, <2>2, <2>3 DEF SinkLists
<1>4. tee' = [tee EXCEPT !.at_line_start = TRUE, !.sinks = sinks]
  BY <1>2
<1> HIDE DEF sinks
<1>5. /\ sent' = 0 /\ got' = NoneGot /\ pc' = "idle"
      /\ UNCHANGED <<terminal, tangled>>
  BY DEF Open
<1>6. /\ tee'.sinks = sinks /\ tee'.state = tee.state /\ tee'.bad = tee.bad
      /\ tee'.buffer_fragment = tee.buffer_fragment
      /\ tee'.is_colored = tee.is_colored
      /\ tee' \in [sinks : SinkLists, state : {"TEXT", "ESCAPED", "BRACKET"},
                   buffer_fragment : Seq(Chars), is_colored : BOOLEAN,
                   bad : BOOLEAN, at_line_start : BOOLEAN]
  BY <1>3, <1>4 DEF OutInv, OutType
<1>7. got' \in [SinkNames -> Nat] /\ \A s \in SinkNames : got'[s] = 0
  BY <1>5 DEF NoneGot, SinkNames
<1>8. OutType'
  BY <1>5, <1>6, <1>7 DEF OutInv, OutType
<1>9. SinksInv'
  <2>1. \A n \in DOMAIN sinks : sinks[n] \in SinkNames
    BY <1>3, <1>6, SinksDiffer DEF SinkLists, SinkNames
  <2>2. \A n \in DOMAIN sinks : got'[sinks[n]] = 0
    BY <1>7, <2>1
  <2> QED BY <1>5, <1>6, <2>2 DEF SinksInv
<1>10. ColourInv'
  BY <1>5, <1>6, <1>7 DEF OutInv, ColourInv, Agree, SinkNames
<1> QED BY <1>8, <1>9, <1>10 DEF OutInv

LEMMA OutputStep == OutInv /\ [LogNext]_logVars => OutInv'
<1> SUFFICES ASSUME OutInv, [LogNext]_logVars PROVE OutInv'
  OBVIOUS
<1>1. ASSUME UNCHANGED <<tee, sent, got, terminal, tangled>>,
             pc' # "idle" => pc # "idle"
      PROVE  OutInv'
  BY <1>1 DEF OutInv, OutType, SinksInv, ColourInv, Agree
<1>2. CASE Start \/ RotateOne \/ RotateLast \/ BreakSink \/ UNCHANGED logVars
  <2>1. /\ UNCHANGED <<tee, sent, got, terminal, tangled>>
        /\ pc' # "idle" => pc # "idle"
    BY <1>2 DEF Start, RotateOne, RotateLast, BreakSink, logVars, outVars
  <2> QED BY <1>1, <2>1
<1>3. CASE Stop
  <2>1. /\ tee' = FreshTee /\ sent' = 0 /\ got' = NoneGot
        /\ terminal' = Plain /\ tangled' = FALSE /\ pc' = "idle"
    BY <1>3 DEF Stop
  <2>2. OutType'
    BY <2>1, FreshFields DEF OutType
  <2>3. SinksInv'
    BY <2>1 DEF SinksInv, FreshTee
  <2>4. ColourInv'
    BY <2>1 DEF ColourInv, Agree, FreshTee, NoneGot, Plain
  <2> QED BY <2>2, <2>3, <2>4 DEF OutInv
<1> QED BY <1>2, <1>3, BeginOutput, OpenOutput, PutKeeps DEF LogNext

LEMMA OutputInvariant == LogSpec => []OutInv
<1>1. LogInit => OutInv
  BY FreshOutput DEF LogInit
<1> QED BY <1>1, OutputStep, PTL DEF LogSpec

\* Each sink has the same text, up to one character that stopped at one that
\* refuses it, for any number of characters (TeeBuf::xsputn, TeeBuf::overflow).
THEOREM SinksHaveTheSame == LogSpec => []SinksInStep
<1>1. OutInv => SinksInStep
  BY DEF OutInv, SinksInv, SinksInStep
<1> QED BY <1>1, OutputInvariant, PTL

\* As long as output goes on, no colour runs over the end of a line, however
\* long the text and at whatever sink it stops, if no sequence of the text
\* begins inside another and no line ends right behind an escape
\* (TeeBuf::overflow, update_color_state).
THEOREM ColoursEndWithTheLine == LogSpec => []LineEndsPlain
<1>1. OutInv => LineEndsPlain
  <2> SUFFICES ASSUME OutInv, ~tangled, ~tee.bad, tee.at_line_start,
                      got.file > 0
               PROVE  ~terminal.coloured /\ terminal.seq = "text"
    BY DEF LineEndsPlain
  <2>1. tee.state = "TEXT" /\ ~tee.is_colored
    BY DEF OutInv, ColourInv
  <2> QED BY <2>1 DEF OutInv, ColourInv, Agree
<1> QED BY <1>1, OutputInvariant, PTL
=============================================================================
