--------------------------- MODULE BarFeedProofs ----------------------------
(***************************************************************************)
(* Proofs about BarFeed: whatever the binary files hold, the ticks handed  *)
(* to the strategy never go back in time, and when the files do not go     *)
(* back either they are all handed over once; the arrays updated one       *)
(* element at a time are those of the ring; computations at close are one  *)
(* per bar.                                                                *)
(***************************************************************************)
EXTENDS BarFeed, SequenceTheorems, FiniteSetTheorems, WellFoundedInduction, TLAPS

Ticks == [ts : Nat, price : Nat]

StreamTypes ==
  /\ store \in Stores
  /\ cur \in Int /\ lastTs \in Nat /\ ofs \in Nat /\ asked \in Int
  /\ file \in [month : Int, read : Nat]
  /\ file = NoFile \/ Format(file.month) # "none"
  /\ curTs \in Int /\ timestep \in Timesteps

NoText == \A m \in DOMAIN store : store[m].format # "text"

(* No tick given to the caller so far is later than x.                     *)
GivenBy(x) ==
  IF loop = "fill" /\ out # <<>> THEN out[Len(out)].ts <= x
                                 ELSE delivered # <<>> => delivered[Len(delivered)].ts <= x

(* What was given is in order, and before what is left in the buffer; the  *)
(* buffer is in order and ends at lastTs.                                  *)
InTime ==
  /\ buffer \in Seq(Ticks) /\ out \in Seq(Ticks) /\ delivered \in Seq(Ticks)
  /\ Monotone(delivered) /\ Monotone(buffer)
  /\ loop = "fill" =>
       /\ Monotone(out)
       /\ out # <<>> /\ delivered # <<>> => delivered[Len(delivered)].ts <= out[1].ts
  /\ IF ofs < Len(buffer) THEN GivenBy(buffer[ofs + 1].ts) ELSE GivenBy(lastTs)
  /\ buffer # <<>> => buffer[Len(buffer)].ts = lastTs

TimeInv == StreamTypes /\ (NoText => InTime)

-----------------------------------------------------------------------------
LEMMA EndsOfSequence ==
  ASSUME NEW s \in Seq(Ticks), s # <<>>
  PROVE  /\ Len(s) \in Nat /\ Len(s) > 0
         /\ s[1].ts \in Nat /\ s[Len(s)].ts \in Nat
  <1>1. Len(s) \in Nat /\ Len(s) > 0
    OBVIOUS
  <1>2. s[1] \in Ticks /\ s[Len(s)] \in Ticks
    BY <1>1
  <1> QED
    BY <1>1, <1>2 DEF Ticks

LEMMA ConcatMonotone ==
  ASSUME NEW s \in Seq(Ticks), NEW t \in Seq(Ticks), Monotone(s), Monotone(t),
         s # <<>> /\ t # <<>> => s[Len(s)].ts <= t[1].ts
  PROVE  Monotone(s \o t)
  <1>1. /\ Len(s \o t) = Len(s) + Len(t)
        /\ \A i \in 1..(Len(s) + Len(t)) :
             (s \o t)[i] = IF i <= Len(s) THEN s[i] ELSE t[i - Len(s)]
    BY ConcatProperties
  <1>2. SUFFICES ASSUME NEW i \in 2..(Len(s) + Len(t))
                 PROVE  (s \o t)[i - 1].ts <= (s \o t)[i].ts
    BY <1>1 DEF Monotone
  <1>3. CASE i <= Len(s)
    BY <1>1, <1>3 DEF Monotone
  <1>4. CASE i = Len(s) + 1
    BY <1>1, <1>4
  <1>5. CASE i > Len(s) + 1
    <2>1. i - Len(s) \in 2..Len(t)
      BY <1>5
    <2>2. t[(i - Len(s)) - 1].ts <= t[i - Len(s)].ts
      BY <2>1 DEF Monotone
    <2>3. (s \o t)[i - 1] = t[(i - 1) - Len(s)] /\ (s \o t)[i] = t[i - Len(s)]
      BY <1>1, <1>5
    <2> QED
      BY <2>2, <2>3
  <1> QED
    BY <1>3, <1>4, <1>5

LEMMA AppendMonotone ==
  ASSUME NEW s \in Seq(Ticks), NEW t \in Ticks, Monotone(s),
         s # <<>> => s[Len(s)].ts <= t.ts
  PROVE  Monotone(Append(s, t))
  BY DEF Monotone

(* The types of one block, and of what a month without a file opens.       *)
LEMMA BlockTypes ==
  ASSUME StreamTypes, NEW f \in [month : Int, read : Nat], Format(f.month) # "none"
  PROVE  Block(f) \in Seq(Ticks)
  <1> DEFINE records == store[f.month].records
             n == IF f.read + BufferSize < Len(records) THEN f.read + BufferSize
                                                        ELSE Len(records)
  <1>1. f.month \in DOMAIN store
    BY DEF Format
  <1>2. records \in Seq(Ticks)
    BY <1>1, StreamAssumption DEF StreamTypes, Ticks
  <1>3. n \in Int /\ \A i \in (f.read + 1)..n : records[i] \in Ticks
    BY <1>2, StreamAssumption
  <1>4. SubSeq(records, f.read + 1, n) \in Seq(Ticks)
    BY <1>3, SubSeqProperties
  <1> QED
    BY <1>4 DEF Block

LEMMA OpenedTypes ==
  ASSUME NEW m \in Int
  PROVE  /\ Opened(m) \in [month : Int, read : Nat]
         /\ Opened(m) = NoFile \/ Format(Opened(m).month) # "none"
  BY DEF Opened, NoFile

LEMMA MonthTypes ==
  ASSUME NEW ts \in Int
  PROVE  Month(ts) \in Int /\ NextMonth(ts) \in Int
  <1>1. ts \div MonthLength \in Int
    BY StreamAssumption
  <1> QED
    BY <1>1, StreamAssumption DEF Month, NextMonth

-----------------------------------------------------------------------------
(* Induction over the lines of a block: the least line where a fact fails. *)

Below == {p \in Nat \X Nat : p[1] < p[2]}

(* A set of numbers that is not empty has a least element.                 *)
LEMMA LeastNumber ==
  ASSUME NEW T, T \subseteq Nat, T # {}
  PROVE  \E x \in T : \A y \in T : x <= y
  <1>1. IsWellFoundedOn(Below, Nat)
    BY NatLessThanWellFounded DEF OpToRel, Below
  <1>2. PICK x \in T : \A y \in T : ~(<<y, x>> \in Below)
    BY <1>1, WFMin
  <1>3. \A y \in T : ~(y < x)
    <2>1. SUFFICES ASSUME NEW y \in T, y < x PROVE FALSE
      OBVIOUS
    <2>2. <<y, x>> \in Nat \X Nat
      BY <1>2
    <2>3. <<y, x>>[1] < <<y, x>>[2]
      BY <2>1
    <2> QED
      BY <1>2, <2>2, <2>3 DEF Below
  <1> QED
    BY <1>3

(* What kept has to be, up to a line of the block.                         *)
KeptUpTo(block, m, k) ==
  k = [n \in 0..m |->
         IF n = 0 THEN <<>>
         ELSE IF block[n] = Malformed THEN k[n - 1]
         ELSE Append(k[n - 1], block[n])]

LEMMA KeptTypes ==
  ASSUME NEW block \in Seq(Ticks), NEW m \in 0..Len(block), NEW k, KeptUpTo(block, m, k)
  PROVE  \A n \in 0..m : k[n] \in Seq(Ticks)
  <1> DEFINE T == {n \in 0..m : k[n] \notin Seq(Ticks)}
  <1>1. SUFFICES ASSUME T # {} PROVE FALSE
    OBVIOUS
  <1>2. T \subseteq Nat
    OBVIOUS
  <1>3. PICK n \in T : \A y \in T : n <= y
    BY <1>1, <1>2, LeastNumber
  <1>4. n \in 0..m /\ k[n] \notin Seq(Ticks) /\ Len(block) \in Nat
    BY <1>3
  <1>5. k[n] = IF n = 0 THEN <<>>
               ELSE IF block[n] = Malformed THEN k[n - 1]
               ELSE Append(k[n - 1], block[n])
    BY <1>4 DEF KeptUpTo
  <1>6. n # 0
    BY <1>4, <1>5
  <1>7. n - 1 \in 0..m /\ ~(n <= n - 1)
    BY <1>4, <1>6
  <1>8. k[n - 1] \in Seq(Ticks)
    BY <1>3, <1>7
  <1>9. block[n] \in Ticks
    BY <1>4, <1>6
  <1> QED
    BY <1>4, <1>5, <1>6, <1>8, <1>9

LEMMA KeptExists ==
  ASSUME NEW block \in Seq(Ticks)
  PROVE  \E k : KeptUpTo(block, Len(block), k)
  <1> DEFINE T == {m \in 0..Len(block) : ~\E k : KeptUpTo(block, m, k)}
  <1>1. Len(block) \in Nat
    OBVIOUS
  <1>2. SUFFICES ASSUME T # {} PROVE FALSE
    BY <1>1
  <1>3. PICK m \in T : \A y \in T : m <= y
    <2>1. T \subseteq Nat
      BY <1>1
    <2> HIDE DEF T
    <2> QED
      BY <1>2, <2>1, LeastNumber
  <1>4. m \in 0..Len(block) /\ ~\E k : KeptUpTo(block, m, k)
    BY <1>3
  <1>5. m # 0
    <2>1. SUFFICES ASSUME m = 0 PROVE FALSE
      OBVIOUS
    <2>2. KeptUpTo(block, 0, [n \in 0..0 |-> <<>>])
      BY DEF KeptUpTo
    <2> QED
      BY <1>4, <2>1, <2>2
  <1>6. m - 1 \in 0..Len(block) /\ ~(m <= m - 1)
    BY <1>1, <1>4, <1>5
  <1>7. PICK k : KeptUpTo(block, m - 1, k)
    BY <1>3, <1>6
  <1> DEFINE next(f, n) == IF n = 0 THEN <<>>
                           ELSE IF block[n] = Malformed THEN f[n - 1]
                           ELSE Append(f[n - 1], block[n])
             g == [n \in 0..m |-> IF n = m THEN next(k, n) ELSE k[n]]
  <1>8. k = [n \in 0..(m - 1) |-> next(k, n)]
    BY <1>7 DEF KeptUpTo
  <1>9. \A n \in 0..m : n # 0 => g[n - 1] = k[n - 1]
    BY <1>4
  <1>10. \A n \in 0..m : g[n] = next(g, n)
    <2>1. SUFFICES ASSUME NEW n \in 0..m PROVE g[n] = next(g, n)
      OBVIOUS
    <2>2. next(g, n) = next(k, n)
      BY <1>9
    <2>3. n # m => n \in 0..(m - 1)
      BY <1>4
    <2>4. n # m => k[n] = next(k, n)
      BY <1>8, <2>3
    <2> QED
      BY <2>2, <2>4
  <1>11. g = [n \in 0..m |-> next(g, n)]
    BY <1>10
  <1>12. KeptUpTo(block, m, g)
    BY <1>11 DEF KeptUpTo
  <1> QED
    BY <1>4, <1>12

LEMMA ReadableTypes ==
  ASSUME NEW block \in Seq(Ticks)
  PROVE  Readable(block) \in Seq(Ticks)
  <1> DEFINE kept == CHOOSE k : KeptUpTo(block, Len(block), k)
  <1>1. KeptUpTo(block, Len(block), kept)
    BY KeptExists
  <1>2. Readable(block) = kept[Len(block)]
    BY DEF Readable, KeptUpTo
  <1>3. Len(block) \in 0..Len(block)
    OBVIOUS
  <1> HIDE DEF kept
  <1> QED
    BY <1>1, <1>2, <1>3, KeptTypes

-----------------------------------------------------------------------------
(* bufferize(): a new block follows what the previous one ended with.      *)
LEMMA BlockInOrder ==
  ASSUME NEW block \in Seq(Ticks), NEW n \in 0..Len(block), InOrder(block, n),
         lastTs \in Nat
  PROVE  /\ SubSeq(block, 1, n) \in Seq(Ticks)
         /\ Len(SubSeq(block, 1, n)) = n
         /\ Monotone(SubSeq(block, 1, n))
         /\ n > 0 => /\ SubSeq(block, 1, n)[1].ts >= lastTs
                     /\ SubSeq(block, 1, n)[n] = block[n]
  <1> DEFINE s == SubSeq(block, 1, n)
  <1>1. \A i \in 1..n : block[i] \in Ticks
    OBVIOUS
  <1>2. s \in Seq(Ticks) /\ Len(s) = n /\ \A i \in 1..n : s[i] = block[i]
    BY <1>1, SubSeqProperties, SMT
  <1>3. \A i \in 2..n : block[i - 1].ts <= block[i].ts
    <2> SUFFICES ASSUME NEW i \in 2..n PROVE block[i - 1].ts <= block[i].ts
      OBVIOUS
    <2>1. block[i].ts >= block[i - 1].ts
      BY DEF InOrder
    <2>2. block[i].ts \in Nat /\ block[i - 1].ts \in Nat
      BY <1>1 DEF Ticks
    <2> QED
      BY <2>1, <2>2
  <1>4. Monotone(s)
    BY <1>2, <1>3 DEF Monotone
  <1>5. n > 0 => block[1].ts >= lastTs
    BY DEF InOrder
  <1> HIDE DEF s
  <1>6. n > 0 => s[1].ts >= lastTs /\ s[n] = block[n]
    BY <1>2, <1>5
  <1> QED
    BY <1>2, <1>4, <1>6 DEF s

LEMMA EndOfFileTypes ==
  ASSUME StreamTypes, EndOfFile, store' = store
  PROVE  /\ cur' \in Int /\ file' \in [month : Int, read : Nat]
         /\ file' = NoFile \/ Format(file.month)' # "none"
  <1>1. cur' \in Int /\ Month(cur') \in Int
    BY MonthTypes DEF EndOfFile, StreamTypes
  <1>2. Format(file.month)' = Format(file'.month)
    BY DEF Format
  <1>3. CASE file' = Opened(Month(cur'))
    BY <1>1, <1>2, <1>3, OpenedTypes
  <1>4. CASE file' = NoFile
    BY <1>1, <1>4 DEF NoFile
  <1> QED
    BY <1>3, <1>4 DEF EndOfFile

LEMMA ContinueTypes ==
  ASSUME StreamTypes, NEW f \in [month : Int, read : Nat], Format(f.month) # "none",
         Continue(f), store' = store
  PROVE  /\ cur' \in Int /\ file' \in [month : Int, read : Nat]
         /\ Format(file.month)' # "none"
  <1>1. Len(Block(f)) \in Nat
    BY BlockTypes
  <1>2. file' = [month |-> f.month, read |-> f.read + Len(Block(f))]
    BY DEF Continue
  <1>3. Format(file.month)' = Format(f.month)
    BY <1>2 DEF Format
  <1> QED
    BY <1>1, <1>2, <1>3 DEF Continue, StreamTypes

(* What came before a time came before any later one.                      *)
LEMMA GivenLater ==
  ASSUME NEW x \in Int, NEW y \in Int, x <= y, GivenBy(x),
         out # <<>> => out[Len(out)].ts \in Nat,
         delivered # <<>> => delivered[Len(delivered)].ts \in Nat
  PROVE  GivenBy(y)
  <1> DEFINE o == out[Len(out)].ts
             d == delivered[Len(delivered)].ts
  <1>1. CASE loop = "fill" /\ out # <<>>
    <2>1. o <= x /\ o \in Nat
      BY <1>1 DEF GivenBy
    <2> HIDE DEF o
    <2>2. o <= y
      BY <2>1
    <2> QED
      BY <1>1, <2>2 DEF GivenBy, o
  <1>2. CASE ~(loop = "fill" /\ out # <<>>)
    <2>1. delivered # <<>> => d <= x /\ d \in Nat
      BY <1>2 DEF GivenBy
    <2> HIDE DEF d
    <2>2. delivered # <<>> => d <= y
      BY <2>1
    <2> QED
      BY <1>2, <2>2 DEF GivenBy, d
  <1> QED
    BY <1>1, <1>2

(* The iteration that ends the stream hands over at most one tick.         *)
LEMMA LooksAtOne ==
  ASSUME LookAtFirst
  PROVE  \/ ofs' \in {0, 1} /\ out' = out
         \/ ofs' = 1 /\ out' = Append(out, buffer'[1]) /\ FromTs <= buffer'[1].ts
  BY DEF LookAtFirst

(* That tick comes after those given, and before the rest of the buffer.   *)
LEMMA LookAtFirstInTime ==
  ASSUME InTime, loop = "fill", LookAtFirst, UNCHANGED <<delivered, loop>>,
         buffer' \in Seq(Ticks), buffer' # <<>>, Monotone(buffer'),
         lastTs' \in Nat, buffer'[Len(buffer')].ts = lastTs', GivenBy(buffer'[1].ts)
  PROVE  InTime'
  <1> DEFINE first == buffer'[1]
             next == IF ofs' < Len(buffer') THEN buffer'[ofs' + 1].ts ELSE lastTs'
  <1>1. /\ Len(buffer') \in Nat /\ Len(buffer') > 0 /\ first \in Ticks
        /\ first.ts \in Nat /\ ofs' \in {0, 1}
    <2>1. Len(buffer') \in Nat /\ Len(buffer') > 0
      BY EndsOfSequence
    <2>2. first \in Ticks
      BY <2>1
    <2> HIDE DEF first
    <2>3. first.ts \in Nat
      BY <2>2 DEF Ticks
    <2> QED
      BY <2>1, <2>2, <2>3, LooksAtOne
  <1>2. first.ts <= next /\ next \in Nat
    <2>1. CASE ofs' = 0
      BY <1>1, <2>1
    <2>2. CASE ofs' = 1 /\ Len(buffer') = 1
      BY <1>1, <2>2
    <2>3. CASE ofs' = 1 /\ 1 < Len(buffer')
      <3>1. 2 \in 2..Len(buffer') /\ buffer'[2] \in Ticks
        BY <1>1, <2>3
      <3>2. buffer'[2 - 1].ts <= buffer'[2].ts
        BY <3>1 DEF Monotone
      <3> QED
        BY <2>3, <3>1, <3>2 DEF Ticks
    <2> QED
      BY <1>1, <2>1, <2>2, <2>3
  <1> HIDE DEF next
  <1>3. /\ out \in Seq(Ticks) /\ delivered \in Seq(Ticks) /\ Monotone(out)
        /\ out # <<>> => out[Len(out)].ts <= first.ts /\ out[Len(out)].ts \in Nat
        /\ out = <<>> /\ delivered # <<>> => delivered[Len(delivered)].ts <= first.ts
        /\ delivered # <<>> => delivered[Len(delivered)].ts \in Nat
    BY EndsOfSequence DEF InTime, GivenBy
  <1> HIDE DEF first
  <1>4. /\ out' \in Seq(Ticks) /\ Monotone(out')
        /\ out' # <<>> => out'[Len(out')].ts <= next
        /\ out' # <<>> /\ delivered # <<>> => delivered[Len(delivered)].ts <= out'[1].ts
        /\ out' = <<>> /\ delivered # <<>> => delivered[Len(delivered)].ts <= next
    <2>1. CASE out' = out
      BY <1>1, <1>2, <1>3, <2>1 DEF InTime
    <2>2. CASE out' = Append(out, first)
      <3>1. /\ out' \in Seq(Ticks) /\ out' # <<>> /\ out'[Len(out')] = first
            /\ out = <<>> => out'[1] = first
            /\ out # <<>> => out'[1] = out[1]
        <4> DEFINE longer == Append(out, first)
        <4>1. /\ longer \in Seq(Ticks) /\ longer # <<>> /\ Len(longer) = Len(out) + 1
              /\ longer[Len(out) + 1] = first
              /\ \A i \in 1..Len(out) : longer[i] = out[i]
          BY <1>1, <1>3, AppendProperties
        <4>2. out = <<>> => Len(out) = 0
          OBVIOUS
        <4>3. out # <<>> => 1 \in 1..Len(out)
          BY <1>3
        <4> HIDE DEF longer
        <4> QED
          BY <2>2, <4>1, <4>2, <4>3 DEF longer
      <3>2. Monotone(out')
        BY <1>1, <1>3, <2>2, AppendMonotone
      <3> QED
        BY <1>2, <1>3, <3>1, <3>2 DEF InTime
    <2> QED
      BY <2>1, <2>2, LooksAtOne DEF first
  <1>5. Monotone(delivered) /\ delivered' = delivered /\ loop' = "fill"
    BY DEF InTime
  <1>6. IF out' # <<>> THEN out'[Len(out')].ts <= next
                       ELSE delivered' # <<>> => delivered'[Len(delivered')].ts <= next
    BY <1>4, <1>5
  <1>7. IF ofs' < Len(buffer') THEN GivenBy(buffer[ofs + 1].ts)' ELSE GivenBy(lastTs)'
    BY <1>5, <1>6 DEF GivenBy, next
  <1> QED
    BY <1>3, <1>4, <1>5, <1>7 DEF InTime, Monotone

(* One call of bufferize(), when the buffer is used up.                    *)
LEMMA BufferizeStep ==
  ASSUME TimeInv, ofs >= Len(buffer), Bufferize, loop = "fill",
         IF finished' /\ buffer' # <<>> THEN LookAtFirst ELSE ofs' = 0 /\ out' = out,
         UNCHANGED <<store, asked, delivered, loop, curTs, timestep>>
  PROVE  TimeInv'
  <1> USE DEF TimeInv
  <1>o. ofs' \in Nat /\ (~(finished' /\ buffer' # <<>>) => ofs' = 0 /\ out' = out)
    BY LooksAtOne
  <1>t. /\ lastTs \in Nat /\ cur \in Int /\ file \in [month : Int, read : Nat]
    BY DEF StreamTypes
  <1>g. NoText => /\ buffer \in Seq(Ticks) /\ out \in Seq(Ticks) /\ delivered \in Seq(Ticks)
                  /\ GivenBy(lastTs)
    <2> SUFFICES ASSUME NoText PROVE GivenBy(lastTs) /\ buffer \in Seq(Ticks)
                     /\ out \in Seq(Ticks) /\ delivered \in Seq(Ticks)
      OBVIOUS
    <2>1. ofs \in Nat /\ buffer \in Seq(Ticks) /\ Len(buffer) \in Nat
      BY DEF InTime, StreamTypes
    <2>2. ~(ofs < Len(buffer))
      BY <2>1
    <2> QED
      BY <2>2 DEF InTime
  <1>1. PICK f \in [month : Int, read : Nat] :
          f = IF file = NoFile THEN Opened(Month(cur)) ELSE file
    BY <1>t, OpenedTypes, MonthTypes
  <1>2. f = NoFile \/ Format(f.month) # "none"
    BY <1>1, <1>t, OpenedTypes, MonthTypes DEF StreamTypes
  <1>3. CASE f = NoFile
    <2>1. buffer' = <<>> /\ EndOfFile /\ UNCHANGED lastTs
      BY <1>1, <1>3 DEF Bufferize
    <2>2. StreamTypes'
      BY <1>o, <2>1, EndOfFileTypes DEF StreamTypes
    <2>3. NoText' => InTime'
      <3> SUFFICES ASSUME NoText PROVE InTime'
        BY DEF NoText
      <3>1. /\ buffer' = <<>> /\ Len(buffer') = 0 /\ Monotone(buffer')
            /\ ofs' = 0 /\ out' = out
        BY <1>o, <2>1 DEF Monotone
      <3>2. GivenBy(lastTs)'
        BY <1>g, <2>1, <3>1 DEF GivenBy
      <3>3. buffer' \in Seq(Ticks) /\ ~(ofs' < Len(buffer'))
        BY <3>1
      <3> QED
        BY <3>1, <3>2, <3>3 DEF InTime, Monotone
    <2> QED
      BY <2>2, <2>3
  <1>4. CASE f # NoFile /\ Format(f.month) # "binary"
    <2>1. ReadFile(f)
      BY <1>1, <1>4 DEF Bufferize
    <2>2. /\ buffer' = Readable(Block(f))
          /\ Continue(f) /\ UNCHANGED lastTs
      BY <2>1, <1>4 DEF ReadFile
    <2>5. StreamTypes'
      BY <1>o, <1>2, <1>4, <2>2, ContinueTypes DEF StreamTypes
    <2>6. ~NoText'
      <3>1. f.month \in DOMAIN store /\ store[f.month].format = Format(f.month)
        BY <1>2, <1>4 DEF Format
      <3>2. store[f.month].format = "text"
        BY <3>1, <1>2, <1>4, StreamAssumption DEF StreamTypes
      <3> QED
        BY <3>1, <3>2 DEF NoText
    <2> QED
      BY <2>5, <2>6
  <1>5. CASE f # NoFile /\ Format(f.month) = "binary"
    <2>1. ReadFile(f)
      BY <1>1, <1>5 DEF Bufferize
    <2>2. Block(f) \in Seq(Ticks)
      BY <1>5, BlockTypes
    <2>3. PICK n \in 0..Len(Block(f)) :
            /\ Sound(Block(f), n)
            /\ buffer' = SubSeq(Block(f), 1, n)
            /\ lastTs' = IF n = 0 THEN lastTs ELSE Block(f)[n].ts
            /\ IF 0 < n /\ n = Len(Block(f)) THEN Continue(f) ELSE EndOfFile
      BY <2>1, <1>5 DEF ReadFile
    <2> DEFINE block == Block(f)
    <2>4. /\ buffer' \in Seq(Ticks) /\ Len(buffer') = n /\ Monotone(buffer')
          /\ n > 0 => buffer'[1].ts >= lastTs /\ buffer'[n] = block[n]
      BY <2>2, <2>3, <1>t, BlockInOrder DEF Sound
    <2> HIDE DEF block
    <2>5. n > 0 => block[n] \in Ticks
      BY <2>2 DEF block
    <2>6. lastTs' \in Nat /\ (n > 0 => lastTs' = buffer'[n].ts) /\ (n = 0 => lastTs' = lastTs)
      BY <2>3, <2>4, <2>5, <1>t DEF block, Ticks
    <2>7. /\ cur' \in Int /\ file' \in [month : Int, read : Nat]
          /\ file' = NoFile \/ Format(file.month)' # "none"
      BY <2>3, <1>5, ContinueTypes, EndOfFileTypes
    <2>8. StreamTypes'
      BY <1>o, <2>4, <2>6, <2>7 DEF StreamTypes
    <2>9. NoText' => InTime'
      <3> SUFFICES ASSUME NoText PROVE InTime'
        BY DEF NoText
      <3>1. GivenBy(lastTs) /\ out \in Seq(Ticks) /\ delivered \in Seq(Ticks)
        BY <1>g
      <3>2. n > 0 => buffer' # <<>>
        BY <2>4
      <3>3. n > 0 => buffer'[1].ts \in Nat
        BY <3>2, <2>4, EndsOfSequence
      <3>4. /\ out # <<>> => out[Len(out)].ts \in Nat
            /\ delivered # <<>> => delivered[Len(delivered)].ts \in Nat
        BY <3>1, EndsOfSequence
      <3>5. n > 0 => GivenBy(buffer'[1].ts)
        <4>1. SUFFICES ASSUME n > 0 PROVE GivenBy(buffer'[1].ts)
          OBVIOUS
        <4> DEFINE x == buffer'[1].ts
        <4>2. lastTs <= x /\ x \in Int /\ lastTs \in Int
          BY <2>4, <3>3, <4>1, <1>t
        <4> HIDE DEF x
        <4>3. GivenBy(x)
          BY <3>1, <3>4, <4>2, GivenLater, Zenon
        <4> QED
          BY <4>3 DEF x
      <3>6. buffer' # <<>> => buffer'[Len(buffer')].ts = lastTs'
        BY <2>4, <2>6
      <3>7. CASE finished' /\ buffer' # <<>>
        <4>1. LookAtFirst /\ InTime /\ n > 0
          BY <2>4, <3>7
        <4> QED
          BY <2>4, <2>6, <3>5, <3>6, <3>7, <4>1, LookAtFirstInTime
      <3>8. CASE ~(finished' /\ buffer' # <<>>)
        <4>1. ofs' = 0 /\ out' = out /\ delivered' = delivered /\ loop' = loop
          BY <1>o, <3>8
        <4>2. n > 0 => GivenBy(buffer[ofs + 1].ts)'
          BY <3>5, <4>1 DEF GivenBy
        <4>3. n = 0 => GivenBy(lastTs)'
          BY <3>1, <2>6, <4>1 DEF GivenBy
        <4>4. IF ofs' < Len(buffer') THEN GivenBy(buffer[ofs + 1].ts)' ELSE GivenBy(lastTs)'
          BY <2>4, <4>1, <4>2, <4>3
        <4> QED
          BY <3>1, <3>6, <2>4, <4>1, <4>4 DEF InTime, Monotone
      <3> QED
        BY <3>7, <3>8
    <2> QED
      BY <2>8, <2>9
  <1> QED
    BY <1>2, <1>3, <1>4, <1>5

-----------------------------------------------------------------------------
(* The other branches of fillNext(), and the loop around it.               *)

(* Past a tick of the buffer, what was given is before what is left.       *)
LEMMA PastHead ==
  ASSUME TimeInv, NoText, ofs < Len(buffer)
  PROVE  /\ Upcoming \in Ticks /\ Upcoming.ts \in Nat /\ GivenBy(Upcoming.ts)
         /\ ofs + 1 < Len(buffer) => /\ buffer[ofs + 2].ts \in Nat
                                     /\ Upcoming.ts <= buffer[ofs + 2].ts
         /\ ~(ofs + 1 < Len(buffer)) => Upcoming.ts = lastTs
  <1>1. buffer \in Seq(Ticks) /\ ofs \in Nat /\ Len(buffer) \in Nat
    BY DEF TimeInv, InTime, StreamTypes
  <1>2. Upcoming \in Ticks /\ GivenBy(Upcoming.ts)
    BY <1>1 DEF TimeInv, InTime, Upcoming
  <1>3. ASSUME ofs + 1 < Len(buffer)
        PROVE  buffer[ofs + 2].ts \in Nat /\ Upcoming.ts <= buffer[ofs + 2].ts
    <2>1. ofs + 2 \in 2..Len(buffer) /\ (ofs + 2) - 1 = ofs + 1
      BY <1>1, <1>3
    <2>2. buffer[(ofs + 2) - 1].ts <= buffer[ofs + 2].ts
      BY <2>1 DEF TimeInv, InTime, Monotone
    <2>3. buffer[ofs + 2] \in Ticks
      BY <1>1, <2>1
    <2> QED
      BY <2>1, <2>2, <2>3 DEF Upcoming, Ticks
  <1>4. ASSUME ~(ofs + 1 < Len(buffer)) PROVE Upcoming.ts = lastTs
    <2>1. Len(buffer) = ofs + 1 /\ buffer # <<>>
      BY <1>1, <1>4
    <2> QED
      BY <2>1 DEF TimeInv, InTime, Upcoming
  <1> QED
    BY <1>2, <1>3, <1>4 DEF Ticks

LEMMA SkipStep ==
  ASSUME TimeInv, ofs < Len(buffer), ofs' = ofs + 1,
         UNCHANGED <<diskVars, buffer, asked, out, delivered, loop, curTs, timestep>>
  PROVE  TimeInv'
  <1>1. StreamTypes'
    BY DEF TimeInv, StreamTypes, diskVars, Format
  <1>2. ASSUME NoText' PROVE InTime'
    <2>1. NoText
      BY <1>2 DEF NoText, diskVars
    <2>2. InTime
      BY <2>1 DEF TimeInv
    <2>3. lastTs \in Nat /\ ofs \in Nat
      BY DEF TimeInv, StreamTypes
    <2>4. /\ out # <<>> => out[Len(out)].ts \in Nat
          /\ delivered # <<>> => delivered[Len(delivered)].ts \in Nat
      BY <2>2, EndsOfSequence DEF InTime
    <2>5. ASSUME NEW x \in Nat, Upcoming.ts <= x PROVE GivenBy(x)
      BY <2>1, <2>4, <2>5, PastHead DEF GivenBy
    <2>6. IF ofs' < Len(buffer) THEN GivenBy(buffer[ofs' + 1].ts) ELSE GivenBy(lastTs)
      <3>1. CASE ofs + 1 < Len(buffer)
        <4>1. GivenBy(buffer[ofs + 2].ts)
          BY <2>1, <2>5, <3>1, PastHead
        <4>2. ofs' + 1 = ofs + 2
          BY <2>3
        <4> QED
          BY <3>1, <4>1, <4>2
      <3>2. CASE ~(ofs + 1 < Len(buffer))
        BY <2>1, <2>3, <2>5, <3>2, PastHead
      <3> QED
        BY <3>1, <3>2
    <2>7. \A x : GivenBy(x)' = GivenBy(x')
      BY DEF GivenBy, diskVars
    <2> QED
      BY <2>2, <2>6 DEF InTime, GivenBy, Monotone, diskVars
  <1> QED
    BY <1>1, <1>2 DEF TimeInv

LEMMA TakeStep ==
  ASSUME TimeInv, loop = "fill", ofs < Len(buffer), ofs' = ofs + 1,
         out' = Append(out, Upcoming),
         UNCHANGED <<diskVars, buffer, asked, delivered, loop, curTs, timestep>>
  PROVE  TimeInv'
  <1>1. StreamTypes'
    BY DEF TimeInv, StreamTypes, diskVars, Format
  <1>2. ASSUME NoText' PROVE InTime'
    <2>1. NoText
      BY <1>2 DEF NoText, diskVars
    <2>2. InTime
      BY <2>1 DEF TimeInv
    <2>3. lastTs \in Nat /\ ofs \in Nat
      BY DEF TimeInv, StreamTypes
    <2>4. /\ out \in Seq(Ticks) /\ Monotone(out)
          /\ out # <<>> => out[Len(out)].ts <= Upcoming.ts
      BY <2>1, <2>2, PastHead DEF InTime, GivenBy
    <2>5. /\ out' \in Seq(Ticks) /\ out' # <<>> /\ Monotone(out')
          /\ out'[Len(out')] = Upcoming
      BY <2>1, <2>4, PastHead, AppendMonotone
    <2>6. delivered # <<>> => delivered[Len(delivered)].ts <= out'[1].ts
      <3>1. CASE out = <<>>
        <4>1. out'[1] = Upcoming
          BY <2>4, <3>1, <2>1, PastHead
        <4>2. delivered # <<>> => delivered[Len(delivered)].ts <= Upcoming.ts
          BY <3>1, <2>1, PastHead DEF GivenBy
        <4> QED
          BY <4>1, <4>2
      <3>2. CASE out # <<>>
        <4>1. out'[1] = out[1]
          BY <2>4, <3>2, <2>1, PastHead
        <4> QED
          BY <2>2, <3>2, <4>1 DEF InTime
      <3> QED
        BY <3>1, <3>2
    <2>7. IF ofs' < Len(buffer) THEN Upcoming.ts <= buffer[ofs' + 1].ts
                                ELSE Upcoming.ts <= lastTs
      <3>1. CASE ofs + 1 < Len(buffer)
        <4>1. Upcoming.ts <= buffer[ofs + 2].ts
          BY <2>1, <3>1, PastHead
        <4>2. ofs' + 1 = ofs + 2
          BY <2>3
        <4> QED
          BY <3>1, <4>1, <4>2
      <3>2. CASE ~(ofs + 1 < Len(buffer))
        BY <2>1, <2>3, <3>2, PastHead
      <3> QED
        BY <3>1, <3>2
    <2> QED
      BY <2>2, <2>5, <2>6, <2>7 DEF InTime, GivenBy, Monotone, diskVars
  <1> QED
    BY <1>1, <1>2 DEF TimeInv

LEMMA EndFillStep ==
  ASSUME TimeInv, EndFill PROVE TimeInv'
  <1>1. StreamTypes'
    BY FeedAssumption
    DEF TimeInv, StreamTypes, EndFill, Returned, diskVars, config, NoCall, Format
  <1>2. ASSUME NoText' PROVE InTime'
    <2>1. NoText
      BY <1>2 DEF NoText, EndFill, Returned, diskVars
    <2>2. InTime /\ loop = "fill" /\ loop' # "fill"
      BY <2>1 DEF TimeInv, EndFill
    <2>3. /\ out \in Seq(Ticks) /\ delivered \in Seq(Ticks) /\ delivered' = delivered \o out
          /\ UNCHANGED <<buffer, out, ofs, lastTs>>
      BY <2>2 DEF InTime, EndFill, Returned, diskVars
    <2>4. delivered' \in Seq(Ticks) /\ Monotone(delivered')
      BY <2>2, <2>3, ConcatMonotone, ConcatProperties DEF InTime
    <2>5. /\ out = <<>> => delivered' = delivered
          /\ out # <<>> => /\ delivered' # <<>>
                           /\ delivered'[Len(delivered')] = out[Len(out)]
      BY <2>3, ConcatProperties, ConcatEmptySeq
    <2>6. \A x : GivenBy(x) => (delivered' # <<>> => delivered'[Len(delivered')].ts <= x)
      BY <2>2, <2>5 DEF GivenBy
    <2>7. /\ ofs < Len(buffer) =>
               (delivered' # <<>> => delivered'[Len(delivered')].ts <= buffer[ofs + 1].ts)
          /\ ~(ofs < Len(buffer)) =>
               (delivered' # <<>> => delivered'[Len(delivered')].ts <= lastTs)
      BY <2>2, <2>6 DEF InTime
    <2> QED
      BY <2>2, <2>3, <2>4, <2>7 DEF InTime, GivenBy, Monotone
  <1> QED
    BY <1>1, <1>2 DEF TimeInv

(* A step that only moves the loop, or starts a call.                      *)
LEMMA QuietStep ==
  ASSUME TimeInv,
         UNCHANGED <<store, cur, lastTs, buffer, ofs, delivered, timestep>>,
         asked' \in Int, curTs' \in Int,
         file' \in {file, NoFile},
         \/ loop' = loop /\ out' = out
         \/ loop # "fill" /\ loop' # "fill" /\ out' = out
         \/ loop # "fill" /\ out' = <<>>
  PROVE  TimeInv'
  <1>1. StreamTypes'
    BY DEF TimeInv, StreamTypes, NoFile, Format
  <1>2. ASSUME NoText' PROVE InTime'
    <2>1. InTime
      BY <1>2 DEF NoText, TimeInv
    <2>2. out' \in Seq(Ticks)
      <3>1. CASE out' = out
        BY <2>1, <3>1 DEF InTime
      <3>2. CASE out' = <<>>
        BY <3>2
      <3> QED
        BY <3>1, <3>2
    <2>3. loop' = "fill" => Monotone(out') /\ (out' # <<>> => out' = out /\ loop = "fill")
      BY <2>1 DEF InTime, Monotone
    <2> QED
      BY <2>1, <2>2, <2>3 DEF InTime, GivenBy, Monotone
  <1> QED
    BY <1>1, <1>2 DEF TimeInv

LEMMA TimeInit == ASSUME Init PROVE TimeInv
  <1>1. StreamTypes
    BY StreamAssumption DEF Init, StreamInit, StreamTypes, NoFile, NoCall
  <1>2. InTime
    BY DEF Init, StreamInit, InTime, GivenBy, Monotone
  <1> QED
    BY <1>1, <1>2 DEF TimeInv

LEMMA TimeStep == ASSUME TimeInv, [Next]_vars PROVE TimeInv'
  <1>t. asked \in Int /\ curTs \in Int /\ timestep \in Nat
    BY FeedAssumption DEF TimeInv, StreamTypes
  <1>1. CASE Fill
    BY <1>1, <1>t, QuietStep DEF Fill, FillNext, diskVars, config
  <1>2. CASE KeepFilling
    <2>1. loop = "fill" /\ UNCHANGED <<timestep, loop, curTs, delivered>>
      BY <1>2 DEF KeepFilling, config
    <2>2. CASE Refill
      <3>1. CASE cur < ToTs
        BY <2>1, <2>2, <3>1, BufferizeStep DEF Refill
      <3>2. CASE ~(cur < ToTs)
        <4>1. /\ ofs >= Len(buffer) /\ ofs' = 0 /\ buffer' = <<>>
              /\ UNCHANGED <<store, cur, file, lastTs, asked, out>>
          BY <2>2, <3>2 DEF Refill
        <4>2. StreamTypes'
          BY <2>1, <4>1 DEF TimeInv, StreamTypes, Format
        <4>3. ASSUME NoText' PROVE InTime'
          <5>1. NoText /\ InTime
            BY <4>1, <4>3 DEF NoText, TimeInv
          <5>2. GivenBy(lastTs)
            <6>1. ofs \in Nat /\ Len(buffer) \in Nat
              BY <5>1 DEF TimeInv, StreamTypes, InTime
            <6> QED
              BY <4>1, <5>1, <6>1 DEF InTime
          <5> QED
            BY <2>1, <4>1, <5>1, <5>2 DEF InTime, GivenBy, Monotone
        <4> QED
          BY <4>2, <4>3 DEF TimeInv
      <3> QED
        BY <3>1, <3>2
    <2>3. CASE Skip
      BY <2>1, <2>3, SkipStep DEF Skip
    <2>4. CASE ReachMax
      BY <2>1, <2>4, <1>t, QuietStep DEF ReachMax
    <2>5. CASE Take
      BY <2>1, <2>5, TakeStep DEF Take
    <2> QED
      BY <1>2, <2>2, <2>3, <2>4, <2>5 DEF KeepFilling, FillStep
  <1>3. CASE EndFill
    BY <1>3, EndFillStep
  <1>4. CASE LoadBar
    BY <1>4, <1>t, QuietStep DEF LoadBar, streamVars, diskVars, config
  <1>5. CASE EndLoad
    BY <1>5, <1>t, QuietStep DEF EndLoad, streamVars, diskVars, config
  <1>6. CASE DropTick \/ ExtendBar \/ OpenBar
    <2>1. Updating
      BY <1>6 DEF DropTick, ExtendBar, OpenBar
    <2> QED
      BY <2>1, <1>t, QuietStep DEF Updating, streamVars, diskVars, config
  <1>7. CASE EndUpdate
    BY <1>7, <1>t, QuietStep DEF EndUpdate, streamVars, diskVars, config
  <1>8. CASE Process
    BY <1>8, <1>t, QuietStep DEF Process, streamVars, diskVars, config
  <1>9. CASE UNCHANGED vars
    BY <1>9, <1>t, QuietStep DEF vars, streamVars, diskVars, config
  <1> QED
    BY <1>1, <1>2, <1>3, <1>4, <1>5, <1>6, <1>7, <1>8, <1>9 DEF Next

(* Whatever binary files the disk holds, broken ones too, the ticks handed *)
(* to the strategy never go back in time (tickstream.cpp:276).             *)
THEOREM TimeIsMonotone == Spec => []TimeNeverGoesBack
  <1>1. Init => TimeInv
    BY TimeInit
  <1>2. TimeInv /\ [Next]_vars => TimeInv'
    BY TimeStep
  <1>3. TimeInv => TimeNeverGoesBack
    BY DEF TimeInv, NoText, InTime, TimeNeverGoesBack
  <1> QED
    BY <1>1, <1>2, <1>3, PTL DEF Spec

-----------------------------------------------------------------------------
(* The arrays and the ring.                                                *)

(* The ring starts at its first cell until it is full, then where it will  *)
(* write next.                                                             *)
RingShape ==
  /\ ring = [cells |-> ring.cells, first |-> ring.first, last |-> ring.last,
             size |-> ring.size]
  /\ ring.cells = [i \in 0..(Depth - 1) |-> ring.cells[i]]
  /\ ring.size \in 0..Depth
  /\ ring.first \in 0..(Depth - 1) /\ ring.last \in 0..(Depth - 1)
  /\ ring.size < Depth => ring.first = 0 /\ ring.last = ring.size
  /\ ring.size = Depth => ring.first = ring.last

(* The current bar is the one written last; before the first tick the ring *)
(* holds only the history.                                                 *)
GenShape ==
  /\ gen = [current |-> gen.current, lastTs |-> gen.lastTs]
  /\ newBars \in Nat /\ numLastBars \in Nat
  /\ newBars > 0 => loop = "update"
  /\ IF gen.current = None
     THEN /\ newBars = 0 /\ numLastBars \in {0, Len(history)}
          /\ IF loop = "load" THEN numLastBars = 0 /\ at \in Nat /\ ring.size <= at
                              ELSE ring.size <= Len(history)
     ELSE /\ loop # "load"
          /\ gen.current \in 0..(Depth - 1) /\ ring.size > 0
          /\ ring.last = After(gen.current)

(* All the bars are in the arrays; all but the last one.                   *)
AllPriced == prices = [i \in DOMAIN Bars(ring) |-> PriceOf(Bars(ring)[i])]
OthersPriced ==
  prices = [i \in DOMAIN Bars(ring) |->
              IF i = ring.size THEN prices[i] ELSE PriceOf(Bars(ring)[i])]

(* What m_numLastBars says of the arrays at each place of the loop.        *)
Priced ==
  /\ loop = "load" => prices = <<>>
  /\ loop \in {"top", "fill", "process"} /\ numLastBars = 0 => AllPriced
  /\ loop = "update" /\ numLastBars + newBars = 0
       => IF gen.current = None THEN AllPriced ELSE OthersPriced
  /\ loop = "process" /\ gen.current # None => numLastBars > 0
  /\ loop = "process" /\ numLastBars = 1 /\ gen.current # None => OthersPriced

PriceInv ==
  /\ history \in Histories
  /\ loop \in {"load", "top", "fill", "update", "process"}
  /\ RingShape /\ GenShape /\ Priced
(* The bars of a ring of that shape.                                       *)
LEMMA BarsOfRing ==
  ASSUME NEW r, r.size \in 0..Depth,
         r.first \in 0..(Depth - 1), r.last \in 0..(Depth - 1),
         r.size < Depth => r.first = 0 /\ r.last = r.size
  PROVE  Bars(r) = [i \in 1..r.size |-> r.cells[Wrapped(r.first + i - 1)]]
  <1>1. Depth \in Nat /\ Depth > 1
    BY FeedAssumption
  <1>2. CASE Full(r)
    BY <1>2 DEF Bars, Full
  <1>3. CASE ~Full(r)
    <2>1. r.size < Depth
      BY <1>1, <1>3 DEF Full
    <2>2. Wrapped(r.last + Depth - r.first) = r.size
      BY <1>1, <2>1 DEF Wrapped
    <2> QED
      BY <1>3, <2>2 DEF Bars
  <1> QED
    BY <1>2, <1>3

LEMMA RingBars ==
  ASSUME RingShape
  PROVE  /\ Bars(ring) = [i \in 1..ring.size |-> ring.cells[Wrapped(ring.first + i - 1)]]
         /\ DOMAIN Bars(ring) = 1..ring.size
         /\ Len(Bars(ring)) = ring.size
         /\ ring.size \in Nat
  <1>1. ring.size \in Nat
    BY FeedAssumption DEF RingShape
  <1>2. Bars(ring) = [i \in 1..ring.size |-> ring.cells[Wrapped(ring.first + i - 1)]]
    BY BarsOfRing DEF RingShape
  <1> QED
    BY <1>1, <1>2

LEMMA BarsNext ==
  ASSUME RingShape'
  PROVE  (Bars(ring))' = [i \in 1..ring'.size |-> ring'.cells[Wrapped(ring'.first + i - 1)]]
  <1>1. /\ ring'.size \in 0..Depth
        /\ ring'.first \in 0..(Depth - 1) /\ ring'.last \in 0..(Depth - 1)
        /\ ring'.size < Depth => ring'.first = 0 /\ ring'.last = ring'.size
    BY DEF RingShape
  <1> QED
    BY <1>1, BarsOfRing

LEMMA AfterIs ==
  ASSUME NEW i \in 0..(Depth - 1)
  PROVE  After(i) = IF i + 1 < Depth THEN i + 1 ELSE i + 1 - Depth
  <1>1. Wrapped(i + 1) = IF i + 1 < Depth THEN i + 1 ELSE (i + 1) - Depth
    BY DEF Wrapped
  <1> QED
    BY <1>1, FeedAssumption DEF After

LEMMA CurrentIsLast ==
  ASSUME RingShape, GenShape, gen.current # None, NEW i \in 1..ring.size
  PROVE  Wrapped(ring.first + i - 1) = gen.current <=> i = ring.size
  <1>1. Depth \in Nat /\ Depth > 1
    BY FeedAssumption
  <1>2. /\ gen.current \in 0..(Depth - 1)
        /\ ring.last = IF gen.current + 1 < Depth THEN gen.current + 1
                                                  ELSE gen.current + 1 - Depth
    <2>1. gen.current \in 0..(Depth - 1) /\ ring.last = After(gen.current)
      BY ZenonT(30) DEF GenShape
    <2> QED
      BY <2>1, AfterIs
  <1>3. CASE ring.size < Depth
    BY <1>1, <1>2, <1>3 DEF RingShape, Wrapped
  <1>4. CASE ring.size = Depth
    <2>1. /\ ring.first = ring.last /\ ring.last \in 0..(Depth - 1) /\ i \in 1..Depth
      BY <1>1, <1>4 DEF RingShape
    <2> QED
      BY <1>1, <1>2, <1>4, <2>1 DEF Wrapped
  <1> QED
    BY <1>1, <1>3, <1>4 DEF RingShape

LEMMA AllMeansOthers == ASSUME AllPriced PROVE OthersPriced
  BY DEF AllPriced, OthersPriced

LEMMA PriceInit == ASSUME Init PROVE PriceInv
  <1>1. Depth \in Nat /\ Depth > 1
    BY FeedAssumption
  <1>2. RingShape
    BY <1>1 DEF Init, EmptyRing, RingShape
  <1>3. GenShape
    BY DEF Init, GenShape, EmptyRing
  <1> QED
    BY <1>2, <1>3 DEF Init, PriceInv, Priced

(* A step of the stream, or of the loop without an effect on the bars.     *)
LEMMA SameBarsStep ==
  ASSUME PriceInv, UNCHANGED <<history, ring, gen, newBars, numLastBars, prices>>,
         \/ loop' = loop /\ (loop = "load" => UNCHANGED at)
         \/ loop \in {"top", "fill"} /\ loop' \in {"top", "fill", "update"}
  PROVE  PriceInv'
  <1>1. RingShape'
    BY DEF PriceInv, RingShape
  <1>2. GenShape'
    BY DEF PriceInv, GenShape
  <1>3. (AllPriced <=> AllPriced') /\ (OthersPriced <=> OthersPriced')
    BY DEF AllPriced, OthersPriced
  <1>4. Priced'
    <2>1. CASE loop' = loop
      BY <1>3, <2>1 DEF PriceInv, Priced
    <2>2. CASE loop \in {"top", "fill"} /\ loop' \in {"top", "fill"}
      BY <1>3, <2>2 DEF PriceInv, Priced
    <2>3. CASE loop \in {"top", "fill"} /\ loop' = "update"
      <3>1. newBars = 0
        BY <2>3 DEF PriceInv, GenShape
      <3>2. numLastBars = 0 => AllPriced
        BY <2>3 DEF PriceInv, Priced
      <3>3. numLastBars + newBars = 0 => numLastBars = 0
        BY <3>1 DEF PriceInv, GenShape
      <3> QED
        BY <1>3, <2>3, <3>2, <3>3, AllMeansOthers DEF Priced
    <2> QED
      BY <2>1, <2>2, <2>3
  <1> QED
    BY <1>1, <1>2, <1>4 DEF PriceInv

(* A bar written into the ring, the other cells being those of c.          *)
LEMMA WriteShape ==
  ASSUME RingShape, NEW c, NEW r, NEW bar,
         r = [ring EXCEPT !.cells = c], ring' = WriteElt(r, bar),
         c = [i \in 0..(Depth - 1) |-> c[i]]
  PROVE  /\ RingShape'
         /\ ring'.last = After(ring.last)
         /\ ring'.size \in Nat /\ ring'.size > 0 /\ ring'.size <= ring.size + 1
  <1>1. Depth \in Nat /\ Depth > 1
    BY FeedAssumption
  <1> DEFINE cells == [c EXCEPT ![ring.last] = bar]
             first == IF ring.size = Depth THEN After(ring.last) ELSE ring.first
             size == IF ring.size = Depth THEN ring.size ELSE ring.size + 1
  <1>2. ring' = [cells |-> cells, first |-> first, last |-> After(ring.last),
                 size |-> size]
    <2>1. /\ r.cells = c /\ r.first = ring.first /\ r.last = ring.last
          /\ r.size = ring.size
      BY DEF RingShape
    <2> QED
      BY <2>1 DEF WriteElt, Full
  <1>3. cells = [i \in 0..(Depth - 1) |-> cells[i]]
    OBVIOUS
  <1> HIDE DEF cells
  <1>4. /\ ring'.cells = cells /\ ring'.first = first
        /\ ring'.last = After(ring.last) /\ ring'.size = size
    BY <1>2
  <1>5. After(ring.last) = IF ring.last + 1 < Depth THEN ring.last + 1
                                                    ELSE ring.last + 1 - Depth
    BY AfterIs DEF RingShape
  <1>6. /\ size \in 0..Depth /\ size > 0 /\ size <= ring.size + 1
        /\ first \in 0..(Depth - 1) /\ After(ring.last) \in 0..(Depth - 1)
        /\ size < Depth => first = 0 /\ After(ring.last) = size
        /\ size = Depth => first = After(ring.last)
    <2>1. /\ ring.size \in 0..Depth
          /\ ring.first \in 0..(Depth - 1) /\ ring.last \in 0..(Depth - 1)
          /\ ring.size < Depth => ring.first = 0 /\ ring.last = ring.size
          /\ ring.size = Depth => ring.first = ring.last
      BY DEF RingShape
    <2> QED
      BY <1>1, <1>5, <2>1
  <1> HIDE DEF first, size
  <1>7. RingShape'
    BY <1>2, <1>3, <1>4, <1>6 DEF RingShape
  <1> QED
    BY <1>1, <1>4, <1>6, <1>7

LEMMA LoadBarPrice == ASSUME PriceInv, LoadBar PROVE PriceInv'
  <1>1. RingShape' /\ ring'.size <= ring.size + 1 /\ ring'.size \in Nat
    <2>1. RingShape /\ ring' = WriteElt(ring, history[at + 1])
      BY DEF PriceInv, LoadBar
    <2>2. ring = [ring EXCEPT !.cells = ring.cells]
      BY <2>1 DEF RingShape
    <2>3. ring.cells = [i \in 0..(Depth - 1) |-> ring.cells[i]]
      BY <2>1 DEF RingShape
    <2> QED
      BY <2>1, <2>2, <2>3, WriteShape
  <1>2. /\ loop = "load" /\ loop' = "load" /\ at' = at + 1
        /\ UNCHANGED <<history, gen, newBars, numLastBars, prices>>
    BY DEF LoadBar, config, priceVars
  <1>3. gen.current = None /\ at \in Nat /\ ring.size <= at /\ ring.size \in Nat
    BY <1>2, FeedAssumption DEF PriceInv, GenShape, RingShape
  <1>4. GenShape'
    BY <1>1, <1>2, <1>3 DEF PriceInv, GenShape
  <1> QED
    BY <1>1, <1>2, <1>4 DEF PriceInv, Priced

LEMMA EndLoadPrice == ASSUME PriceInv, EndLoad PROVE PriceInv'
  <1>1. /\ loop = "load" /\ loop' = "top" /\ at = Len(history)
        /\ numLastBars' = Len(history)
        /\ UNCHANGED <<history, gen, newBars, ring, prices>>
    BY DEF EndLoad, config, priceVars
  <1>2. /\ gen.current = None /\ ring.size <= at /\ ring.size \in Nat
        /\ Len(history) \in Nat /\ prices = <<>>
    BY <1>1, FeedAssumption, HistoryAssumption DEF PriceInv, GenShape, RingShape, Priced
  <1>3. RingShape'
    BY <1>1 DEF PriceInv, RingShape
  <1>4. GenShape'
    BY <1>1, <1>2 DEF PriceInv, GenShape
  <1>5. numLastBars' = 0 => AllPriced'
    <2>1. SUFFICES ASSUME numLastBars' = 0 PROVE AllPriced'
      OBVIOUS
    <2>2. ring.size = 0
      BY <1>1, <1>2, <2>1
    <2>3. DOMAIN Bars(ring) = {}
      BY <2>2, RingBars DEF PriceInv
    <2>4. ring' = ring /\ prices' = <<>>
      BY <1>1, <1>2
    <2> QED
      BY <2>3, <2>4 DEF AllPriced
  <1> QED
    BY <1>1, <1>3, <1>4, <1>5 DEF PriceInv, Priced

LEMMA ExtendBarPrice == ASSUME PriceInv, ExtendBar PROVE PriceInv'
  <1> DEFINE bar == Extended(Current, Tick)
             c == [ring.cells EXCEPT ![gen.current] = bar]
  <1>1. /\ loop = "update" /\ loop' = "update" /\ gen.current # None
        /\ UNCHANGED <<history, newBars, numLastBars, prices>>
        /\ gen' = [gen EXCEPT !.lastTs = Tick.ts]
        /\ ring' = [ring EXCEPT !.cells = c]
    BY DEF ExtendBar, Updating, config, priceVars
  <1>2. RingShape /\ GenShape /\ ring.size > 0
    BY <1>1 DEF PriceInv, GenShape
  <1>3. c = [i \in 0..(Depth - 1) |-> c[i]]
    BY <1>2 DEF RingShape
  <1>4. \A i \in 0..(Depth - 1) : i # gen.current => c[i] = ring.cells[i]
    BY <1>2 DEF RingShape
  <1> HIDE DEF c
  <1>5. /\ ring' = [cells |-> c, first |-> ring.first, last |-> ring.last,
                    size |-> ring.size]
    BY <1>1, <1>2 DEF RingShape
  <1>6. /\ ring'.cells = c /\ ring'.first = ring.first
        /\ ring'.last = ring.last /\ ring'.size = ring.size
    BY <1>5
  <1>7. RingShape'
    BY <1>2, <1>3, <1>5, <1>6 DEF RingShape
  <1>8. GenShape'
    <2>1. /\ gen' = [current |-> gen.current, lastTs |-> Tick.ts]
          /\ gen'.current = gen.current
      BY <1>1, <1>2 DEF GenShape
    <2> QED
      BY <1>1, <1>2, <1>6, <2>1 DEF GenShape
  <1>9. OthersPriced => OthersPriced'
    <2>1. SUFFICES ASSUME OthersPriced PROVE OthersPriced'
      OBVIOUS
    <2>2. /\ Bars(ring) = [i \in 1..ring.size |-> ring.cells[Wrapped(ring.first + i - 1)]]
          /\ DOMAIN Bars(ring) = 1..ring.size
      BY <1>2, RingBars
    <2>3. (Bars(ring))' = [i \in 1..ring.size |-> c[Wrapped(ring.first + i - 1)]]
      <3>1. (Bars(ring))' = [i \in 1..ring'.size |->
                              ring'.cells[Wrapped(ring'.first + i - 1)]]
        BY <1>7, BarsNext
      <3> QED
        BY <1>6, <3>1
    <2>4. ASSUME NEW i \in 1..ring.size, i # ring.size
          PROVE  (Bars(ring))'[i] = Bars(ring)[i]
      <3>1. Wrapped(ring.first + i - 1) # gen.current
        BY <1>1, <1>2, <2>4, CurrentIsLast
      <3>2. Wrapped(ring.first + i - 1) \in 0..(Depth - 1)
        BY <1>2, FeedAssumption DEF RingShape, Wrapped
      <3> QED
        BY <1>4, <2>2, <2>3, <3>1, <3>2
    <2>5. /\ prices' = prices /\ ring'.size = ring.size
          /\ (DOMAIN Bars(ring))' = 1..ring.size
      BY <1>1, <1>6, <2>3
    <2>6. prices = [i \in 1..ring.size |->
                     IF i = ring.size THEN prices[i] ELSE PriceOf(Bars(ring)[i])]
      BY <2>1, <2>2 DEF OthersPriced
    <2>7. prices = [i \in 1..ring.size |->
                     IF i = ring.size THEN prices[i] ELSE PriceOf((Bars(ring))'[i])]
      BY <2>4, <2>6
    <2> QED
      BY <2>5, <2>7 DEF OthersPriced
  <1>10. numLastBars' + newBars' = 0 => OthersPriced'
    BY <1>1, <1>9 DEF PriceInv, Priced
  <1>11. gen'.current # None
    BY <1>1, <1>2 DEF GenShape
  <1> QED
    BY <1>1, <1>7, <1>8, <1>10, <1>11 DEF PriceInv, Priced

LEMMA OpenBarPrice == ASSUME PriceInv, OpenBar PROVE PriceInv'
  <1> DEFINE c == Ended(ring.cells, gen.current)
             r == [ring EXCEPT !.cells = c]
  <1>1. /\ loop = "update" /\ loop' = "update"
        /\ UNCHANGED <<history, numLastBars, prices>>
        /\ newBars' = newBars + 1
        /\ gen' = [current |-> ring.last, lastTs |-> Tick.ts]
        /\ ring' = WriteElt(r, NewBar(Tick))
    BY DEF OpenBar, Updating, config, priceVars
  <1>2. RingShape /\ newBars \in Nat /\ numLastBars \in Nat
    BY DEF PriceInv, GenShape
  <1>3. c = [i \in 0..(Depth - 1) |-> c[i]]
    BY <1>2 DEF RingShape, Ended
  <1> HIDE DEF c
  <1>4. RingShape' /\ ring'.last = After(ring.last) /\ ring'.size > 0
    BY <1>1, <1>2, <1>3, WriteShape
  <1>5. gen'.current = ring.last /\ ring.last # None /\ ring.last \in 0..(Depth - 1)
    BY <1>1, <1>2, FeedAssumption DEF RingShape, None
  <1>6. GenShape'
    BY <1>1, <1>2, <1>4, <1>5 DEF GenShape
  <1>7. numLastBars' + newBars' # 0
    BY <1>1, <1>2
  <1> QED
    BY <1>1, <1>4, <1>6, <1>7 DEF PriceInv, Priced

LEMMA EndUpdatePrice == ASSUME PriceInv, EndUpdate PROVE PriceInv'
  <1>1. /\ loop = "update" /\ loop' = "process" /\ newBars' = 0
        /\ numLastBars' = numLastBars + Counted
        /\ UNCHANGED <<history, gen, ring, prices>>
    BY DEF EndUpdate, config, priceVars
  <1>2. RingShape'
    BY <1>1 DEF PriceInv, RingShape
  <1>3. /\ newBars \in Nat /\ numLastBars \in Nat
        /\ gen.current = None => newBars = 0
        /\ gen.current = None => numLastBars \in {0, Len(history)}
    BY DEF PriceInv, GenShape
  <1>4. numLastBars' = IF gen.current = None THEN numLastBars
                                             ELSE numLastBars + newBars + 1
    BY <1>1, <1>3 DEF Counted
  <1>5. GenShape'
    BY <1>1, <1>3, <1>4 DEF PriceInv, GenShape
  <1>6. (AllPriced <=> AllPriced') /\ (OthersPriced <=> OthersPriced')
    BY <1>1 DEF AllPriced, OthersPriced
  <1>7. CASE gen.current = None
    <2>1. numLastBars' = 0 => numLastBars + newBars = 0
      BY <1>3, <1>4, <1>7
    <2>2. numLastBars' = 0 => AllPriced'
      BY <1>1, <1>6, <1>7, <2>1 DEF PriceInv, Priced
    <2> QED
      BY <1>1, <1>2, <1>5, <1>7, <2>2 DEF PriceInv, Priced
  <1>8. CASE gen.current # None
    <2>1. numLastBars' > 0 /\ numLastBars' # 0
      BY <1>3, <1>4, <1>8
    <2>2. numLastBars' = 1 => numLastBars + newBars = 0
      BY <1>3, <1>4, <1>8
    <2>3. numLastBars' = 1 => OthersPriced'
      BY <1>1, <1>6, <1>8, <2>2 DEF PriceInv, Priced
    <2> QED
      BY <1>1, <1>2, <1>5, <1>8, <2>1, <2>3 DEF PriceInv, Priced
  <1> QED
    BY <1>7, <1>8

LEMMA ProcessPrice == ASSUME PriceInv, Process PROVE PriceInv'
  <1>1. /\ loop = "process" /\ loop' = "top"
        /\ IF Enough THEN ComputeMinimalist /\ numLastBars' = 0
                     ELSE UNCHANGED <<priceVars, numLastBars>>
        /\ UNCHANGED <<history, gen, ring, newBars>>
    BY DEF Process, config
  <1>2. RingShape'
    BY <1>1 DEF PriceInv, RingShape
  <1>3. /\ RingShape /\ newBars = 0 /\ numLastBars \in Nat /\ Depth > 1
        /\ Depth \in Nat
    BY <1>1, FeedAssumption DEF PriceInv, GenShape
  <1>4. CASE ~Enough
    <2>1. UNCHANGED <<prices, numLastBars>>
      BY <1>1, <1>4 DEF priceVars
    <2>2. GenShape'
      BY <1>1, <2>1 DEF PriceInv, GenShape
    <2>3. AllPriced <=> AllPriced'
      BY <1>1, <2>1 DEF AllPriced
    <2> QED
      BY <1>1, <1>2, <2>1, <2>2, <2>3 DEF PriceInv, Priced
  <1>5. CASE Enough
    <2>1. numLastBars' = 0 /\ ComputeMinimalist
      BY <1>1, <1>5
    <2>2. GenShape'
      BY <1>1, <2>1 DEF PriceInv, GenShape
    <2>3. /\ ring.size = Depth /\ DOMAIN Bars(ring) = 1..ring.size
          /\ Len(Bars(ring)) = ring.size
      BY <1>3, <1>5, RingBars DEF Enough, RingShape
    <2>4. AllPriced'
      <3>1. CASE numLastBars # 1
        <4>1. prices' = [i \in 1..ring.size |-> PriceOf(Bars(ring)[i])]
          BY <2>1, <2>3, <3>1 DEF ComputeMinimalist, Compute
        <4>2. prices' = [i \in DOMAIN Bars(ring) |-> PriceOf(Bars(ring)[i])]
          BY <2>3, <4>1
        <4> QED
          BY <1>1, <4>2 DEF AllPriced
      <3>2. CASE numLastBars = 1
        <4>1. gen.current # None
          <5>1. SUFFICES ASSUME gen.current = None PROVE FALSE
            OBVIOUS
          <5>2. numLastBars \in {0, Len(history)} /\ ring.size <= Len(history)
            BY <1>1, <5>1 DEF PriceInv, GenShape
          <5> QED
            BY <1>3, <2>3, <3>2, <5>2
        <4>2. OthersPriced
          BY <1>1, <3>2, <4>1 DEF PriceInv, Priced
        <4>3. prices' = [prices EXCEPT ![Len(prices)] = PriceOf(ring.cells[gen.current])]
          BY <2>1, <3>2, <4>1 DEF ComputeMinimalist, ComputeLast
        <4>4. prices = [i \in 1..ring.size |->
                         IF i = ring.size THEN prices[i] ELSE PriceOf(Bars(ring)[i])]
          BY <2>3, <4>2 DEF OthersPriced
        <4>5. Len(prices) = ring.size
          BY <1>3, <2>3, <4>4
        <4>6. Bars(ring)[ring.size] = ring.cells[gen.current]
          <5>1. ring.size \in 1..ring.size
            BY <1>3, <2>3
          <5>2. Wrapped(ring.first + ring.size - 1) = gen.current
            BY <1>3, <4>1, <5>1, CurrentIsLast DEF PriceInv
          <5> QED
            BY <1>3, <5>1, <5>2, RingBars
        <4>7. prices' = [i \in 1..ring.size |-> PriceOf(Bars(ring)[i])]
          BY <4>3, <4>4, <4>5, <4>6
        <4>8. prices' = [i \in DOMAIN Bars(ring) |-> PriceOf(Bars(ring)[i])]
          BY <2>3, <4>7
        <4> QED
          BY <1>1, <4>8 DEF AllPriced
      <3> QED
        BY <3>1, <3>2
    <2> QED
      BY <1>1, <1>2, <2>2, <2>4 DEF PriceInv, Priced
  <1> QED
    BY <1>4, <1>5

LEMMA PriceStep == ASSUME PriceInv, [Next]_vars PROVE PriceInv'
  <1>1. CASE Fill \/ KeepFilling \/ EndFill
    <2>1. UNCHANGED <<history, ring, gen, newBars, numLastBars, prices>>
      BY <1>1 DEF Fill, KeepFilling, EndFill, config, barVars, priceVars
    <2>2. loop \in {"top", "fill"} /\ loop' \in {"top", "fill", "update"}
      BY <1>1 DEF Fill, KeepFilling, EndFill
    <2> QED
      BY <2>1, <2>2, SameBarsStep
  <1>2. CASE DropTick
    BY <1>2, SameBarsStep DEF DropTick, Updating, config, priceVars
  <1>3. CASE UNCHANGED vars
    BY <1>3, SameBarsStep DEF vars, config, barVars, priceVars
  <1> QED
    BY <1>1, <1>2, <1>3, LoadBarPrice, EndLoadPrice, ExtendBarPrice, OpenBarPrice,
       EndUpdatePrice, ProcessPrice DEF Next

(* "optimized compute version without trade-off" (price.h:67): for every   *)
(* depth of the ring, bulk of history, kind of bar and batch of ticks, the *)
(* last-value update leaves the arrays as a full compute would.            *)
THEOREM PricesAreTheRing == Spec => []PricesMatchRing
  <1>1. Init => PriceInv
    BY PriceInit
  <1>2. PriceInv /\ [Next]_vars => PriceInv'
    BY PriceStep
  <1>3. PriceInv => PricesMatchRing
    BY DEF PriceInv, Priced, AllPriced, PricesMatchRing
  <1> QED
    BY <1>1, <1>2, <1>3, PTL DEF Spec

-----------------------------------------------------------------------------
(* The computations at close.                                              *)

Typed == buffer \in Seq(Ticks) /\ out \in Seq(Ticks)

OutInRange ==
  loop \in {"fill", "update"} => \A i \in 1..Len(out) : FromTs <= out[i].ts

DatedOnwards ==
  \A i, j \in 1..ring.size :
    i <= j /\ Bars(ring)[i].ts > 0 => Bars(ring)[j].ts > 0

Aligned(ts) == "timeframe" \in Kinds => ts % Timeframe = 0

(* Every bar after a dated one is dated; the last is not later than the    *)
(* last tick; before the first tick it is the last of the history.         *)
Loaded == loop = "load" => at = Len(history)

Dated ==
  /\ ring.cells \in [0..(Depth - 1) -> BarTypes]
  /\ gen.lastTs \in Nat
  /\ DatedOnwards
  /\ IF gen.current = None
     THEN ring.size > 0 /\ Loaded
            => /\ Bars(ring)[ring.size].ts < FromTs
               /\ Aligned(Bars(ring)[ring.size].ts)
     ELSE ring.cells[gen.current].ts <= gen.lastTs

(* What was computed is closed up to its last bar, and stays computable.   *)
Closed ==
  IF prices = <<>> THEN lastClosed = 0
  ELSE /\ prices = [i \in 1..Depth |-> prices[i]]
       /\ Enough
       /\ lastClosed = prices[Depth].ts
       /\ lastClosed <= Bars(ring)[Depth].ts

CloseInv ==
  /\ kind \in Kinds /\ at \in Nat /\ lastClosed \in Nat
  /\ OutInRange /\ Dated /\ Closed

LEMMA Division ==
  ASSUME NEW t \in Nat
  PROVE  /\ t \div Timeframe \in Nat /\ t % Timeframe \in Nat
         /\ t = Timeframe * (t \div Timeframe) + (t % Timeframe)
         /\ t % Timeframe < Timeframe
  BY FeedAssumption

LEMMA TimesMonotone ==
  ASSUME NEW a \in Nat, NEW b \in Nat, NEW n \in Nat, a <= b
  PROVE  n * a <= n * b
  OBVIOUS

LEMMA BaseTimeBounds ==
  ASSUME NEW t \in Nat
  PROVE  BaseTime(t) \in Nat /\ BaseTime(t) <= t /\ t < BaseTime(t) + Timeframe
  <1>1. Timeframe \in Nat /\ t \div Timeframe \in Nat
    BY FeedAssumption, Division
  <1>2. (t \div Timeframe) * Timeframe = Timeframe * (t \div Timeframe)
    BY <1>1
  <1>3. Timeframe * (t \div Timeframe) \in Nat
    BY <1>1
  <1> QED
    BY <1>1, <1>2, <1>3, Division DEF BaseTime

LEMMA AlignedBefore ==
  ASSUME NEW t \in Nat, NEW b \in Nat, b % Timeframe = 0, b <= t
  PROVE  b <= BaseTime(t)
  <1>1. /\ Timeframe \in Nat /\ t \div Timeframe \in Nat /\ b \div Timeframe \in Nat
        /\ b = Timeframe * (b \div Timeframe)
    BY FeedAssumption, Division
  <1>2. /\ t = Timeframe * (t \div Timeframe) + (t % Timeframe)
        /\ t % Timeframe \in Nat /\ t % Timeframe < Timeframe
    BY Division
  <1>3. b \div Timeframe <= t \div Timeframe
    <2>1. SUFFICES ASSUME t \div Timeframe + 1 <= b \div Timeframe PROVE FALSE
      BY <1>1
    <2>2. Timeframe * (t \div Timeframe + 1) <= Timeframe * (b \div Timeframe)
      BY <1>1, <2>1, TimesMonotone
    <2>3. Timeframe * (t \div Timeframe + 1) = Timeframe * (t \div Timeframe) + Timeframe
      BY <1>1
    <2> QED
      BY <1>1, <1>2, <2>2, <2>3
  <1>4. Timeframe * (b \div Timeframe) <= Timeframe * (t \div Timeframe)
    BY <1>1, <1>3, TimesMonotone
  <1>5. (t \div Timeframe) * Timeframe = Timeframe * (t \div Timeframe)
    BY <1>1
  <1> QED
    BY <1>1, <1>4, <1>5 DEF BaseTime

LEMMA NewBarTypes ==
  ASSUME NEW tick \in Ticks
  PROVE  /\ NewBar(tick) \in BarTypes
         /\ NewBar(tick).ts = IF kind = "timeframe" THEN BaseTime(tick.ts) ELSE tick.ts
         /\ NewBar(tick).ts \in Nat /\ NewBar(tick).ts <= tick.ts
  <1>1. tick.ts \in Nat /\ tick.price \in Nat
    BY DEF Ticks
  <1>2. BaseTime(tick.ts) \in Nat /\ BaseTime(tick.ts) <= tick.ts
    BY <1>1, BaseTimeBounds
  <1>3. NewBar(tick).ts = IF kind = "timeframe" THEN BaseTime(tick.ts) ELSE tick.ts
    BY DEF NewBar
  <1>4. NewBar(tick) \in BarTypes
    BY <1>1, <1>2 DEF NewBar, BarTypes
  <1> QED
    BY <1>1, <1>2, <1>3, <1>4

LEMMA ExtendedTypes ==
  ASSUME NEW bar \in BarTypes, NEW tick \in Ticks
  PROVE  Extended(bar, tick) \in BarTypes /\ Extended(bar, tick).ts = bar.ts
  <1>1. /\ bar.ts \in Nat /\ bar.open \in Nat /\ bar.high \in Nat /\ bar.low \in Nat
        /\ bar.volume \in Nat /\ bar.ended \in BOOLEAN /\ tick.price \in Nat
    BY DEF BarTypes, Ticks
  <1> DEFINE high == IF tick.price > bar.high THEN tick.price ELSE bar.high
             low == IF tick.price < bar.low THEN tick.price ELSE bar.low
  <1>2. high \in Nat /\ low \in Nat /\ bar.volume + 1 \in Nat
    BY <1>1
  <1>3. Extended(bar, tick) =
          [bar EXCEPT !.high = high, !.low = low, !.close = tick.price,
                      !.volume = bar.volume + 1]
    BY DEF Extended
  <1> HIDE DEF high, low
  <1>4. [bar EXCEPT !.high = high, !.low = low, !.close = tick.price,
                    !.volume = bar.volume + 1]
          = [ts |-> bar.ts, open |-> bar.open, high |-> high, low |-> low,
             close |-> tick.price, volume |-> bar.volume + 1, ended |-> bar.ended]
    <2> DEFINE volume == bar.volume + 1
               a == [bar EXCEPT !.high = high]
               b == [a EXCEPT !.low = low]
               d == [b EXCEPT !.close = tick.price]
    <2> HIDE DEF volume
    <2>1. a = [ts |-> bar.ts, open |-> bar.open, high |-> high, low |-> bar.low,
               close |-> bar.close, volume |-> bar.volume, ended |-> bar.ended]
      BY DEF BarTypes
    <2> HIDE DEF a
    <2>2. b = [ts |-> bar.ts, open |-> bar.open, high |-> high, low |-> low,
               close |-> bar.close, volume |-> bar.volume, ended |-> bar.ended]
      BY <2>1
    <2> HIDE DEF b
    <2>3. d = [ts |-> bar.ts, open |-> bar.open, high |-> high, low |-> low,
               close |-> tick.price, volume |-> bar.volume, ended |-> bar.ended]
      BY <2>2
    <2> HIDE DEF d
    <2>4. [d EXCEPT !.volume = volume]
            = [ts |-> bar.ts, open |-> bar.open, high |-> high, low |-> low,
               close |-> tick.price, volume |-> volume, ended |-> bar.ended]
      BY <2>3
    <2>5. [bar EXCEPT !.high = high, !.low = low, !.close = tick.price, !.volume = volume]
            = [d EXCEPT !.volume = volume]
      BY DEF a, b, d
    <2> QED
      BY <2>4, <2>5 DEF volume
  <1>5. [ts |-> bar.ts, open |-> bar.open, high |-> high, low |-> low,
         close |-> tick.price, volume |-> bar.volume + 1, ended |-> bar.ended] \in BarTypes
    BY <1>1, <1>2 DEF BarTypes
  <1> QED
    BY <1>3, <1>4, <1>5

LEMMA EndedTypes ==
  ASSUME NEW cells \in [0..(Depth - 1) -> BarTypes], NEW i
  PROVE  /\ Ended(cells, i) \in [0..(Depth - 1) -> BarTypes]
         /\ \A k \in 0..(Depth - 1) : Ended(cells, i)[k].ts = cells[k].ts
  <1>1. CASE i = None
    BY <1>1 DEF Ended
  <1>2. CASE i # None
    <2>1. \A k \in 0..(Depth - 1) :
            /\ [cells[k] EXCEPT !.ended = TRUE] \in BarTypes
            /\ [cells[k] EXCEPT !.ended = TRUE].ts = cells[k].ts
      BY DEF BarTypes
    <2>2. Ended(cells, i) = [k \in 0..(Depth - 1) |->
             IF k = i THEN [cells[k] EXCEPT !.ended = TRUE] ELSE cells[k]]
      BY <1>2 DEF Ended
    <2> QED
      BY <2>1, <2>2
  <1> QED
    BY <1>1, <1>2

(* A write moves the bars one place when the ring is full.                 *)
Written(c, bar) ==
  /\ ring'.size = IF ring.size = Depth THEN Depth ELSE ring.size + 1
  /\ ring'.cells = [c EXCEPT ![ring.last] = bar]
  /\ (Bars(ring))'[ring'.size] = bar
  /\ \A i \in 1..(ring'.size - 1) :
       /\ i + (ring.size + 1 - ring'.size) \in 1..ring.size
       /\ (Bars(ring))'[i].ts = Bars(ring)[i + (ring.size + 1 - ring'.size)].ts

LEMMA WrittenBars ==
  ASSUME RingShape, NEW c, NEW r, NEW bar,
         r = [ring EXCEPT !.cells = c], ring' = WriteElt(r, bar),
         c = [i \in 0..(Depth - 1) |-> c[i]],
         \A k \in 0..(Depth - 1) : c[k].ts = ring.cells[k].ts
  PROVE  Written(c, bar)
  <1>1. Depth \in Nat /\ Depth > 1
    BY FeedAssumption
  <1> DEFINE first == IF ring.size = Depth THEN After(ring.last) ELSE ring.first
             size == IF ring.size = Depth THEN ring.size ELSE ring.size + 1
             moved == IF ring.size = Depth THEN 1 ELSE 0
  <1>2. /\ ring'.size = size /\ ring'.first = first
        /\ ring'.cells = [c EXCEPT ![ring.last] = bar]
    <2>1. /\ r.cells = c /\ r.first = ring.first /\ r.last = ring.last
          /\ r.size = ring.size
      BY DEF RingShape
    <2> QED
      BY <2>1 DEF WriteElt, Full
  <1>3. RingShape'
    BY WriteShape
  <1>4. (Bars(ring))' = [i \in 1..ring'.size |-> ring'.cells[Wrapped(ring'.first + i - 1)]]
    BY <1>3, BarsNext
  <1>5. /\ Bars(ring) = [i \in 1..ring.size |-> ring.cells[Wrapped(ring.first + i - 1)]]
        /\ ring.size \in Nat
    BY RingBars
  <1>6. /\ ring.size \in 0..Depth /\ ring.first \in 0..(Depth - 1)
        /\ ring.last \in 0..(Depth - 1)
        /\ ring.size < Depth => ring.first = 0 /\ ring.last = ring.size
        /\ ring.size = Depth => ring.first = ring.last
    BY DEF RingShape
  <1>7. After(ring.last) = IF ring.last + 1 < Depth THEN ring.last + 1
                                                    ELSE ring.last + 1 - Depth
    BY <1>6, AfterIs
  <1>8. size \in 1..Depth /\ ring.size + 1 - size = moved
    BY <1>1, <1>6
  <1>9. Wrapped(first + size - 1) = ring.last
    BY <1>1, <1>6, <1>7 DEF Wrapped
  <1>10. ASSUME NEW i \in 1..(size - 1)
         PROVE  /\ i + moved \in 1..ring.size
                /\ Wrapped(first + i - 1) = Wrapped(ring.first + (i + moved) - 1)
                /\ Wrapped(first + i - 1) \in 0..(Depth - 1)
                /\ Wrapped(first + i - 1) # ring.last
    <2>1. CASE ring.size = Depth
      <3>1. size = Depth /\ moved = 1 /\ first = After(ring.last) /\ ring.first = ring.last
        BY <1>6, <2>1
      <3> HIDE DEF size, moved, first
      <3>2. CASE ring.last + 1 < Depth
        <4>1. first = ring.last + 1
          BY <1>7, <3>1, <3>2
        <4> DEFINE place == IF ring.last + i < Depth THEN ring.last + i
                                                     ELSE ring.last + i - Depth
        <4>2. i \in 1..(Depth - 1) /\ ring.last \in 0..(Depth - 1)
          BY <1>6, <1>10, <3>1
        <4>3. /\ first + i - 1 = ring.last + i
              /\ ring.first + (i + moved) - 1 = ring.last + i
          <5>1. ring.first = ring.last /\ i \in Int /\ ring.last \in Int
            BY <3>1, <4>2
          <5> QED
            BY <3>1, <4>1, <5>1
        <4>4. Wrapped(ring.last + i) = place
          BY <1>1, <4>2 DEF Wrapped
        <4>5. place \in 0..(Depth - 1) /\ place # ring.last /\ i + moved \in 1..ring.size
          BY <1>1, <2>1, <3>1, <4>2
        <4> QED
          BY <4>3, <4>4, <4>5
      <3>3. CASE ~(ring.last + 1 < Depth)
        <4>1. first = 0 /\ ring.last = Depth - 1
          BY <1>1, <1>6, <1>7, <3>1, <3>3
        <4> QED
          BY <1>1, <1>6, <1>10, <2>1, <3>1, <4>1 DEF Wrapped
      <3> QED
        BY <3>2, <3>3
    <2>2. CASE ring.size # Depth
      <3>1. /\ size = ring.size + 1 /\ moved = 0 /\ first = 0 /\ ring.first = 0
            /\ ring.last = ring.size /\ ring.size < Depth
        BY <1>1, <1>6, <2>2
      <3> HIDE DEF size, moved, first
      <3> QED
        BY <1>1, <1>6, <1>10, <3>1 DEF Wrapped
    <2> QED
      BY <2>1, <2>2
  <1> HIDE DEF first, size, moved
  <1>11. (Bars(ring))' = [i \in 1..size |->
                            [c EXCEPT ![ring.last] = bar][Wrapped(first + i - 1)]]
    BY <1>2, <1>4
  <1>12. (Bars(ring))'[size] = bar
    BY <1>6, <1>8, <1>9, <1>11
  <1>13. ASSUME NEW i \in 1..(size - 1)
         PROVE  (Bars(ring))'[i].ts = Bars(ring)[i + moved].ts
    <2>1. i \in 1..size
      BY <1>8
    <2>2. (Bars(ring))'[i] = c[Wrapped(first + i - 1)]
      BY <1>10, <1>11, <2>1
    <2>3. Bars(ring)[i + moved] = ring.cells[Wrapped(first + i - 1)]
      BY <1>5, <1>10
    <2> QED
      BY <1>10, <2>2, <2>3
  <1>14. size = IF ring.size = Depth THEN Depth ELSE ring.size + 1
    BY DEF size
  <1>15. ASSUME NEW i \in 1..(ring'.size - 1)
         PROVE  /\ i + (ring.size + 1 - ring'.size) \in 1..ring.size
                /\ (Bars(ring))'[i].ts = Bars(ring)[i + (ring.size + 1 - ring'.size)].ts
    BY <1>2, <1>8, <1>10, <1>13, <1>15
  <1>16. /\ ring'.size = IF ring.size = Depth THEN Depth ELSE ring.size + 1
         /\ ring'.cells = [c EXCEPT ![ring.last] = bar] /\ (Bars(ring))'[ring'.size] = bar
    BY <1>2, <1>12, <1>14
  <1> QED
    BY <1>15, <1>16, Zenon DEF Written

(* The current bar changes, not its date.                                  *)
LEMMA SameStamps ==
  ASSUME RingShape, RingShape', ring'.first = ring.first, ring'.size = ring.size,
         \A k \in 0..(Depth - 1) : ring'.cells[k].ts = ring.cells[k].ts,
         NEW i \in 1..ring.size
  PROVE  (Bars(ring))'[i].ts = Bars(ring)[i].ts
  <1>1. (Bars(ring))' = [n \in 1..ring'.size |-> ring'.cells[Wrapped(ring'.first + n - 1)]]
    BY BarsNext
  <1>2. Bars(ring) = [n \in 1..ring.size |-> ring.cells[Wrapped(ring.first + n - 1)]]
    BY RingBars
  <1>3. Wrapped(ring.first + i - 1) \in 0..(Depth - 1)
    BY FeedAssumption DEF RingShape, Wrapped
  <1> QED
    BY <1>1, <1>2, <1>3

LEMMA LastBar ==
  ASSUME RingShape, GenShape, gen.current # None
  PROVE  ring.size \in 1..ring.size /\ Bars(ring)[ring.size] = ring.cells[gen.current]
  <1>1. ring.size \in 1..ring.size
    BY RingBars DEF GenShape
  <1>2. Wrapped(ring.first + ring.size - 1) = gen.current
    BY <1>1, CurrentIsLast
  <1> QED
    BY <1>1, <1>2, RingBars

LEMMA BarsTyped ==
  ASSUME RingShape, ring.cells \in [0..(Depth - 1) -> BarTypes], NEW i \in 1..ring.size
  PROVE  Bars(ring)[i] \in BarTypes /\ Bars(ring)[i].ts \in Nat
  <1>1. Wrapped(ring.first + i - 1) \in 0..(Depth - 1)
    BY FeedAssumption DEF RingShape, Wrapped
  <1>2. Bars(ring)[i] \in BarTypes
    BY <1>1, RingBars
  <1> QED
    BY <1>2 DEF BarTypes

LEMMA CloseInit == ASSUME Init PROVE CloseInv
  <1>1. ring = EmptyRing /\ gen = [current |-> None, lastTs |-> 0] /\ prices = <<>>
        /\ lastClosed = 0 /\ loop = "load" /\ at = 0 /\ kind \in Kinds
    BY DEF Init
  <1>2. ring.cells = [i \in 0..(Depth - 1) |-> ZeroBar] /\ ring.size = 0
    BY <1>1 DEF EmptyRing
  <1>3. ZeroBar \in BarTypes
    BY DEF ZeroBar, BarTypes
  <1>4. ring.cells \in [0..(Depth - 1) -> BarTypes]
    BY <1>2, <1>3
  <1>5. 1..ring.size = {}
    BY <1>2
  <1>6. Dated
    BY <1>1, <1>2, <1>4, <1>5 DEF Dated, DatedOnwards
  <1>7. Closed
    BY <1>1 DEF Closed
  <1>8. OutInRange
    BY <1>1 DEF OutInRange
  <1> QED
    BY <1>1, <1>6, <1>7, <1>8 DEF CloseInv

LEMMA SameCloseStep ==
  ASSUME CloseInv, UNCHANGED <<kind, ring, gen, prices, lastClosed>>,
         at' \in Nat, OutInRange', Loaded' => Loaded
  PROVE  CloseInv'
  <1>1. Dated'
    BY DEF CloseInv, Dated, DatedOnwards
  <1>2. Closed'
    BY DEF CloseInv, Closed, Enough
  <1> QED
    BY <1>1, <1>2 DEF CloseInv

LEMMA FillClose ==
  ASSUME TimeInv, Typed, CloseInv, Fill \/ KeepFilling \/ EndFill
  PROVE  CloseInv'
  <1>1. UNCHANGED <<kind, ring, gen, prices, lastClosed, at>> /\ Loaded
    BY DEF Fill, KeepFilling, EndFill, config, barVars, priceVars, Loaded
  <1>2. CASE Fill
    <2>1. out' = <<>>
      BY <1>2 DEF Fill, FillNext
    <2>2. OutInRange'
      BY <2>1 DEF OutInRange
    <2> QED
      BY <1>1, <2>2, SameCloseStep DEF CloseInv
  <1>3. CASE KeepFilling
    <2>1. loop = "fill" /\ FillStep
      BY <1>3 DEF KeepFilling
    <2>2. out \in Seq(Ticks) /\ buffer \in Seq(Ticks) /\ ofs \in Nat
      BY DEF TimeInv, Typed, StreamTypes
    <2>3. \A i \in 1..Len(out) : FromTs <= out[i].ts
      BY <2>1 DEF CloseInv, OutInRange
    <2>4. CASE Take
      <3>1. out' = Append(out, Upcoming) /\ FromTs <= Upcoming.ts
        BY <2>4 DEF Take
      <3>2. \A i \in 1..Len(out') : FromTs <= out'[i].ts
        BY <2>2, <2>3, <3>1
      <3> QED
        BY <1>1, <3>2, SameCloseStep DEF CloseInv, OutInRange
    <2>5. CASE out' = out
      BY <1>1, <2>3, <2>5, SameCloseStep DEF CloseInv, OutInRange
    <2>6. CASE Refill /\ out' # out
      <3>1. out' = Append(out, buffer'[1]) /\ FromTs <= buffer'[1].ts
        BY <2>6, LooksAtOne DEF Refill
      <3>2. \A i \in 1..Len(out') : FromTs <= out'[i].ts
        BY <2>2, <2>3, <3>1
      <3> QED
        BY <1>1, <3>2, SameCloseStep DEF CloseInv, OutInRange
    <2>7. Skip \/ ReachMax => out' = out
      BY DEF Skip, ReachMax
    <2> QED
      BY <2>1, <2>4, <2>5, <2>6, <2>7 DEF FillStep
  <1>4. CASE EndFill
    <2>1. loop = "fill" /\ out' = out
      BY <1>4 DEF EndFill, Returned
    <2>2. OutInRange'
      BY <2>1 DEF CloseInv, OutInRange
    <2> QED
      BY <1>1, <2>2, SameCloseStep DEF CloseInv
  <1> QED
    BY <1>2, <1>3, <1>4

(* Writing a bar that is dated if the ring has a dated one.                *)
LEMMA WriteDatedOnwards ==
  ASSUME RingShape, DatedOnwards, ring.cells \in [0..(Depth - 1) -> BarTypes],
         NEW c \in [0..(Depth - 1) -> BarTypes], NEW r, NEW bar \in BarTypes,
         r = [ring EXCEPT !.cells = c], ring' = WriteElt(r, bar),
         \A k \in 0..(Depth - 1) : c[k].ts = ring.cells[k].ts,
         \A i \in 1..ring.size : Bars(ring)[i].ts > 0 => bar.ts > 0
  PROVE  /\ DatedOnwards'
         /\ ring'.cells \in [0..(Depth - 1) -> BarTypes]
  <1>1. c = [i \in 0..(Depth - 1) |-> c[i]]
    OBVIOUS
  <1>2. /\ ring'.size = IF ring.size = Depth THEN Depth ELSE ring.size + 1
        /\ ring'.cells = [c EXCEPT ![ring.last] = bar]
        /\ (Bars(ring))'[ring'.size] = bar
        /\ \A i \in 1..(ring'.size - 1) :
             /\ i + (ring.size + 1 - ring'.size) \in 1..ring.size
             /\ (Bars(ring))'[i].ts = Bars(ring)[i + (ring.size + 1 - ring'.size)].ts
    <2>1. Written(c, bar)
      BY <1>1, WrittenBars
    <2> QED
      BY <2>1 DEF Written
  <1>3. ring.size \in Nat /\ Depth \in Nat
    BY RingBars, FeedAssumption
  <1>4. ring'.size \in Nat
    BY <1>2, <1>3
  <1>5. ASSUME NEW i \in 1..ring'.size, NEW j \in 1..ring'.size, i <= j,
               (Bars(ring))'[i].ts > 0
        PROVE  (Bars(ring))'[j].ts > 0
    <2> DEFINE moved == ring.size + 1 - ring'.size
    <2>1. CASE i = ring'.size
      <3>1. j = i
        BY <1>4, <1>5, <2>1
      <3> QED
        BY <1>5, <3>1
    <2>2. CASE i # ring'.size
      <3>1. i \in 1..(ring'.size - 1)
        BY <1>4, <2>2
      <3>2. i + moved \in 1..ring.size /\ Bars(ring)[i + moved].ts > 0
        BY <1>2, <1>5, <3>1
      <3>3. CASE j = ring'.size
        BY <1>2, <3>2, <3>3
      <3>4. CASE j # ring'.size
        <4>1. j \in 1..(ring'.size - 1)
          BY <1>4, <3>4
        <4>2. j + moved \in 1..ring.size /\ (Bars(ring))'[j].ts = Bars(ring)[j + moved].ts
          BY <1>2, <4>1
        <4>3. i + moved <= j + moved
          BY <1>3, <1>4, <1>5
        <4> HIDE DEF moved
        <4> QED
          BY <3>2, <4>2, <4>3 DEF DatedOnwards
      <3> QED
        BY <3>3, <3>4
    <2> QED
      BY <2>1, <2>2
  <1>6. DatedOnwards'
    BY <1>5 DEF DatedOnwards
  <1>7. ring'.cells \in [0..(Depth - 1) -> BarTypes]
    BY <1>2
  <1> QED
    BY <1>6, <1>7

LEMMA LoadBarClose == ASSUME PriceInv, CloseInv, LoadBar PROVE CloseInv'
  <1> DEFINE bar == history[at + 1]
  <1>1. /\ loop = "load" /\ loop' = "load" /\ at' = at + 1 /\ at < Len(history)
        /\ ring' = WriteElt(ring, bar)
        /\ UNCHANGED <<kind, history, gen, prices, lastClosed>>
    BY DEF LoadBar, config, priceVars
  <1>2. /\ RingShape /\ gen.current = None /\ at \in Nat /\ prices = <<>>
        /\ history \in Histories
    BY <1>1 DEF PriceInv, GenShape, Priced
  <1>3. /\ bar \in BarTypes /\ bar.ts > 0
        /\ at' = Len(history) => bar.ts < FromTs /\ Aligned(bar.ts)
    <2>1. /\ history \in Seq(BarTypes) /\ at + 1 \in 1..Len(history)
          /\ history # <<>>
      BY <1>1, <1>2, HistoryAssumption
    <2>2. at' = Len(history) => bar = Last(history)
      BY <1>1 DEF Last
    <2>3. Last(history).ts < FromTs /\ Aligned(Last(history).ts)
      BY <1>2, <2>1, HistoryAssumption DEF Aligned
    <2> HIDE DEF bar
    <2>4. bar \in BarTypes /\ bar.ts > 0
      BY <1>2, <2>1, HistoryAssumption DEF bar
    <2> QED
      BY <2>2, <2>3, <2>4
  <1> HIDE DEF bar
  <1>4. ring = [ring EXCEPT !.cells = ring.cells]
    BY <1>2 DEF RingShape
  <1>5. /\ ring.cells \in [0..(Depth - 1) -> BarTypes] /\ DatedOnwards
        /\ gen.lastTs \in Nat
    BY DEF CloseInv, Dated
  <1>6. bar.ts > 0
    BY <1>3
  <1>7. DatedOnwards' /\ ring'.cells \in [0..(Depth - 1) -> BarTypes]
    BY <1>1, <1>2, <1>3, <1>4, <1>5, <1>6, WriteDatedOnwards
  <1>8. (Bars(ring))'[ring'.size] = bar
    <2> DEFINE c == ring.cells
    <2>1. /\ c = [k \in 0..(Depth - 1) |-> c[k]]
          /\ \A k \in 0..(Depth - 1) : c[k].ts = ring.cells[k].ts
          /\ ring = [ring EXCEPT !.cells = c]
      BY <1>4, <1>5
    <2> HIDE DEF c
    <2>2. Written(c, bar)
      BY <1>1, <1>2, <2>1, WrittenBars
    <2> QED
      BY <2>2 DEF Written
  <1>9. Dated'
    BY <1>1, <1>2, <1>3, <1>5, <1>7, <1>8 DEF Dated, Loaded
  <1>10. Closed'
    BY <1>1, <1>2 DEF CloseInv, Closed
  <1> QED
    BY <1>1, <1>2, <1>9, <1>10 DEF CloseInv, OutInRange

LEMMA QuietClose ==
  ASSUME CloseInv, EndLoad \/ DropTick \/ EndUpdate PROVE CloseInv'
  <1>1. UNCHANGED <<kind, ring, gen, prices, lastClosed, out>>
    BY DEF EndLoad, DropTick, EndUpdate, Updating, streamVars, config, priceVars
  <1>2. at' \in Nat
    BY DEF EndLoad, DropTick, EndUpdate, Updating, CloseInv
  <1>3. loop' \in {"fill", "update"} => loop = "update"
    BY DEF EndLoad, DropTick, EndUpdate, Updating
  <1>4. OutInRange'
    BY <1>1, <1>3 DEF CloseInv, OutInRange
  <1>5. Loaded
    BY DEF EndLoad, DropTick, EndUpdate, Updating, Loaded
  <1> QED
    BY <1>1, <1>2, <1>4, <1>5, SameCloseStep

LEMMA UpdatingTick ==
  ASSUME TimeInv, Typed, CloseInv, Updating
  PROVE  /\ Tick \in Ticks /\ Tick.ts \in Nat /\ FromTs <= Tick.ts
         /\ at' \in Nat /\ OutInRange'
  <1>1. out \in Seq(Ticks) /\ at \in Nat /\ at < Len(out) /\ loop = "update"
    BY DEF Typed, CloseInv, Updating
  <1>2. at + 1 \in 1..Len(out)
    BY <1>1
  <1>3. Tick \in Ticks /\ FromTs <= Tick.ts
    BY <1>1, <1>2 DEF Tick, CloseInv, OutInRange
  <1>4. at' \in Nat /\ out' = out
    BY <1>1 DEF Updating, streamVars
  <1>5. OutInRange'
    BY <1>1, <1>4 DEF CloseInv, OutInRange
  <1> QED
    BY <1>3, <1>4, <1>5 DEF Ticks

LEMMA ExtendBarClose ==
  ASSUME TimeInv, Typed, PriceInv, PriceInv', CloseInv, ExtendBar PROVE CloseInv'
  <1> DEFINE bar == Extended(Current, Tick)
             c == [ring.cells EXCEPT ![gen.current] = bar]
  <1>1. /\ gen.current # None /\ Tick.ts > gen.lastTs
        /\ UNCHANGED <<kind, prices, lastClosed>>
        /\ gen' = [gen EXCEPT !.lastTs = Tick.ts]
        /\ ring' = [ring EXCEPT !.cells = c]
    BY DEF ExtendBar, Updating, config, priceVars
  <1>2. RingShape /\ RingShape' /\ GenShape
    BY DEF PriceInv
  <1>3. Tick \in Ticks /\ Tick.ts \in Nat /\ at' \in Nat /\ OutInRange'
    BY UpdatingTick DEF ExtendBar
  <1>4. /\ ring.cells \in [0..(Depth - 1) -> BarTypes] /\ gen.current \in 0..(Depth - 1)
        /\ ring.cells[gen.current].ts <= gen.lastTs /\ gen.lastTs \in Nat
    BY <1>1, <1>2 DEF CloseInv, Dated, GenShape
  <1>5. Current \in BarTypes /\ Current = ring.cells[gen.current]
    BY <1>4 DEF Current
  <1>6. bar \in BarTypes /\ bar.ts = ring.cells[gen.current].ts
    BY <1>3, <1>5, ExtendedTypes
  <1> HIDE DEF bar
  <1>7. /\ c \in [0..(Depth - 1) -> BarTypes]
        /\ \A k \in 0..(Depth - 1) : c[k].ts = ring.cells[k].ts
    BY <1>4, <1>6
  <1> HIDE DEF c
  <1>8. ring'.cells = c /\ ring'.first = ring.first /\ ring'.size = ring.size
    BY <1>1, <1>2 DEF RingShape
  <1>9. \A i \in 1..ring.size : (Bars(ring))'[i].ts = Bars(ring)[i].ts
    BY <1>2, <1>7, <1>8, SameStamps
  <1>10. gen'.current = gen.current /\ gen'.lastTs = Tick.ts
    BY <1>1, <1>2 DEF GenShape
  <1>11. DatedOnwards'
    BY <1>8, <1>9 DEF CloseInv, Dated, DatedOnwards
  <1>12. ring'.cells[gen'.current].ts <= gen'.lastTs
    <2>1. ring.cells[gen.current].ts \in Nat
      BY <1>5 DEF BarTypes
    <2> QED
      BY <1>1, <1>3, <1>4, <1>7, <1>8, <1>10, <2>1
  <1>13. Dated'
    BY <1>1, <1>3, <1>7, <1>8, <1>10, <1>11, <1>12 DEF Dated
  <1>14. Closed'
    <2>1. CASE prices = <<>>
      BY <1>1, <2>1 DEF CloseInv, Closed
    <2>2. CASE prices # <<>>
      <3>1. /\ prices = [i \in 1..Depth |-> prices[i]]
            /\ ring.size >= Depth /\ Bars(ring)[1].ts > 0
            /\ lastClosed = prices[Depth].ts
            /\ lastClosed <= Bars(ring)[Depth].ts
        BY <2>2 DEF CloseInv, Closed, Enough
      <3>2. 1 \in 1..ring.size /\ Depth \in 1..ring.size
        BY <3>1, <1>2, RingBars, FeedAssumption
      <3>3. ring'.size >= Depth /\ (Bars(ring))'[1].ts > 0
        BY <1>8, <1>9, <3>1, <3>2
      <3>4. lastClosed <= (Bars(ring))'[Depth].ts
        BY <1>9, <3>1, <3>2
      <3> QED
        BY <1>1, <2>2, <3>1, <3>3, <3>4 DEF Closed, Enough
    <2> QED
      BY <2>1, <2>2
  <1> QED
    BY <1>1, <1>3, <1>13, <1>14 DEF CloseInv

(* A new bar is not before the last one.                                   *)
LEMMA NewBarAfter ==
  ASSUME TimeInv, Typed, PriceInv, CloseInv, OpenBar, ring.size > 0
  PROVE  Bars(ring)[ring.size].ts <= NewBar(Tick).ts
  <1> DEFINE b == Bars(ring)[ring.size]
  <1>1. /\ Tick \in Ticks /\ Tick.ts \in Nat /\ FromTs <= Tick.ts
        /\ Tick.ts > gen.lastTs /\ gen.lastTs \in Nat
        /\ gen.current # None => Closes(Current, Tick)
    BY UpdatingTick DEF OpenBar, CloseInv, Dated
  <1>2. RingShape /\ GenShape /\ ring.cells \in [0..(Depth - 1) -> BarTypes]
    BY DEF PriceInv, CloseInv, Dated
  <1>3. b \in BarTypes /\ b.ts \in Nat
    <2>1. ring.size \in 1..ring.size
      BY <1>2, RingBars
    <2> QED
      BY <1>2, <2>1, BarsTyped
  <1>4. NewBar(Tick).ts = IF kind = "timeframe" THEN BaseTime(Tick.ts) ELSE Tick.ts
    BY <1>1, NewBarTypes
  <1>5. /\ BaseTime(Tick.ts) \in Nat /\ Tick.ts < BaseTime(Tick.ts) + Timeframe
        /\ Timeframe \in Nat
    BY <1>1, BaseTimeBounds, FeedAssumption
  <1>6. CASE gen.current = None
    <2>1. b.ts < FromTs /\ Aligned(b.ts)
      BY <1>6 DEF CloseInv, Dated, Loaded, OpenBar, Updating
    <2>2. b.ts <= Tick.ts
      BY <1>1, <1>3, <2>1, StreamAssumption
    <2>3. kind = "timeframe" => b.ts <= BaseTime(Tick.ts)
      BY <1>1, <1>3, <2>1, <2>2, AlignedBefore DEF Aligned, CloseInv
    <2> QED
      BY <1>4, <2>2, <2>3
  <1>7. CASE gen.current # None
    <2>1. b = ring.cells[gen.current] /\ b.ts <= gen.lastTs /\ b = Current
      BY <1>2, <1>7, LastBar DEF CloseInv, Dated, Current
    <2>2. kind = "timeframe" => Tick.ts >= b.ts + Timeframe
      BY <1>1, <1>7, <2>1 DEF Closes
    <2> HIDE DEF b
    <2>3. kind = "timeframe" => b.ts <= BaseTime(Tick.ts)
      BY <1>1, <1>3, <1>5, <2>2
    <2>4. b.ts <= Tick.ts
      BY <1>1, <1>3, <2>1
    <2> QED
      BY <1>4, <2>3, <2>4 DEF b
  <1> QED
    BY <1>6, <1>7

LEMMA OpenBarClose ==
  ASSUME TimeInv, Typed, PriceInv, PriceInv', CloseInv, OpenBar PROVE CloseInv'
  <1> DEFINE bar == NewBar(Tick)
             c == Ended(ring.cells, gen.current)
             r == [ring EXCEPT !.cells = c]
  <1>1. /\ UNCHANGED <<kind, prices, lastClosed>>
        /\ gen' = [current |-> ring.last, lastTs |-> Tick.ts]
        /\ ring' = WriteElt(r, bar)
    BY DEF OpenBar, Updating, config, priceVars
  <1>2. /\ RingShape /\ RingShape' /\ GenShape
        /\ ring.cells \in [0..(Depth - 1) -> BarTypes] /\ DatedOnwards
    BY DEF PriceInv, CloseInv, Dated
  <1>3. Tick \in Ticks /\ Tick.ts \in Nat /\ at' \in Nat /\ OutInRange'
    BY UpdatingTick DEF OpenBar
  <1>4. bar \in BarTypes /\ bar.ts \in Nat /\ bar.ts <= Tick.ts
    BY <1>3, NewBarTypes
  <1>5. ring.size > 0 => Bars(ring)[ring.size].ts <= bar.ts
    BY NewBarAfter
  <1>6. /\ c \in [0..(Depth - 1) -> BarTypes]
        /\ \A k \in 0..(Depth - 1) : c[k].ts = ring.cells[k].ts
    BY <1>2, EndedTypes
  <1> HIDE DEF bar, c
  <1>7. \A i \in 1..ring.size : Bars(ring)[i].ts > 0 => bar.ts > 0
    <2>1. SUFFICES ASSUME NEW i \in 1..ring.size, Bars(ring)[i].ts > 0 PROVE bar.ts > 0
      OBVIOUS
    <2>2. ring.size \in 1..ring.size /\ i <= ring.size
      BY <1>2, RingBars
    <2>3. Bars(ring)[ring.size].ts > 0 /\ Bars(ring)[ring.size].ts \in Nat
      BY <1>2, <2>1, <2>2, BarsTyped DEF DatedOnwards
    <2>4. Bars(ring)[ring.size].ts <= bar.ts
      BY <1>2, <1>5, <2>2, RingBars
    <2> QED
      BY <1>4, <2>3, <2>4
  <1>8. DatedOnwards' /\ ring'.cells \in [0..(Depth - 1) -> BarTypes]
    BY <1>1, <1>2, <1>4, <1>6, <1>7, WriteDatedOnwards
  <1>9. Written(c, bar)
    <2>1. c = [k \in 0..(Depth - 1) |-> c[k]]
      BY <1>6
    <2> QED
      BY <1>1, <1>2, <1>6, <2>1, WrittenBars
  <1>10. gen'.current = ring.last /\ gen'.lastTs = Tick.ts
    BY <1>1
  <1>11. ring.last \in 0..(Depth - 1) /\ ring.last # None
    BY <1>2, FeedAssumption DEF RingShape, None
  <1>12. ring'.cells[gen'.current] = bar
    BY <1>6, <1>9, <1>10, <1>11 DEF Written
  <1>13. Dated'
    BY <1>3, <1>4, <1>8, <1>10, <1>11, <1>12 DEF Dated
  <1>14. Closed'
    <2>1. CASE prices = <<>>
      BY <1>1, <2>1 DEF CloseInv, Closed
    <2>2. CASE prices # <<>>
      <3>1. /\ prices = [i \in 1..Depth |-> prices[i]]
            /\ ring.size >= Depth /\ Bars(ring)[1].ts > 0
            /\ lastClosed = prices[Depth].ts
            /\ lastClosed <= Bars(ring)[Depth].ts
        BY <2>2 DEF CloseInv, Closed, Enough
      <3>2. Depth \in Nat /\ Depth > 1 /\ ring.size = Depth
        BY <1>2, <3>1, FeedAssumption DEF RingShape
      <3>3. 1 \in 1..ring.size /\ 2 \in 1..ring.size /\ ring.size \in 1..ring.size
        BY <3>2
      <3>4. ring'.size = Depth
        BY <1>9, <3>2 DEF Written
      <3>5. (Bars(ring))'[Depth] = bar
        BY <1>9, <3>4 DEF Written
      <3>6. (Bars(ring))'[1].ts > 0
        <4>1. 1 \in 1..(ring'.size - 1) /\ 1 + (ring.size + 1 - ring'.size) = 2
          BY <3>2, <3>4
        <4>2. (Bars(ring))'[1].ts = Bars(ring)[2].ts
          BY <1>9, <4>1 DEF Written
        <4> QED
          BY <1>2, <3>1, <3>3, <4>2 DEF DatedOnwards
      <3>7. lastClosed <= bar.ts
        <4>1. Bars(ring)[Depth].ts <= bar.ts /\ Bars(ring)[Depth].ts \in Nat
          BY <1>2, <1>5, <3>2, <3>3, BarsTyped
        <4>2. lastClosed \in Nat
          BY DEF CloseInv
        <4> QED
          BY <1>4, <3>1, <4>1, <4>2
      <3> QED
        BY <1>1, <2>2, <3>1, <3>2, <3>4, <3>5, <3>6, <3>7 DEF Closed, Enough
    <2> QED
      BY <2>1, <2>2
  <1> QED
    BY <1>1, <1>3, <1>13, <1>14 DEF CloseInv

LEMMA EnoughComputes ==
  ASSUME PriceInv, Process, Enough
  PROVE  Consolidate(Bars(ring)[Depth].ts, Bars(ring)[Depth].ts > lastClosed)
  <1>1. loop = "process" /\ ComputeMinimalist
    BY DEF Process
  <1>2. /\ RingShape /\ GenShape /\ Depth \in Nat /\ Depth > 1
        /\ Len(Bars(ring)) = ring.size
    BY RingBars, FeedAssumption DEF PriceInv
  <1>3. ring.size = Depth /\ ring.size > 1
    BY <1>2 DEF Enough, RingShape
  <1>4. CASE numLastBars # 1
    <2>1. Consolidate(Bars(ring)[Depth].ts,
                      ring.size > 1 /\ Bars(ring)[Depth].ts > lastClosed)
      BY <1>1, <1>2, <1>3, <1>4 DEF ComputeMinimalist, Compute
    <2>2. (ring.size > 1 /\ Bars(ring)[Depth].ts > lastClosed)
            = (Bars(ring)[Depth].ts > lastClosed)
      BY <1>3
    <2> QED
      BY <2>1, <2>2
  <1>5. CASE numLastBars = 1
    <2>1. gen.current # None
      <3>1. SUFFICES ASSUME gen.current = None PROVE FALSE
        OBVIOUS
      <3>2. numLastBars \in {0, Len(history)} /\ ring.size <= Len(history)
        BY <1>1, <1>2, <3>1 DEF GenShape
      <3> QED
        <4>1. Len(history) = 1
          BY <1>5, <3>2
        <4>2. ring.size <= 1
          BY <3>2, <4>1
        <4> QED
          BY <1>2, <1>3, <4>2
    <2>2. Bars(ring)[Depth] = ring.cells[gen.current]
      BY <1>2, <1>3, <2>1, LastBar
    <2>3. LET bar == ring.cells[gen.current] IN Consolidate(bar.ts, bar.ts > lastClosed)
      BY <1>1, <1>5, <2>1 DEF ComputeMinimalist, ComputeLast
    <2> QED
      BY <2>2, <2>3
  <1> QED
    BY <1>4, <1>5

ConsolidatesOnce ==
  prices' # <<>>
    => (consolidated' <=> (prices = <<>> \/ Last(prices').ts # Last(prices).ts))

LEMMA ProcessClose ==
  ASSUME PriceInv, PriceInv', CloseInv, Process
  PROVE  CloseInv' /\ ConsolidatesOnce
  <1>1. /\ loop = "process" /\ loop' = "top" /\ at' = at
        /\ UNCHANGED <<kind, gen, ring>>
        /\ Enough => numLastBars' = 0
        /\ ~Enough => UNCHANGED priceVars
    BY DEF Process, config
  <1>2. Dated' /\ OutInRange'
    BY <1>1 DEF CloseInv, Dated, DatedOnwards, OutInRange, Loaded
  <1>3. CASE ~Enough
    <2>1. prices' = prices /\ lastClosed' = lastClosed
      BY <1>1, <1>3 DEF priceVars
    <2>2. prices = <<>>
      BY <1>3 DEF CloseInv, Closed
    <2>3. Closed'
      BY <2>1, <2>2 DEF CloseInv, Closed
    <2> QED
      BY <1>1, <1>2, <2>1, <2>2, <2>3 DEF CloseInv, ConsolidatesOnce
  <1>4. CASE Enough
    <2> DEFINE last == Bars(ring)[Depth]
    <2>1. Consolidate(last.ts, last.ts > lastClosed)
      BY <1>4, EnoughComputes
    <2>2. /\ RingShape /\ Depth \in Nat /\ Depth > 1
          /\ ring.cells \in [0..(Depth - 1) -> BarTypes] /\ lastClosed \in Nat
          /\ DatedOnwards
      BY FeedAssumption DEF PriceInv, CloseInv, Dated
    <2>3. /\ ring.size = Depth /\ DOMAIN Bars(ring) = 1..Depth
          /\ 1 \in 1..ring.size /\ Depth \in 1..ring.size
      BY <1>4, <2>2, RingBars DEF Enough, RingShape
    <2>4. last.ts \in Nat /\ last.ts > 0
      <3>1. Bars(ring)[1].ts > 0
        BY <1>4 DEF Enough
      <3> QED
        BY <2>2, <2>3, <3>1, BarsTyped DEF DatedOnwards
    <2>5. prices' = [i \in 1..Depth |-> PriceOf(Bars(ring)[i])]
      <3>1. AllPriced'
        BY <1>1, <1>4 DEF PriceInv, Priced
      <3>2. prices' = [i \in DOMAIN Bars(ring) |-> PriceOf(Bars(ring)[i])]
        BY <1>1, <3>1 DEF AllPriced
      <3> QED
        BY <2>3, <3>2
    <2>6. /\ Len(prices') = Depth /\ prices' # <<>>
          /\ prices'[Depth] = PriceOf(last)
          /\ prices' = [i \in 1..Depth |-> prices'[i]]
      BY <2>2, <2>5
    <2>7. PriceOf(last).ts = last.ts
      BY DEF PriceOf
    <2>8. Last(prices').ts = last.ts /\ prices'[Depth].ts = last.ts
      BY <2>6, <2>7 DEF Last
    <2>9. (Bars(ring))'[Depth].ts = last.ts /\ Enough'
      BY <1>1, <1>4 DEF Enough
    <2>10. prices = <<>> => lastClosed = 0
      BY DEF CloseInv, Closed
    <2>11. prices # <<>> => Last(prices).ts = lastClosed /\ lastClosed <= last.ts
      <3>1. SUFFICES ASSUME prices # <<>>
                     PROVE  Last(prices).ts = lastClosed /\ lastClosed <= last.ts
        OBVIOUS
      <3>2. /\ prices = [i \in 1..Depth |-> prices[i]]
            /\ lastClosed = prices[Depth].ts /\ lastClosed <= last.ts
        BY <3>1 DEF CloseInv, Closed
      <3>3. Len(prices) = Depth
        BY <2>2, <3>2
      <3> QED
        BY <3>2, <3>3 DEF Last
    <2> HIDE DEF last
    <2>12. CASE last.ts > lastClosed
      <3>1. consolidated' = TRUE /\ lastClosed' = last.ts
        BY <2>1, <2>12 DEF Consolidate
      <3>2. prices = <<>> \/ Last(prices').ts # Last(prices).ts
        BY <2>2, <2>4, <2>8, <2>11, <2>12
      <3>3. last.ts <= last.ts
        BY <2>4
      <3>4. Closed'
        BY <2>6, <2>8, <2>9, <3>1, <3>3 DEF Closed
      <3> QED
        BY <1>1, <1>2, <2>4, <3>1, <3>2, <3>4 DEF CloseInv, ConsolidatesOnce
    <2>13. CASE ~(last.ts > lastClosed)
      <3>1. consolidated' = FALSE /\ lastClosed' = lastClosed
        <4>1. (last.ts > lastClosed) = FALSE
          BY <2>13
        <4> QED
          BY <2>1, <4>1 DEF Consolidate
      <3>2. prices # <<>>
        BY <2>4, <2>10, <2>13
      <3>3. lastClosed = last.ts
        BY <2>2, <2>4, <2>11, <2>13, <3>2
      <3>4. Last(prices').ts = Last(prices).ts
        BY <2>8, <2>11, <3>2, <3>3
      <3>5. last.ts <= last.ts
        BY <2>4
      <3>6. Closed'
        BY <2>6, <2>8, <2>9, <3>1, <3>3, <3>5 DEF Closed
      <3> QED
        BY <1>1, <1>2, <2>4, <3>1, <3>2, <3>3, <3>4, <3>6 DEF CloseInv, ConsolidatesOnce
    <2> QED
      BY <2>12, <2>13
  <1> QED
    BY <1>3, <1>4

LEMMA CloseStep ==
  ASSUME TimeInv, Typed, PriceInv, PriceInv', CloseInv, [Next]_vars
  PROVE  CloseInv'
  <1>1. CASE UNCHANGED vars
    <2>1. UNCHANGED <<kind, history, ring, gen, prices, lastClosed, loop, out, at>>
      BY <1>1 DEF vars, streamVars, config, barVars, priceVars
    <2>2. OutInRange' /\ (Loaded' => Loaded)
      BY <2>1 DEF CloseInv, OutInRange, Loaded
    <2> QED
      BY <2>1, <2>2, SameCloseStep DEF CloseInv
  <1> QED
    BY <1>1, FillClose, LoadBarClose, QuietClose, ExtendBarClose, OpenBarClose,
       ProcessClose DEF Next

(* What the stream hands over are ticks, whatever the files.               *)
LEMMA BufferizeTyped ==
  ASSUME StreamTypes, Bufferize PROVE buffer' \in Seq(Ticks)
  <1>t. cur \in Int /\ file \in [month : Int, read : Nat] /\ StreamTypes
    BY DEF StreamTypes
  <1>1. PICK f \in [month : Int, read : Nat] :
          f = IF file = NoFile THEN Opened(Month(cur)) ELSE file
    BY <1>t, OpenedTypes, MonthTypes
  <1>2. f = NoFile \/ Format(f.month) # "none"
    BY <1>1, <1>t, OpenedTypes, MonthTypes DEF StreamTypes
  <1>3. CASE f = NoFile
    <2>1. buffer' = <<>>
      BY <1>1, <1>3 DEF Bufferize
    <2> QED
      BY <2>1
  <1>4. CASE f # NoFile
    <2>1. ReadFile(f) /\ Block(f) \in Seq(Ticks)
      BY <1>t, <1>1, <1>2, <1>4, BlockTypes DEF Bufferize
    <2>2. CASE Format(f.month) # "binary"
      BY <2>1, <2>2, ReadableTypes DEF ReadFile
    <2>3. CASE Format(f.month) = "binary"
      <3>1. PICK n \in 0..Len(Block(f)) : buffer' = SubSeq(Block(f), 1, n)
        BY <2>1, <2>3 DEF ReadFile
      <3> DEFINE block == Block(f)
      <3>2. block \in Seq(Ticks) /\ n \in 0..Len(block) /\ buffer' = SubSeq(block, 1, n)
        BY <2>1, <3>1
      <3> HIDE DEF block
      <3>3. \A i \in 1..n : block[i] \in Ticks
        BY <3>2
      <3> QED
        BY <3>2, <3>3, SubSeqProperties
    <2> QED
      BY <2>2, <2>3
  <1> QED
    BY <1>3, <1>4

LEMMA TypedStep == ASSUME TimeInv, Typed, [Next]_vars PROVE Typed'
  <1>1. CASE Fill
    BY <1>1 DEF Fill, FillNext, Typed
  <1>2. CASE KeepFilling
    <2>1. CASE Refill
      <3>1. buffer' = <<>> \/ Bufferize
        BY <2>1 DEF Refill
      <3>2. buffer' \in Seq(Ticks)
        <4>1. CASE buffer' = <<>>
          BY <4>1
        <4> QED
          BY <3>1, <4>1, BufferizeTyped DEF TimeInv
      <3>3. out' \in Seq(Ticks)
        <4>1. out' = out \/ (buffer' # <<>> /\ out' = Append(out, buffer'[1]))
          BY <2>1, LooksAtOne DEF Refill
        <4>2. out \in Seq(Ticks)
          BY DEF Typed
        <4>3. CASE buffer' # <<>> /\ out' = Append(out, buffer'[1])
          <5>1. Len(buffer') \in Nat /\ Len(buffer') > 0
            BY <3>2, <4>3
          <5>2. buffer'[1] \in Ticks
            BY <3>2, <5>1
          <5> QED
            BY <4>2, <4>3, <5>2
        <4> QED
          BY <4>1, <4>2, <4>3
      <3> QED
        BY <3>2, <3>3 DEF Typed
    <2>2. CASE Take
      <3>1. ofs \in Nat /\ ofs < Len(buffer) /\ buffer \in Seq(Ticks) /\ out \in Seq(Ticks)
        BY <2>2 DEF Take, TimeInv, StreamTypes, Typed
      <3>2. Upcoming \in Ticks
        BY <3>1 DEF Upcoming
      <3> QED
        BY <2>2, <3>1, <3>2 DEF Take, Typed
    <2>3. CASE Skip \/ ReachMax
      BY <2>3 DEF Skip, ReachMax, Typed
    <2> QED
      BY <1>2, <2>1, <2>2, <2>3 DEF KeepFilling, FillStep
  <1>3. CASE EndFill
    BY <1>3 DEF EndFill, Returned, Typed
  <1>4. CASE LoadBar \/ EndLoad \/ DropTick \/ ExtendBar \/ OpenBar \/ EndUpdate \/ Process
    BY <1>4 DEF LoadBar, EndLoad, DropTick, ExtendBar, OpenBar, EndUpdate, Process,
                Updating, streamVars, Typed
  <1>5. CASE UNCHANGED vars
    BY <1>5 DEF vars, streamVars, Typed
  <1> QED
    BY <1>1, <1>2, <1>3, <1>4, <1>5 DEF Next

(* An analyser set to compute at close does so once for each bar, at the   *)
(* first process that sees it, and never again (price.cpp:110,             *)
(* price.cpp:225): for every content of the files and every history.       *)
THEOREM ComputedOncePerBar == Spec => AtCloseOncePerBar
  <1> DEFINE Inv == TimeInv /\ Typed /\ PriceInv /\ CloseInv
  <1>1. Init => Inv
    <2>1. Init => Typed
      BY DEF Init, StreamInit, Typed
    <2> QED
      BY <2>1, TimeInit, PriceInit, CloseInit
  <1>2. Inv /\ [Next]_vars => Inv'
    <2>1. SUFFICES ASSUME Inv, [Next]_vars PROVE Inv'
      OBVIOUS
    <2>2. PriceInv'
      BY <2>1, PriceStep
    <2>3. Typed'
      BY <2>1, TypedStep
    <2> QED
      BY <2>1, <2>2, <2>3, TimeStep, CloseStep
  <1>3. Inv /\ [Next]_vars
          => [loop = "process" /\ prices' # <<>>
                => (consolidated' <=> (prices = <<>> \/ Last(prices').ts # Last(prices).ts))]_vars
    <2>1. SUFFICES ASSUME Inv, Next, loop = "process", prices' # <<>>
                   PROVE  consolidated'
                            <=> (prices = <<>> \/ Last(prices').ts # Last(prices).ts)
      BY DEF Next
    <2>2. Process
      BY <2>1 DEF Next, LoadBar, EndLoad, Fill, KeepFilling, EndFill, DropTick,
                  ExtendBar, OpenBar, EndUpdate, Updating
    <2>3. PriceInv'
      BY <2>1, PriceStep
    <2>4. ConsolidatesOnce
      BY <2>1, <2>2, <2>3, ProcessClose
    <2> QED
      BY <2>1, <2>4 DEF ConsolidatesOnce
  <1> HIDE DEF Inv
  <1> QED
    BY <1>1, <1>2, <1>3, PTL DEF Spec, AtCloseOncePerBar

-----------------------------------------------------------------------------
(* The calls of fillNext() hand over every tick once, in order.            *)

Sooner(p, q) == p[1] < q[1] \/ (p[1] = q[1] /\ p[2] < q[2])

(* What FillIsExact asks of the disk.                                      *)
LinesInOrder == \A p, q \in Lines : Upto(p, q) => Line(p).ts <= Line(q).ts
NoneMissing == \A m \in MonthsAsked : Format(m) # "none"
Regular == LinesInOrder /\ NoneMissing

(* s gives n lines, each sooner than the next.                             *)
Listed(s, n) ==
  /\ n \in Nat /\ s \in [1..n -> Lines]
  /\ \A i, j \in 1..n : i < j => Sooner(s[i], s[j])

(* The first d lines of s were skipped, the next ones up to c are g, and   *)
(* are due by the time t.                                                  *)
Handed(s, c, d, g, t) ==
  /\ d \in 0..c /\ \A j \in 1..d : Line(s[j]).ts < FromTs
  /\ g \in Seq(Ticks) /\ Len(g) = c - d /\ \A j \in 1..(c - d) : g[j] = Line(s[d + j])
  /\ \A j \in (d + 1)..c : FromTs <= Line(s[j]).ts /\ Line(s[j]).ts <= ToTs /\ Line(s[j]).ts <= t

(* No line of the range up to t is missing from the first c lines of s.    *)
Through(s, c, t) ==
  \A p \in Lines : Line(p).ts <= ToTs /\ Line(p).ts <= t => \E j \in 1..c : s[j] = p

(* Where the stream is in its files.                                       *)
HasRead(p) == p[1] < Month(cur) \/ (p[1] = Month(cur) /\ p[2] <= file.read)

(* s gives the lines read so far, the last ones of which are those left in *)
(* the buffer.                                                             *)
Ahead(s, c, n) ==
  /\ ofs \in 0..Len(buffer) /\ n - c = Len(buffer) - ofs
  /\ \A k \in 1..(n - c) : buffer[ofs + k] = Line(s[c + k])
  /\ \A p \in Lines : HasRead(p) <=> \E j \in 1..n : s[j] = p

(* The month being read is one of the range, and a sound binary file goes  *)
(* on where the last one stopped.                                          *)
Reading ==
  /\ cur \in Nat /\ cur < ToTs /\ Month(cur) \in MonthsAsked
  /\ file # NoFile => file.month = Month(cur)
  /\ file.read \in 0..Len(store[Month(cur)].records)
  /\ \A p \in Lines : HasRead(p) \/ lastTs <= Line(p).ts

(* What the calls gave, and up to when.                                    *)
Given == IF loop = "fill" THEN delivered \o out ELSE delivered
Until == IF loop = "fill" THEN curTs ELSE LastAsked
(* One call at least is over.                                              *)
Started == curTs > FromTs \/ loop \in {"update", "process"}

(* What was given is the first c lines of s, less the d before the range;  *)
(* the rest is in the buffer, unless the stream is over.                   *)
Exactly(s, n, c, d) ==
  /\ Listed(s, n) /\ c \in 0..n /\ Handed(s, c, d, Given, Until)
  /\ IF finished THEN Through(s, c, ToTs) ELSE Ahead(s, c, n)
  /\ loop # "fill" /\ Started => Through(s, c, Until)

(* On a regular disk there is always such a list.                          *)
FillInv ==
  /\ curTs \in Nat /\ delivered \in Seq(Ticks) /\ finished \in BOOLEAN
  /\ loop = "fill" => asked = curTs
  /\ Regular => /\ ~finished => Reading
                /\ \E s, n, c, d : Exactly(s, n, c, d)

-----------------------------------------------------------------------------
(* Months and the times in them.                                           *)
LEMMA MonthOf ==
  ASSUME NEW t \in Nat
  PROVE  /\ Month(t) \in Nat /\ NextMonth(t) \in Nat
         /\ Month(t) * MonthLength <= t /\ t < NextMonth(t)
         /\ NextMonth(t) = (Month(t) + 1) * MonthLength
  <1> DEFINE q == t \div MonthLength
             r == t % MonthLength
  <1>1. q \in Nat /\ r \in Nat /\ t = MonthLength * q + r /\ r < MonthLength
    BY StreamAssumption
  <1>2. MonthLength \in Nat
    BY StreamAssumption
  <1> HIDE DEF q, r
  <1>3. /\ q * MonthLength = MonthLength * q /\ q * MonthLength \in Nat
        /\ (q + 1) * MonthLength = q * MonthLength + MonthLength
    BY <1>1, <1>2
  <1>4. Month(t) = q
    BY DEF Month, q
  <1> DEFINE x == q * MonthLength
             y == (q + 1) * MonthLength
  <1>5. x \in Nat /\ y = x + MonthLength /\ t = x + r
    BY <1>1, <1>3
  <1>6. NextMonth(t) = y
    BY <1>4 DEF NextMonth
  <1> HIDE DEF x, y
  <1>7. y \in Nat /\ x <= t /\ t < y
    BY <1>1, <1>2, <1>5
  <1> QED
    BY <1>1, <1>4, <1>6, <1>7 DEF x, y

LEMMA MonthBetween ==
  ASSUME NEW t \in Nat, NEW q \in Nat, q * MonthLength <= t, t < (q + 1) * MonthLength
  PROVE  Month(t) = q
  <1> DEFINE a == Month(t)
  <1>1. a \in Nat /\ a * MonthLength <= t /\ t < (a + 1) * MonthLength /\ MonthLength \in Nat
    BY MonthOf, StreamAssumption
  <1> HIDE DEF a
  <1>2. \A x, y \in Nat : x <= y => x * MonthLength <= y * MonthLength
    <2> TAKE x, y \in Nat
    <2>1. MonthLength * x = x * MonthLength /\ MonthLength * y = y * MonthLength
      BY <1>1
    <2>2. x <= y => MonthLength * x <= MonthLength * y
      BY <1>1, TimesMonotone
    <2> QED
      BY <2>1, <2>2
  <1>3. \A x \in Nat : x * MonthLength \in Nat /\ (x + 1) \in Nat
    BY <1>1
  <1>4. ASSUME a + 1 <= q PROVE FALSE
    <2> DEFINE u == (a + 1) * MonthLength
               v == q * MonthLength
    <2>1. u \in Nat /\ v \in Nat /\ u <= v /\ v <= t /\ t < u
      BY <1>1, <1>2, <1>3, <1>4
    <2> HIDE DEF u, v
    <2> QED
      BY <2>1
  <1>5. ASSUME q + 1 <= a PROVE FALSE
    <2> DEFINE u == (q + 1) * MonthLength
               v == a * MonthLength
    <2>1. u \in Nat /\ v \in Nat /\ u <= v /\ v <= t /\ t < u
      BY <1>1, <1>2, <1>3, <1>5
    <2> HIDE DEF u, v
    <2> QED
      BY <2>1
  <1>6. a = q
    BY <1>1, <1>4, <1>5
  <1> QED
    BY <1>6 DEF a

LEMMA MonthMonotone ==
  ASSUME NEW t \in Nat, NEW w \in Nat, t <= w
  PROVE  Month(t) <= Month(w)
  <1> DEFINE a == Month(t)
             b == Month(w)
  <1>1. /\ a \in Nat /\ b \in Nat /\ a * MonthLength <= t /\ w < (b + 1) * MonthLength
        /\ MonthLength \in Nat
    BY MonthOf, StreamAssumption
  <1> HIDE DEF a, b
  <1>2. ASSUME b + 1 <= a PROVE FALSE
    <2> DEFINE u == (b + 1) * MonthLength
               v == a * MonthLength
    <2>1. MonthLength * (b + 1) <= MonthLength * a
      BY <1>1, <1>2, TimesMonotone
    <2>2. MonthLength * (b + 1) = u /\ MonthLength * a = v /\ u \in Nat /\ v \in Nat
      BY <1>1
    <2>3. u <= v /\ v <= t /\ w < u
      BY <1>1, <2>1, <2>2
    <2> HIDE DEF u, v
    <2> QED
      BY <2>2, <2>3
  <1>3. a <= b
    BY <1>1, <1>2
  <1> QED
    BY <1>3 DEF a, b

LEMMA MonthsTyped ==
  ASSUME NEW m \in MonthsAsked
  PROVE  m \in Int
  <1>1. FromTs \in Int /\ ToTs \in Int
    BY StreamAssumption
  <1>2. Month(FromTs) \in Int /\ Month(ToTs) \in Int
    BY <1>1, MonthTypes
  <1> QED
    BY <1>2 DEF MonthsAsked

(* What a line of the range is.                                            *)
LEMMA LinesTyped ==
  ASSUME StreamTypes, NEW p \in Lines
  PROVE  /\ p = <<p[1], p[2]>> /\ p[1] \in MonthsAsked /\ p[1] \in Int /\ p[2] \in Nat /\ p[2] > 0
         /\ p[1] \in DOMAIN store /\ p[2] \in 1..Len(store[p[1]].records)
         /\ store[p[1]].records \in Seq(Ticks)
         /\ Line(p) \in Ticks /\ Line(p).ts \in Nat
  <1>1. PICK m \in MonthsAsked \cap DOMAIN store : p \in {m} \X DOMAIN store[m].records
    BY DEF Lines
  <1>2. store[m].records \in Seq(Ticks)
    BY <1>1, StreamAssumption DEF StreamTypes, Ticks
  <1>3. p = <<m, p[2]>> /\ p[2] \in DOMAIN store[m].records /\ p[1] = m
    BY <1>1
  <1>4. DOMAIN store[m].records = 1..Len(store[m].records) /\ Len(store[m].records) \in Nat
    BY <1>2
  <1>5. m \in Int
    BY <1>1, MonthsTyped
  <1>6. Line(p) \in Ticks
    BY <1>2, <1>3, <1>4 DEF Line
  <1> QED
    BY <1>1, <1>2, <1>3, <1>4, <1>5, <1>6 DEF Ticks

LEMMA LineOf ==
  ASSUME StreamTypes, NEW m \in MonthsAsked \cap DOMAIN store, NEW i \in 1..Len(store[m].records)
  PROVE  /\ <<m, i>> \in Lines <=> (Format(m) = "text" => store[m].records[i] # Malformed)
         /\ Line(<<m, i>>) = store[m].records[i]
  <1>1. store[m].records \in Seq(Ticks)
    BY StreamAssumption DEF StreamTypes, Ticks
  <1>2. <<m, i>> \in {m} \X DOMAIN store[m].records
    BY <1>1
  <1>3. <<m, i>>[1] = m /\ <<m, i>>[2] = i
    OBVIOUS
  <1> QED
    BY <1>2, <1>3 DEF Lines, Line

(* The order of the lines.                                                 *)
LEMMA SoonerOrder ==
  ASSUME StreamTypes, NEW p \in Lines, NEW q \in Lines
  PROVE  /\ Upto(p, q) <=> p = q \/ Sooner(p, q)
         /\ Sooner(p, q) => p # q /\ ~Upto(q, p)
         /\ ~Upto(p, q) => Sooner(q, p)
  <1>1. /\ p = <<p[1], p[2]>> /\ q = <<q[1], q[2]>>
        /\ p[1] \in Int /\ p[2] \in Nat /\ q[1] \in Int /\ q[2] \in Nat
    BY LinesTyped
  <1> QED
    BY <1>1 DEF Upto, Sooner

LEMMA ListedOrder ==
  ASSUME StreamTypes, NEW s, NEW n, Listed(s, n), NEW i \in 1..n, NEW j \in 1..n
  PROVE  /\ Upto(s[i], s[j]) <=> i <= j
         /\ s[i] = s[j] => i = j
  <1>1. n \in Nat /\ s[i] \in Lines /\ s[j] \in Lines
    BY DEF Listed
  <1>2. i < j => Sooner(s[i], s[j])
    BY DEF Listed
  <1>3. j < i => Sooner(s[j], s[i])
    BY DEF Listed
  <1>4. i \in Nat /\ j \in Nat
    BY <1>1
  <1>5. CASE i < j
    BY <1>1, <1>2, <1>4, <1>5, SoonerOrder
  <1>6. CASE j < i
    BY <1>1, <1>3, <1>4, <1>6, SoonerOrder
  <1>7. CASE i = j
    BY <1>1, <1>4, <1>7, SoonerOrder
  <1> QED
    BY <1>4, <1>5, <1>6, <1>7

(* Distinct things counted from 1 to n are n.                              *)
LEMMA CountedOnce ==
  ASSUME NEW n \in Nat, NEW f, \A i, j \in 1..n : f[i] = f[j] => i = j
  PROVE  Cardinality({f[j] : j \in 1..n}) = n
  <1> DEFINE T == {f[j] : j \in 1..n}
             g == [j \in 1..n |-> f[j]]
  <1>1. g \in Bijection(1..n, T)
    <2>1. g \in [1..n -> T] /\ \A i, j \in 1..n : g[i] = g[j] => i = j
      OBVIOUS
    <2>2. \A t \in T : \E j \in 1..n : g[j] = t
      OBVIOUS
    <2> HIDE DEF g, T
    <2> QED
      BY <2>1, <2>2 DEF Bijection, Injection, Surjection, IsInjective
  <1>2. ExistsBijection(1..n, T)
    BY <1>1 DEF ExistsBijection
  <1>3. IsFiniteSet(1..n) /\ Cardinality(1..n) = n
    BY FS_Interval
  <1> QED
    BY <1>2, <1>3, FS_Bijection

(* What was handed over is exactly what was due.                           *)
LEMMA HandedIsDue ==
  ASSUME StreamTypes, NEW s, NEW n, NEW c, NEW d, Listed(s, n), c \in 0..n,
         Handed(s, c, d, delivered, LastAsked), Through(s, c, LastAsked)
  PROVE  /\ Len(delivered) = Cardinality(Due)
         /\ \A p \in Due : delivered[Rank(p)] = Line(p)
  <1>1. /\ n \in Nat /\ c \in Nat /\ d \in Nat /\ d <= c /\ c <= n /\ c - d \in Nat
        /\ \A j \in 1..n : s[j] \in Lines
    BY DEF Listed, Handed
  <1> DEFINE f == [j \in 1..(c - d) |-> s[d + j]]
  <1>2. \A j \in 1..(c - d) : f[j] = s[d + j] /\ d + j \in 1..n /\ d + j \in (d + 1)..c
    BY <1>1
  <1> HIDE DEF f
  <1>3. \A i, j \in 1..(c - d) : (f[i] = f[j] => i = j) /\ (Upto(f[i], f[j]) <=> i <= j)
    <2> TAKE i, j \in 1..(c - d)
    <2>1. (s[d + i] = s[d + j] => d + i = d + j) /\ (Upto(s[d + i], s[d + j]) <=> d + i <= d + j)
      BY <1>2, ListedOrder
    <2> QED
      BY <1>1, <1>2, <2>1
  <1>4. Due = {f[j] : j \in 1..(c - d)}
    <2>1. ASSUME NEW j \in 1..(c - d) PROVE f[j] \in Due
      BY <1>1, <1>2 DEF Handed, Due
    <2>2. ASSUME NEW p \in Due PROVE \E j \in 1..(c - d) : p = f[j]
      <3>1. p \in Lines /\ FromTs <= Line(p).ts /\ Line(p).ts <= ToTs /\ Line(p).ts <= LastAsked
        BY DEF Due
      <3>2. PICK j \in 1..c : s[j] = p
        BY <3>1 DEF Through
      <3>3. j \notin 1..d
        <4>1. ASSUME j \in 1..d PROVE FALSE
          <5>1. Line(p).ts < FromTs
            BY <3>2, <4>1 DEF Handed
          <5>2. Line(p).ts \in Nat /\ FromTs \in Nat
            BY <3>1, LinesTyped, StreamAssumption
          <5> QED
            BY <3>1, <5>1, <5>2
        <4> QED
          BY <4>1
      <3>4. j - d \in 1..(c - d) /\ d + (j - d) = j
        BY <1>1, <3>3
      <3> QED
        BY <1>2, <3>2, <3>4
    <2> QED
      BY <2>1, <2>2
  <1>5. Cardinality(Due) = c - d
    <2>1. Cardinality({f[j] : j \in 1..(c - d)}) = c - d
      BY <1>1, <1>3, CountedOnce
    <2> QED
      BY <1>4, <2>1
  <1>6. ASSUME NEW p \in Due PROVE delivered[Rank(p)] = Line(p)
    <2>1. PICK k \in 1..(c - d) : p = f[k]
      BY <1>4
    <2>2. {q \in Due : Upto(q, p)} = {f[j] : j \in 1..k}
      <3>1. \A j \in 1..(c - d) : Upto(f[j], p) <=> j <= k
        BY <1>3, <2>1
      <3>2. \A j : j \in 1..k <=> j \in 1..(c - d) /\ j <= k
        BY <1>1, <2>1
      <3> QED
        BY <1>4, <3>1, <3>2
    <2>3. Cardinality({f[j] : j \in 1..k}) = k
      <3>1. k \in Nat /\ \A i \in 1..k : i \in 1..(c - d)
        BY <1>1, <2>1
      <3> QED
        BY <1>3, <3>1, CountedOnce
    <2>4. Rank(p) = k
      BY <2>2, <2>3 DEF Rank
    <2>5. delivered[k] = Line(s[d + k])
      BY <2>1 DEF Handed
    <2> QED
      BY <1>2, <2>1, <2>4, <2>5
  <1> QED
    BY <1>5, <1>6 DEF Handed

(* Extending the list, and what was handed over.                           *)
LEMMA ListedMore ==
  ASSUME StreamTypes, NEW s, NEW n, Listed(s, n),
         NEW k \in Nat, NEW u, \A j \in 1..k : u[j] \in Lines,
         \A i, j \in 1..k : i < j => Sooner(u[i], u[j]),
         \A i \in 1..n, j \in 1..k : Sooner(s[i], u[j])
  PROVE  \E e : /\ Listed(e, n + k)
                /\ \A i \in 1..n : e[i] = s[i]
                /\ \A j \in 1..k : e[n + j] = u[j]
  <1> DEFINE e == [i \in 1..(n + k) |-> IF i <= n THEN s[i] ELSE u[i - n]]
  <1>1. n \in Nat /\ n + k \in Nat /\ \A i \in 1..n : s[i] \in Lines
    BY DEF Listed
  <1>2. \A i \in 1..(n + k) : (i \in 1..n /\ e[i] = s[i])
                                \/ (i > n /\ i - n \in 1..k /\ e[i] = u[i - n])
    <2>1. \A i \in 1..(n + k) : (i \in 1..n /\ i <= n)
                                  \/ (i > n /\ ~(i <= n) /\ i - n \in 1..k)
      BY <1>1
    <2> QED
      BY <2>1
  <1>3. e \in [1..(n + k) -> Lines]
    BY <1>1, <1>2
  <1>4. \A i \in 1..n : i \in 1..(n + k) /\ e[i] = s[i]
    BY <1>1
  <1>5. \A j \in 1..k : n + j \in 1..(n + k) /\ (n + j) - n = j /\ ~(n + j <= n)
    BY <1>1
  <1>6. \A j \in 1..k : e[n + j] = u[j]
    BY <1>5
  <1> HIDE DEF e
  <1>7. ASSUME NEW i \in 1..(n + k), NEW j \in 1..(n + k), i < j PROVE Sooner(e[i], e[j])
    <2>1. CASE j \in 1..n
      <3>1. i \in 1..n
        BY <1>1, <1>7, <2>1
      <3> QED
        BY <1>4, <1>7, <2>1, <3>1 DEF Listed
    <2>2. CASE j \notin 1..n /\ i \in 1..n
      BY <1>2, <1>4, <2>2
    <2>3. CASE j \notin 1..n /\ i \notin 1..n
      <3>1. /\ i - n \in 1..k /\ e[i] = u[i - n] /\ j - n \in 1..k /\ e[j] = u[j - n]
        BY <1>2, <2>3
      <3>2. i - n < j - n
        BY <1>1, <1>7
      <3> QED
        BY <3>1, <3>2
    <2> QED
      BY <2>1, <2>2, <2>3
  <1> QED
    BY <1>1, <1>3, <1>4, <1>6, <1>7 DEF Listed

LEMMA HandedMore ==
  ASSUME NEW s, NEW e, NEW n \in Nat, NEW c \in 0..n, NEW d, NEW g, NEW t,
         Handed(s, c, d, g, t), \A i \in 1..n : e[i] = s[i]
  PROVE  Handed(e, c, d, g, t)
  <1>1. d \in 0..c /\ \A j \in 1..c : e[j] = s[j]
    BY DEF Handed
  <1>2. /\ \A j \in 1..d : j \in 1..c
        /\ \A j \in 1..(c - d) : d + j \in 1..c
        /\ \A j \in (d + 1)..c : j \in 1..c
    BY <1>1
  <1> QED
    BY <1>1, <1>2 DEF Handed

(* The first line not handed over yet is not later than the other ones.    *)
LEMMA AheadRest ==
  ASSUME StreamTypes, LinesInOrder, cur \in Nat, NEW s, NEW n, NEW c, Listed(s, n),
         c \in 0..n, Ahead(s, c, n), c < n,
         NEW p \in Lines, \A j \in 1..c : s[j] # p
  PROVE  s[c + 1] \in Lines /\ Line(s[c + 1]).ts <= Line(p).ts
  <1>1. n \in Nat /\ c \in Nat /\ c + 1 \in 1..n
    BY DEF Listed
  <1>2. s[c + 1] \in Lines
    BY <1>1 DEF Listed
  <1>3. CASE HasRead(p)
    <2>1. PICK j \in 1..n : s[j] = p
      BY <1>3 DEF Ahead
    <2>2. j \notin 1..c
      BY <2>1
    <2>3. c + 1 <= j
      BY <1>1, <2>2
    <2>4. Upto(s[c + 1], s[j])
      BY <1>1, <2>3, ListedOrder
    <2> QED
      BY <1>2, <2>1, <2>4 DEF LinesInOrder
  <1>4. CASE ~HasRead(p)
    <2>1. HasRead(s[c + 1])
      BY <1>1, <1>2 DEF Ahead
    <2>2. /\ p[1] \in Int /\ p[2] \in Nat
          /\ s[c + 1][1] \in Int /\ s[c + 1][2] \in Nat
      BY <1>2, LinesTyped
    <2>3. Month(cur) \in Int /\ file.read \in Nat
      BY MonthTypes DEF StreamTypes
    <2>4. Upto(s[c + 1], p)
      BY <1>4, <2>1, <2>2, <2>3 DEF HasRead, Upto
    <2> QED
      BY <1>2, <2>4 DEF LinesInOrder
  <1> QED
    BY <1>2, <1>3, <1>4

-----------------------------------------------------------------------------
(* bufferize().                                                            *)

(* r gives the readable lines of the first n of a block, t where they are. *)
Picks(block, n, r, t) ==
  /\ r \in Seq(Ticks)
  /\ \A j \in 1..Len(r) : t[j] \in 1..n /\ block[t[j]] # Malformed /\ r[j] = block[t[j]]
  /\ \A i, j \in 1..Len(r) : i < j => t[i] < t[j]
  /\ \A i \in 1..n : block[i] # Malformed => \E j \in 1..Len(r) : t[j] = i

LEMMA PicksNext ==
  ASSUME NEW block \in Seq(Ticks), NEW n \in 1..Len(block), NEW r, NEW t,
         Picks(block, n - 1, r, t), block[n] # Malformed
  PROVE  \E u : Picks(block, n, Append(r, block[n]), u)
  <1> DEFINE k == Len(r)
             a == Append(r, block[n])
             u == [j \in 1..(k + 1) |-> IF j <= k THEN t[j] ELSE n]
  <1>1. r \in Seq(Ticks) /\ k \in Nat /\ block[n] \in Ticks /\ n \in Nat
    BY DEF Picks
  <1>2. /\ a \in Seq(Ticks) /\ Len(a) = k + 1 /\ a[k + 1] = block[n]
        /\ \A j \in 1..k : a[j] = r[j]
    BY <1>1
  <1>3. \A j \in 1..(k + 1) : j \in 1..k \/ j = k + 1
    BY <1>1
  <1>4. \A j \in 1..k : j \in 1..(k + 1) /\ u[j] = t[j]
    BY <1>1
  <1>5. k + 1 \in 1..(k + 1) /\ u[k + 1] = n
    BY <1>1
  <1>6. /\ \A j \in 1..k : t[j] \in 1..(n - 1) /\ block[t[j]] # Malformed /\ r[j] = block[t[j]]
        /\ \A i, j \in 1..k : i < j => t[i] < t[j]
        /\ \A i \in 1..(n - 1) : block[i] # Malformed => \E j \in 1..k : t[j] = i
    BY DEF Picks
  <1> HIDE DEF k, a, u
  <1>7. \A j \in 1..k : t[j] \in 1..n /\ t[j] < n
    BY <1>1, <1>6
  <1>8. \A j \in 1..(k + 1) : u[j] \in 1..n /\ block[u[j]] # Malformed /\ a[j] = block[u[j]]
    <2> TAKE j \in 1..(k + 1)
    <2>1. CASE j \in 1..k
      BY <1>2, <1>4, <1>6, <1>7, <2>1
    <2>2. CASE j = k + 1
      BY <1>1, <1>2, <1>5, <2>2
    <2> QED
      BY <1>3, <2>1, <2>2
  <1>9. ASSUME NEW i \in 1..(k + 1), NEW j \in 1..(k + 1), i < j PROVE u[i] < u[j]
    <2>1. i \in 1..k
      BY <1>1, <1>9
    <2>2. CASE j \in 1..k
      BY <1>4, <1>6, <1>9, <2>1, <2>2
    <2>3. CASE j = k + 1
      BY <1>4, <1>5, <1>7, <2>1, <2>3
    <2> QED
      BY <1>3, <2>2, <2>3
  <1>10. ASSUME NEW i \in 1..n, block[i] # Malformed PROVE \E j \in 1..(k + 1) : u[j] = i
    <2>1. CASE i = n
      BY <1>5, <2>1
    <2>2. CASE i # n
      <3>1. i \in 1..(n - 1)
        BY <1>1, <2>2
      <3>2. PICK j \in 1..k : t[j] = i
        BY <1>6, <1>10, <3>1
      <3> QED
        BY <1>4, <3>2
    <2> QED
      BY <2>1, <2>2
  <1>11. Picks(block, n, a, u)
    BY <1>2, <1>8, <1>9, <1>10 DEF Picks
  <1> QED
    BY <1>11 DEF a

(* Readable() gives every line that could be read, in order.               *)
LEMMA ReadablePicks ==
  ASSUME NEW block \in Seq(Ticks)
  PROVE  \E t : Picks(block, Len(block), Readable(block), t)
  <1> DEFINE kept == CHOOSE k : KeptUpTo(block, Len(block), k)
             T == {n \in 0..Len(block) : ~\E t : Picks(block, n, kept[n], t)}
  <1>1. KeptUpTo(block, Len(block), kept)
    BY KeptExists
  <1>2. Readable(block) = kept[Len(block)] /\ Len(block) \in Nat
    BY DEF Readable, KeptUpTo
  <1> HIDE DEF kept
  <1>3. SUFFICES ASSUME T # {} PROVE FALSE
    BY <1>2
  <1>4. PICK n \in T : \A y \in T : n <= y
    <2>1. T \subseteq Nat
      BY <1>2
    <2> HIDE DEF T
    <2> QED
      BY <1>3, <2>1, LeastNumber
  <1>5. n \in 0..Len(block) /\ ~\E t : Picks(block, n, kept[n], t)
    BY <1>4
  <1>6. kept[n] = IF n = 0 THEN <<>>
                  ELSE IF block[n] = Malformed THEN kept[n - 1]
                  ELSE Append(kept[n - 1], block[n])
    BY <1>1, <1>5 DEF KeptUpTo
  <1>7. n # 0
    <2>1. Picks(block, 0, <<>>, <<>>)
      BY DEF Picks
    <2> QED
      BY <1>5, <1>6, <2>1
  <1>8. n - 1 \in 0..Len(block) /\ ~(n <= n - 1) /\ n \in 1..Len(block)
    BY <1>2, <1>5, <1>7
  <1>9. PICK t : Picks(block, n - 1, kept[n - 1], t)
    BY <1>4, <1>8
  <1>10. CASE block[n] # Malformed
    BY <1>5, <1>6, <1>7, <1>8, <1>9, <1>10, PicksNext
  <1>11. CASE block[n] = Malformed
    <2>1. \A i \in 1..n : i = n \/ i \in 1..(n - 1)
      BY <1>8
    <2>2. \A i \in 1..(n - 1) : i \in 1..n
      BY <1>8
    <2>3. Picks(block, n, kept[n - 1], t)
      BY <1>9, <1>11, <2>1, <2>2 DEF Picks
    <2> QED
      BY <1>5, <1>6, <1>7, <1>11, <2>3
  <1> QED
    BY <1>10, <1>11

(* u gives the k lines of the b records of month m after the first r, and  *)
(* block holds them.                                                       *)
Gives(u, k, block, m, r, b) ==
  /\ k \in Nat /\ Len(block) = k
  /\ \A j \in 1..k : /\ u[j] \in Lines /\ u[j][1] = m /\ u[j][2] \in (r + 1)..(r + b)
                     /\ block[j] = Line(u[j])
  /\ \A i, j \in 1..k : i < j => Sooner(u[i], u[j])
  /\ \A p \in Lines : p[1] = m /\ p[2] \in (r + 1)..(r + b) => \E j \in 1..k : u[j] = p

(* A block is the next records of its file, at most BufferSize.            *)
LEMMA BlockIs ==
  ASSUME StreamTypes, NEW m \in DOMAIN store, NEW r \in 0..Len(store[m].records), NEW f,
         f = [month |-> m, read |-> r]
  PROVE  /\ Block(f) \in Seq(Ticks)
         /\ Len(Block(f)) \in 0..(Len(store[m].records) - r)
         /\ Len(Block(f)) = 0 => r = Len(store[m].records)
         /\ \A i \in 1..Len(Block(f)) : Block(f)[i] = store[m].records[r + i]
  <1> DEFINE records == store[m].records
             L == Len(records)
             n == IF r + BufferSize < L THEN r + BufferSize ELSE L
             s == SubSeq(records, r + 1, n)
  <1>1. records \in Seq(Ticks) /\ BufferSize \in Nat /\ BufferSize > 0
    BY StreamAssumption DEF StreamTypes, Ticks
  <1>2. L \in Nat /\ r \in Nat /\ r <= L
    BY <1>1
  <1>3. Block(f) = s
    BY DEF Block
  <1> HIDE DEF L
  <1>4. n \in Nat /\ r <= n /\ n <= L /\ (n = r => r = L)
    BY <1>1, <1>2
  <1> HIDE DEF n
  <1>5. \A i \in (r + 1)..n : records[i] \in Ticks
    BY <1>1, <1>2, <1>4 DEF L
  <1> HIDE DEF records, s
  <1>6. s \in Seq(Ticks) /\ Len(s) = n - r /\ \A i \in 1..(n - r) : s[i] = records[r + i]
    <2> DEFINE a == r + 1
    <2>1. a \in Int /\ n \in Int /\ \A i \in a..n : records[i] \in Ticks
      BY <1>2, <1>4, <1>5
    <2> HIDE DEF a
    <2>2. /\ s \in Seq(Ticks) /\ Len(s) = (IF a <= n THEN n - a + 1 ELSE 0)
          /\ \A i \in 1..(n - a + 1) : s[i] = records[a + i - 1]
      <3>1. s = SubSeq(records, a, n)
        BY DEF s, a
      <3>2. /\ SubSeq(records, a, n) \in Seq(Ticks)
            /\ Len(SubSeq(records, a, n)) = (IF a <= n THEN n - a + 1 ELSE 0)
            /\ \A i \in 1..(n - a + 1) : SubSeq(records, a, n)[i] = records[a + i - 1]
        BY <2>1, SubSeqProperties
      <3> QED
        BY <3>1, <3>2
    <2>3. Len(s) = n - r
      BY <1>2, <1>4, <2>2 DEF a
    <2>4. ASSUME NEW i \in 1..(n - r) PROVE s[i] = records[r + i]
      <3>1. i \in 1..(n - a + 1) /\ a + i - 1 = r + i
        BY <1>2, <1>4 DEF a
      <3> QED
        BY <2>2, <3>1
    <2> QED
      BY <2>2, <2>3, <2>4
  <1>7. n - r \in 0..(L - r) /\ (n - r = 0 => r = L)
    BY <1>2, <1>4
  <1> QED
    BY <1>3, <1>6, <1>7 DEF L, records

(* The lines of a sound file do not go back in time from the last block.   *)
LEMMA BinaryInOrder ==
  ASSUME StreamTypes, LinesInOrder, NEW m \in MonthsAsked \cap DOMAIN store,
         Format(m) = "binary", NEW r \in 0..Len(store[m].records), NEW f,
         f = [month |-> m, read |-> r],
         \A i \in (r + 1)..Len(store[m].records) : lastTs <= store[m].records[i].ts
  PROVE  InOrder(Block(f), Len(Block(f)))
  <1> DEFINE block == Block(f)
             b == Len(block)
             L == Len(store[m].records)
  <1>1. /\ block \in Seq(Ticks) /\ b \in 0..(L - r)
        /\ \A i \in 1..b : block[i] = store[m].records[r + i]
    BY BlockIs
  <1>2. L \in Nat /\ r \in 0..L
    BY StreamAssumption DEF StreamTypes
  <1> HIDE DEF b, block
  <1>3. \A i \in 1..L : /\ <<m, i>> \in Lines /\ Line(<<m, i>>) = store[m].records[i]
                        /\ <<m, i>>[1] = m /\ <<m, i>>[2] = i
    BY LineOf
  <1>4. \A i \in 1..b : block[i] \in Ticks
    BY <1>1 DEF b
  <1> HIDE DEF L
  <1>5. ASSUME NEW i \in 1..b
        PROVE  block[i].ts >= (IF i = 1 THEN lastTs ELSE block[i - 1].ts)
    <2>1. r + i \in 1..L /\ r + i \in (r + 1)..L
      BY <1>1, <1>2
    <2>2. CASE i = 1
      <3>1. lastTs <= block[i].ts
        BY <1>1, <2>1 DEF L
      <3> QED
        BY <2>2, <3>1
    <2>3. CASE i # 1
      <3>1. i - 1 \in 1..b /\ r + (i - 1) \in 1..L /\ r + (i - 1) <= r + i
        BY <1>1, <1>2, <2>3
      <3>2. Upto(<<m, r + (i - 1)>>, <<m, r + i>>)
        BY <3>1 DEF Upto
      <3>3. Line(<<m, r + (i - 1)>>).ts <= Line(<<m, r + i>>).ts
        BY <1>3, <2>1, <3>1, <3>2 DEF LinesInOrder
      <3>4. block[i - 1].ts <= block[i].ts
        <4>1. block[i] = Line(<<m, r + i>>)
          BY <1>1, <1>3, <2>1
        <4>2. block[i - 1] = Line(<<m, r + (i - 1)>>)
          BY <1>1, <1>3, <3>1
        <4> QED
          BY <3>3, <4>1, <4>2
      <3> QED
        BY <2>3, <3>4
    <2> QED
      BY <2>2, <2>3
  <1> QED
    BY <1>5 DEF InOrder, b, block

(* What a block of the range gives, whichever its format.                  *)
LEMMA BinaryGives ==
  ASSUME StreamTypes, NEW m \in MonthsAsked \cap DOMAIN store, Format(m) # "text",
         NEW r \in 0..Len(store[m].records), NEW f, f = [month |-> m, read |-> r]
  PROVE  \E u, k : Gives(u, k, Block(f), m, r, Len(Block(f)))
  <1> DEFINE block == Block(f)
             b == Len(block)
             L == Len(store[m].records)
             u == [j \in 1..b |-> <<m, r + j>>]
  <1>1. /\ block \in Seq(Ticks) /\ b \in 0..(L - r)
        /\ \A i \in 1..b : block[i] = store[m].records[r + i]
    BY BlockIs
  <1>2. L \in Nat /\ r \in 0..L /\ m \in Int
    BY MonthsTyped, StreamAssumption DEF StreamTypes
  <1> HIDE DEF b
  <1>3. \A i \in 1..L : /\ <<m, i>> \in Lines /\ Line(<<m, i>>) = store[m].records[i]
                        /\ <<m, i>>[1] = m /\ <<m, i>>[2] = i
    BY LineOf
  <1> HIDE DEF L
  <1>4. \A j \in 1..b : r + j \in 1..L /\ r + j \in (r + 1)..(r + b)
    BY <1>1, <1>2
  <1>5. ASSUME NEW j \in 1..b
        PROVE  /\ u[j] \in Lines /\ u[j][1] = m /\ u[j][2] \in (r + 1)..(r + b)
               /\ block[j] = Line(u[j])
    <2>1. u[j] = <<m, r + j>>
      OBVIOUS
    <2> HIDE DEF u, block
    <2> QED
      <3>1. r + j \in 1..L /\ r + j \in (r + 1)..(r + b)
        BY <1>4
      <3>2. /\ <<m, r + j>> \in Lines /\ Line(<<m, r + j>>) = store[m].records[r + j]
            /\ <<m, r + j>>[1] = m /\ <<m, r + j>>[2] = r + j
        BY <1>3, <3>1
      <3>3. block[j] = store[m].records[r + j]
        BY <1>1
      <3> QED
        BY <2>1, <3>1, <3>2, <3>3
  <1>6. ASSUME NEW i \in 1..b, NEW j \in 1..b, i < j PROVE Sooner(u[i], u[j])
    <2>1. u[i] = <<m, r + i>> /\ u[j] = <<m, r + j>> /\ r + i < r + j
      BY <1>1, <1>2, <1>6
    <2> HIDE DEF u
    <2> QED
      BY <2>1 DEF Sooner
  <1>7. ASSUME NEW p \in Lines, p[1] = m, p[2] \in (r + 1)..(r + b)
        PROVE  \E j \in 1..b : u[j] = p
    <2>1. p = <<m, p[2]>>
      BY <1>7, LinesTyped
    <2>2. p[2] - r \in 1..b /\ r + (p[2] - r) = p[2]
      BY <1>1, <1>2, <1>7
    <2>3. u[p[2] - r] = <<m, r + (p[2] - r)>>
      BY <2>2
    <2> QED
      BY <2>1, <2>2, <2>3
  <1>8. b \in Nat /\ Len(block) = b
    BY <1>1 DEF b
  <1> HIDE DEF u, block
  <1>9. Gives(u, b, block, m, r, b)
    BY <1>5, <1>6, <1>7, <1>8 DEF Gives
  <1> QED
    BY <1>9 DEF block, b

LEMMA TextGives ==
  ASSUME StreamTypes, NEW m \in MonthsAsked \cap DOMAIN store, Format(m) = "text",
         NEW r \in 0..Len(store[m].records), NEW f, f = [month |-> m, read |-> r]
  PROVE  \E u, k : Gives(u, k, Readable(Block(f)), m, r, Len(Block(f)))
  <1> DEFINE block == Block(f)
             kept == Readable(block)
             b == Len(block)
             k == Len(kept)
             L == Len(store[m].records)
  <1>1. /\ block \in Seq(Ticks) /\ b \in 0..(L - r)
        /\ \A i \in 1..b : block[i] = store[m].records[r + i]
    BY BlockIs
  <1> HIDE DEF block
  <1>2. PICK t : Picks(block, b, kept, t)
    BY <1>1, ReadablePicks
  <1>3. L \in Nat /\ r \in 0..L /\ m \in Int
    BY MonthsTyped, StreamAssumption DEF StreamTypes
  <1> DEFINE u == [j \in 1..k |-> <<m, r + t[j]>>]
  <1> HIDE DEF b, kept
  <1>4. \A i \in 1..L : /\ <<m, i>> \in Lines <=> store[m].records[i] # Malformed
                        /\ Line(<<m, i>>) = store[m].records[i]
                        /\ <<m, i>>[1] = m /\ <<m, i>>[2] = i
    BY LineOf
  <1> HIDE DEF L
  <1>5. /\ kept \in Seq(Ticks) /\ k \in Nat
        /\ \A j \in 1..k : t[j] \in 1..b /\ block[t[j]] # Malformed /\ kept[j] = block[t[j]]
        /\ \A i, j \in 1..k : i < j => t[i] < t[j]
        /\ \A i \in 1..b : block[i] # Malformed => \E j \in 1..k : t[j] = i
    BY <1>2 DEF Picks
  <1>6. \A i \in 1..b : i \in Nat /\ r + i \in 1..L /\ r + i \in (r + 1)..(r + b)
    BY <1>1, <1>3
  <1> HIDE DEF k
  <1>7. ASSUME NEW j \in 1..k
        PROVE  /\ u[j] \in Lines /\ u[j][1] = m /\ u[j][2] \in (r + 1)..(r + b)
               /\ kept[j] = Line(u[j])
    <2>1. u[j] = <<m, r + t[j]>>
      OBVIOUS
    <2> HIDE DEF u
    <2>2. t[j] \in 1..b /\ block[t[j]] # Malformed /\ kept[j] = block[t[j]]
      BY <1>5
    <2>3. block[t[j]] = store[m].records[r + t[j]]
      BY <1>1, <2>2
    <2> QED
      BY <1>4, <1>6, <2>1, <2>2, <2>3
  <1>8. ASSUME NEW i \in 1..k, NEW j \in 1..k, i < j PROVE Sooner(u[i], u[j])
    <2>1. u[i] = <<m, r + t[i]>> /\ u[j] = <<m, r + t[j]>>
      OBVIOUS
    <2>2. r + t[i] < r + t[j]
      BY <1>3, <1>5, <1>6, <1>8
    <2> HIDE DEF u
    <2> QED
      BY <2>1, <2>2 DEF Sooner
  <1>9. ASSUME NEW p \in Lines, p[1] = m, p[2] \in (r + 1)..(r + b)
        PROVE  \E j \in 1..k : u[j] = p
    <2>1. p = <<m, p[2]>>
      BY <1>9, LinesTyped
    <2>2. p[2] - r \in 1..b /\ r + (p[2] - r) = p[2]
      BY <1>1, <1>3, <1>9
    <2>3. block[p[2] - r] # Malformed
      BY <1>1, <1>4, <1>6, <2>1, <2>2
    <2>4. PICK j \in 1..k : t[j] = p[2] - r
      BY <1>5, <2>2, <2>3
    <2>5. u[j] = <<m, r + (p[2] - r)>>
      BY <2>4
    <2> QED
      BY <2>1, <2>2, <2>5
  <1>10. k \in Nat /\ Len(kept) = k
    BY <1>5 DEF k
  <1> HIDE DEF u
  <1>11. Gives(u, k, kept, m, r, b)
    BY <1>7, <1>8, <1>9, <1>10 DEF Gives
  <1> QED
    BY <1>11 DEF kept, block, b

(* Reading b more records extends the list.                                *)
LEMMA ReadsMore ==
  ASSUME StreamTypes, NEW s, NEW n, Listed(s, n),
         \A p \in Lines : HasRead(p) <=> \E j \in 1..n : s[j] = p,
         NEW u, NEW k, NEW block, NEW b, Gives(u, k, block, Month(cur), file.read, b)
  PROVE  \E e : /\ Listed(e, n + k)
                /\ \A i \in 1..n : e[i] = s[i]
                /\ \A j \in 1..k : block[j] = Line(e[n + j])
                /\ \A p \in Lines :
                     (HasRead(p) \/ (p[1] = Month(cur) /\ p[2] \in (file.read + 1)..(file.read + b)))
                       <=> \E j \in 1..(n + k) : e[j] = p
  <1> DEFINE m == Month(cur)
             r == file.read
  <1>1. n \in Nat /\ k \in Nat /\ r \in Nat /\ m \in Int
    BY MonthTypes DEF Listed, Gives, StreamTypes
  <1>2. /\ \A i \in 1..n : s[i] \in Lines /\ HasRead(s[i])
        /\ \A j \in 1..k : /\ u[j] \in Lines /\ u[j][1] = m /\ u[j][2] \in (r + 1)..(r + b)
                           /\ block[j] = Line(u[j])
        /\ \A i, j \in 1..k : i < j => Sooner(u[i], u[j])
        /\ \A p \in Lines : p[1] = m /\ p[2] \in (r + 1)..(r + b) => \E j \in 1..k : u[j] = p
    BY DEF Listed, Gives
  <1>3. ASSUME NEW i \in 1..n, NEW j \in 1..k PROVE Sooner(s[i], u[j])
    <2>1. s[i][1] < m \/ (s[i][1] = m /\ s[i][2] <= r)
      BY <1>2 DEF HasRead
    <2>2. u[j][1] = m /\ u[j][2] > r /\ s[i][1] \in Int /\ s[i][2] \in Nat /\ u[j][2] \in Nat
      BY <1>1, <1>2, LinesTyped
    <2> HIDE DEF m, r
    <2> QED
      BY <1>1, <2>1, <2>2 DEF Sooner
  <1>4. PICK e : /\ Listed(e, n + k)
                 /\ \A i \in 1..n : e[i] = s[i]
                 /\ \A j \in 1..k : e[n + j] = u[j]
    <2>1. /\ \A j \in 1..k : u[j] \in Lines
          /\ \A i, j \in 1..k : i < j => Sooner(u[i], u[j])
          /\ \A i \in 1..n, j \in 1..k : Sooner(s[i], u[j])
      BY <1>2, <1>3
    <2>2. k \in Nat
      BY <1>1
    <2> QED
      BY <2>1, <2>2, ListedMore
  <1>5. \A j \in 1..k : block[j] = Line(e[n + j])
    BY <1>2, <1>4
  <1>6. /\ \A j \in 1..n : j \in 1..(n + k)
        /\ \A j \in 1..k : n + j \in 1..(n + k)
        /\ \A j \in 1..(n + k) : j \in 1..n \/ (j - n \in 1..k /\ n + (j - n) = j)
    BY <1>1
  <1> HIDE DEF m, r
  <1>7. ASSUME NEW p \in Lines
        PROVE  (HasRead(p) \/ (p[1] = m /\ p[2] \in (r + 1)..(r + b)))
                 <=> \E j \in 1..(n + k) : e[j] = p
    <2>1. ASSUME HasRead(p) PROVE \E j \in 1..(n + k) : e[j] = p
      BY <1>4, <1>6, <2>1
    <2>2. ASSUME p[1] = m, p[2] \in (r + 1)..(r + b) PROVE \E j \in 1..(n + k) : e[j] = p
      BY <1>2, <1>4, <1>6, <2>2
    <2>3. ASSUME NEW j \in 1..(n + k), e[j] = p
          PROVE  HasRead(p) \/ (p[1] = m /\ p[2] \in (r + 1)..(r + b))
      <3>1. CASE j \in 1..n
        BY <1>2, <1>4, <2>3, <3>1
      <3>2. CASE j - n \in 1..k /\ n + (j - n) = j
        BY <1>2, <1>4, <2>3, <3>2
      <3> QED
        BY <1>6, <3>1, <3>2
    <2> QED
      BY <2>1, <2>2, <2>3
  <1> QED
    BY <1>4, <1>5, <1>7 DEF m, r

(* What one call of bufferize() reads while the stream is in its range.    *)
LEMMA BufferizeReads ==
  ASSUME StreamTypes, Regular, Reading, Bufferize
  PROVE  \E u, k, b :
           /\ Gives(u, k, buffer', Month(cur), file.read, b)
           /\ b \in 0..(Len(store[Month(cur)].records) - file.read)
           /\ \/ /\ cur' = cur /\ finished' = finished
                 /\ file' = [month |-> Month(cur), read |-> file.read + b]
              \/ /\ b = 0 /\ file.read = Len(store[Month(cur)].records) /\ EndOfFile
           /\ lastTs' \in Nat
           /\ \A p \in Lines : \/ HasRead(p)
                               \/ p[1] = Month(cur) /\ p[2] \in (file.read + 1)..(file.read + b)
                               \/ lastTs' <= Line(p).ts
  <1> DEFINE m == Month(cur)
             r == file.read
             L == Len(store[m].records)
             f == [month |-> m, read |-> r]
             block == Block(f)
             b == Len(block)
  <1>1. /\ m \in MonthsAsked /\ m \in Int /\ Format(m) # "none" /\ m \in DOMAIN store
        /\ r \in 0..L /\ lastTs \in Nat
        /\ \A p \in Lines : HasRead(p) \/ lastTs <= Line(p).ts
    BY MonthsTyped DEF Reading, Regular, NoneMissing, Format, StreamTypes
  <1>2. f = IF file = NoFile THEN Opened(m) ELSE file
    <2>1. CASE file = NoFile
      BY <1>1, <2>1 DEF Opened, NoFile
    <2>2. CASE file # NoFile
      <3>1. file \in [month : Int, read : Nat] /\ file.month = m
        BY <2>2 DEF StreamTypes, Reading
      <3> QED
        BY <2>2, <3>1
    <2> QED
      BY <2>1, <2>2
  <1>3. f # NoFile
    <2>1. m \in Nat
      BY MonthOf DEF Reading
    <2> QED
      BY <2>1 DEF NoFile
  <1>4. ReadFile(f)
    BY <1>2, <1>3 DEF Bufferize
  <1>5. /\ block \in Seq(Ticks) /\ b \in 0..(L - r) /\ (b = 0 => r = L)
        /\ \A i \in 1..b : block[i] = store[m].records[r + i]
    BY <1>1, BlockIs
  <1>6. Continue(f) => /\ cur' = cur /\ finished' = finished
                       /\ file' = [month |-> m, read |-> r + b]
    BY DEF Continue
  <1>7. CASE Format(m) # "binary"
    <2>1. buffer' = Readable(block) /\ Continue(f) /\ UNCHANGED lastTs
      BY <1>4, <1>7 DEF ReadFile
    <2>2. Format(m) = "text"
      BY <1>1, <1>7, StreamAssumption DEF Format, StreamTypes
    <2>3. PICK u, k : Gives(u, k, buffer', m, r, b)
      BY <1>1, <2>1, <2>2, TextGives
    <2> QED
      BY <1>1, <1>5, <1>6, <2>1, <2>3
  <1>8. CASE Format(m) = "binary"
    <2>1. PICK n \in 0..b : /\ Sound(block, n)
                            /\ buffer' = SubSeq(block, 1, n)
                            /\ lastTs' = IF n = 0 THEN lastTs ELSE block[n].ts
                            /\ IF 0 < n /\ n = b THEN Continue(f) ELSE EndOfFile
      BY <1>4, <1>8 DEF ReadFile
    <2>2. InOrder(block, b)
      <3>1. \A i \in (r + 1)..L : lastTs <= store[m].records[i].ts
        <4>1. SUFFICES ASSUME NEW i \in (r + 1)..L PROVE lastTs <= store[m].records[i].ts
          OBVIOUS
        <4>2. i \in 1..L /\ ~(i <= r)
          BY <1>1
        <4>3. /\ <<m, i>> \in Lines /\ Line(<<m, i>>) = store[m].records[i]
              /\ <<m, i>>[1] = m /\ <<m, i>>[2] = i
          BY <1>1, <1>8, <4>2, LineOf
        <4>4. ~HasRead(<<m, i>>)
          BY <1>1, <4>2, <4>3 DEF HasRead
        <4> QED
          BY <1>1, <4>3, <4>4
      <3> QED
        BY <1>1, <1>8, <3>1, BinaryInOrder DEF Regular
    <2>3. n = b
      <3>1. SUFFICES ASSUME n < b PROVE FALSE
        BY <1>5, <2>1
      <3>2. ~InOrder(block, n + 1)
        BY <2>1, <3>1 DEF Sound
      <3>3. \A i \in 1..(n + 1) : i \in 1..b
        BY <1>5, <2>1, <3>1
      <3> HIDE DEF b, block
      <3> QED
        BY <2>2, <3>2, <3>3 DEF InOrder
    <2>4. PICK u, k : Gives(u, k, block, m, r, b)
      BY <1>1, <1>8, BinaryGives
    <2>5. buffer' = block
      <3> HIDE DEF block
      <3> QED
        BY <1>5, <2>1, <2>3
    <2>6. \/ 0 < b /\ Continue(f)
          \/ b = 0 /\ r = L /\ EndOfFile
      BY <1>5, <2>1, <2>3
    <2>7. CASE b = 0
      <3>1. r = L /\ EndOfFile
        BY <2>6, <2>7
      <3>2. lastTs' = lastTs
        BY <2>1, <2>3, <2>7
      <3>3. Gives(u, k, buffer', m, r, b)
        BY <2>4, <2>5
      <3>4. lastTs' \in Nat /\ \A p \in Lines : HasRead(p) \/ lastTs' <= Line(p).ts
        BY <1>1, <3>2
      <3> HIDE DEF b, L, m, r
      <3> QED
        BY <1>5, <2>7, <3>1, <3>3, <3>4 DEF m, r, L
    <2>8. CASE b > 0
      <3>1. lastTs' = block[b].ts /\ block[b] = store[m].records[r + b]
        BY <1>5, <2>1, <2>3, <2>8
      <3>2. r + b \in 1..L /\ r \in Nat
        BY <1>1, <1>5, <2>8
      <3>3. /\ <<m, r + b>> \in Lines /\ Line(<<m, r + b>>) = store[m].records[r + b]
            /\ <<m, r + b>>[1] = m /\ <<m, r + b>>[2] = r + b
        BY <1>1, <1>8, <3>2, LineOf
      <3>4. lastTs' = Line(<<m, r + b>>).ts /\ lastTs' \in Nat
        BY <3>1, <3>3, LinesTyped
      <3>5. ASSUME NEW p \in Lines, ~HasRead(p), ~(p[1] = m /\ p[2] \in (r + 1)..(r + b))
            PROVE  lastTs' <= Line(p).ts
        <4>1. p[1] \in Int /\ p[2] \in Nat /\ m \in Int
          BY <1>1, LinesTyped
        <4>2. ~(p[1] < m) /\ ~(p[1] = m /\ p[2] <= r)
          BY <3>5 DEF HasRead
        <4> HIDE DEF m, r, b
        <4>3. b \in Int
          BY <1>5
        <4>4. Upto(<<m, r + b>>, p)
          BY <3>2, <3>3, <3>5, <4>1, <4>2, <4>3 DEF Upto
        <4> QED
          BY <3>3, <3>4, <4>4 DEF Regular, LinesInOrder
      <3>6. Continue(f)
        BY <2>6, <2>8
      <3> QED
        BY <1>5, <1>6, <2>4, <2>5, <3>4, <3>5, <3>6
    <2> QED
      BY <1>5, <2>7, <2>8
  <1> QED
    BY <1>7, <1>8

LEMMA SameDisk ==
  ASSUME store' = store
  PROVE  /\ Lines' = Lines /\ (Regular' <=> Regular)
         /\ \A p : Line(p)' = Line(p)
  <1>1. \A p : Line(p)' = Line(p)
    BY DEF Line
  <1>2. \A m : Format(m)' = Format(m)
    BY DEF Format
  <1>3. Lines' = Lines
    BY <1>1, <1>2 DEF Lines
  <1>4. Regular' <=> Regular
    BY <1>1, <1>2, <1>3 DEF Regular, LinesInOrder, NoneMissing
  <1> QED
    BY <1>1, <1>3, <1>4

(* At the end of a file, the next month of the range, or all was read.     *)
LEMMA EndOfFileMonth ==
  ASSUME StreamTypes, Regular, Reading, EndOfFile, store' = store,
         file.read = Len(store[Month(cur)].records)
  PROVE  /\ finished' \in BOOLEAN
         /\ finished' => \A p \in Lines : HasRead(p)
         /\ ~finished' => /\ \A p \in Lines : HasRead(p)' <=> HasRead(p)
                          /\ cur' \in Nat /\ cur' < ToTs /\ Month(cur') \in MonthsAsked
                          /\ file' = [month |-> Month(cur'), read |-> 0]
  <1> DEFINE m == Month(cur)
             x == (m + 1) * MonthLength
  <1>1. /\ cur \in Nat /\ m \in MonthsAsked /\ m \in Nat /\ MonthLength \in Nat
        /\ cur' = x /\ x \in Nat /\ FromTs \in Nat /\ ToTs \in Nat
    BY MonthOf, StreamAssumption DEF Reading, EndOfFile
  <1>2. Month(cur') = m + 1
    <2>1. (m + 1) + 1 = m + 2 /\ m + 1 \in Nat
      BY <1>1
    <2>2. ((m + 1) + 1) * MonthLength = x + MonthLength
      BY <1>1
    <2>3. x < ((m + 1) + 1) * MonthLength
      BY <1>1, <2>2, StreamAssumption
    <2>4. (m + 1) * MonthLength <= x
      BY <1>1
    <2>5. Month(x) = m + 1
      BY <1>1, <2>1, <2>3, <2>4, MonthBetween
    <2> QED
      BY <1>1, <2>5
  <1> HIDE DEF x
  <1>3. ASSUME NEW p \in Lines
        PROVE  HasRead(p) <=> p[1] < m + 1
    <2>1. /\ p[1] \in Int /\ p[2] \in Nat /\ p[2] > 0
          /\ p[2] \in 1..Len(store[p[1]].records)
      BY LinesTyped
    <2>2. p[1] = m => p[2] <= file.read
      BY <2>1
    <2> HIDE DEF m
    <2> QED
      BY <1>1, <2>1, <2>2 DEF HasRead, m
  <1>4. CASE cur' < ToTs
    <2>1. m + 1 \in MonthsAsked
      <3>0. cur' \in Nat /\ ToTs \in Nat /\ FromTs \in Nat /\ cur' <= ToTs
        BY <1>1, <1>4
      <3>1. Month(cur') <= Month(ToTs) /\ Month(ToTs) \in Nat /\ Month(FromTs) \in Nat
        BY <3>0, MonthMonotone, MonthOf
      <3>2. Month(FromTs) <= m
        BY DEF MonthsAsked, Reading
      <3>3. m + 1 \in Month(FromTs)..Month(ToTs)
        BY <1>1, <1>2, <3>1, <3>2
      <3> QED
        BY <1>1, <1>4, <3>3 DEF MonthsAsked, x
    <2>2. Format(m + 1) # "none"
      BY <2>1 DEF Regular, NoneMissing
    <2>3. file' = [month |-> m + 1, read |-> 0]
      BY <1>2, <1>4, <2>2 DEF EndOfFile, Opened
    <2>4. finished' = FALSE
      <3>1. file'.month = m + 1 /\ NoFile.month = -1
        BY <2>3 DEF NoFile
      <3>2. m + 1 # -1
        BY <1>1
      <3>3. file' # NoFile
        BY <3>1, <3>2
      <3> QED
        BY <3>3 DEF EndOfFile
    <2>5. \A p \in Lines : HasRead(p)' <=> HasRead(p)
      <3> TAKE p \in Lines
      <3>1. p[1] \in Int /\ p[2] \in Nat /\ p[2] > 0
        BY LinesTyped
      <3>2. HasRead(p)' <=> p[1] < m + 1 \/ (p[1] = m + 1 /\ p[2] <= 0)
        BY <1>2, <2>3 DEF HasRead
      <3> QED
        BY <1>3, <3>1, <3>2
    <2> QED
      BY <1>1, <1>2, <1>4, <2>1, <2>3, <2>4, <2>5
  <1>5. CASE ~(cur' < ToTs)
    <2>1. finished' = TRUE
      BY <1>5 DEF EndOfFile
    <2>2. ASSUME NEW p \in Lines PROVE p[1] < m + 1
      <3>1. p[1] \in MonthsAsked /\ p[1] \in Int
        BY LinesTyped
      <3>2. SUFFICES ASSUME m + 1 <= p[1] PROVE FALSE
        BY <1>1, <3>1
      <3>3. p[1] \in Nat /\ m + 1 \in Nat
        BY <1>1, <3>1, <3>2
      <3> DEFINE q == p[1]
                 y == q * MonthLength
      <3>4. y < ToTs /\ y \in Nat
        <4>1. y < ToTs
          BY <3>1 DEF MonthsAsked
        <4> QED
          BY <1>1, <3>3, <4>1
      <3>5. MonthLength * (m + 1) <= MonthLength * q
        BY <1>1, <3>2, <3>3, TimesMonotone
      <3>6. MonthLength * (m + 1) = x /\ MonthLength * q = y
        BY <1>1, <3>3 DEF x
      <3>7. x <= y
        BY <3>5, <3>6
      <3> HIDE DEF y, q
      <3> QED
        BY <1>1, <1>5, <3>4, <3>7
    <2> QED
      BY <1>3, <2>1, <2>2
  <1> QED
    BY <1>4, <1>5

(* One call of bufferize(), when the buffer is used up.                    *)
LEMMA BufferizeLines ==
  ASSUME StreamTypes, Regular, Reading, ~finished, finished \in BOOLEAN, Bufferize,
         store' = store, ofs' = 0,
         NEW s, NEW n, Listed(s, n), Ahead(s, n, n)
  PROVE  /\ finished' \in BOOLEAN
         /\ ~finished' => Reading'
         /\ \E e, k : /\ k \in Nat /\ Listed(e, n + k)
                      /\ \A i \in 1..n : e[i] = s[i]
                      /\ IF finished' THEN Through(e, n, ToTs) ELSE Ahead(e, n, n + k)'
  <1> DEFINE m == Month(cur)
             r == file.read
             L == Len(store[m].records)
  <1>1. PICK u, k, b :
           /\ Gives(u, k, buffer', m, r, b)
           /\ b \in 0..(L - r)
           /\ \/ cur' = cur /\ finished' = finished /\ file' = [month |-> m, read |-> r + b]
              \/ b = 0 /\ r = L /\ EndOfFile
           /\ lastTs' \in Nat
           /\ \A p \in Lines : \/ HasRead(p)
                               \/ p[1] = m /\ p[2] \in (r + 1)..(r + b)
                               \/ lastTs' <= Line(p).ts
    BY BufferizeReads
  <1>2. /\ k \in Nat /\ Len(buffer') = k
        /\ n \in Nat /\ m \in Int /\ r \in 0..L /\ L \in Int /\ b \in Nat /\ r \in Nat
        /\ cur \in Nat /\ cur < ToTs /\ m \in MonthsAsked
    BY <1>1, MonthsTyped DEF Gives, Listed, Reading, StreamTypes
  <1>3. \A p \in Lines : HasRead(p) <=> \E j \in 1..n : s[j] = p
    BY DEF Ahead
  <1>4. PICK e : /\ Listed(e, n + k)
                 /\ \A i \in 1..n : e[i] = s[i]
                 /\ \A j \in 1..k : buffer'[j] = Line(e[n + j])
                 /\ \A p \in Lines : (HasRead(p) \/ (p[1] = m /\ p[2] \in (r + 1)..(r + b)))
                                       <=> \E j \in 1..(n + k) : e[j] = p
    BY <1>1, <1>3, ReadsMore
  <1>5. Lines' = Lines /\ \A p : Line(p)' = Line(p)
    BY SameDisk
  <1>6. ASSUME NEW x, NEW y, x = n, y = n + k,
               \A p \in Lines : HasRead(p)' <=> \E j \in 1..(n + k) : e[j] = p
        PROVE  Ahead(e, x, y)'
    <2>1. ofs' = 0 /\ 0 \in 0..Len(buffer') /\ (n + k) - n = Len(buffer') - 0 /\ (n + k) - n = k
      BY <1>2
    <2>2. \A j \in 1..k : buffer'[0 + j] = Line(e[n + j])'
      BY <1>4, <1>5
    <2> QED
      BY <1>5, <1>6, <2>1, <2>2 DEF Ahead
  <1>7. CASE cur' = cur /\ finished' = finished /\ file' = [month |-> m, read |-> r + b]
    <2>1. Month(cur') = m /\ file'.read = r + b /\ file'.month = m
      BY <1>7
    <2>2. \A p \in Lines :
            HasRead(p)' <=> (HasRead(p) \/ (p[1] = m /\ p[2] \in (r + 1)..(r + b)))
      <3> TAKE p \in Lines
      <3>1. p[1] \in Int /\ p[2] \in Nat
        BY LinesTyped
      <3>2. HasRead(p)' <=> p[1] < m \/ (p[1] = m /\ p[2] <= r + b)
        BY <2>1 DEF HasRead
      <3>3. HasRead(p) <=> p[1] < m \/ (p[1] = m /\ p[2] <= r)
        BY DEF HasRead
      <3> HIDE DEF m, r
      <3> QED
        BY <1>2, <3>1, <3>2, <3>3
    <2>3. Ahead(e, n, n + k)'
      BY <1>4, <1>6, <2>2
    <2>4. Reading'
      <3>1. r + b \in 0..L
        <4> HIDE DEF m, r, L
        <4> QED
          BY <1>1, <1>2
      <3>2. \A p \in Lines : HasRead(p)' \/ lastTs' <= Line(p).ts
        BY <1>1, <2>2
      <3> HIDE DEF m, r, L
      <3>3. L = Len(store'[Month(cur')].records)
        BY <2>1 DEF L
      <3> QED
        BY <1>2, <1>5, <1>7, <2>1, <3>1, <3>2, <3>3 DEF Reading
    <2> QED
      BY <1>2, <1>4, <1>7, <2>3, <2>4
  <1>8. CASE b = 0 /\ r = L /\ EndOfFile
    <2>1. /\ finished' \in BOOLEAN
          /\ finished' => \A p \in Lines : HasRead(p)
          /\ ~finished' => /\ \A p \in Lines : HasRead(p)' <=> HasRead(p)
                           /\ cur' \in Nat /\ cur' < ToTs /\ Month(cur') \in MonthsAsked
                           /\ file' = [month |-> Month(cur'), read |-> 0]
      BY <1>8, EndOfFileMonth
    <2>2. \A p : ~(p[2] \in (r + 1)..(r + b))
      BY <1>2, <1>8
    <2>3. CASE finished'
      <3>1. Through(e, n, ToTs)
        <4>1. \A p \in Lines : \E j \in 1..n : e[j] = p
          BY <1>3, <1>4, <2>1, <2>3
        <4> QED
          BY <4>1 DEF Through
      <3> QED
        BY <1>2, <1>4, <2>1, <2>3, <3>1
    <2>4. CASE ~finished'
      <3>1. Ahead(e, n, n + k)'
        BY <1>4, <1>6, <2>1, <2>2, <2>4
      <3>2. Reading'
        <4>1. \A p \in Lines : HasRead(p)' \/ lastTs' <= Line(p).ts
          BY <1>1, <2>1, <2>2, <2>4
        <4>2. file'.read = 0 /\ file'.month = Month(cur')
          BY <2>1, <2>4
        <4>3. 0 \in 0..Len(store'[Month(cur')].records)
          <5>1. Format(Month(cur')) # "none"
            BY <2>1, <2>4 DEF Regular, NoneMissing
          <5>2. Month(cur') \in DOMAIN store
            BY <5>1 DEF Format
          <5>3. Len(store[Month(cur')].records) \in Nat
            BY <5>2, StreamAssumption DEF StreamTypes
          <5> QED
            BY <5>3
        <4> QED
          BY <1>5, <2>1, <2>4, <4>1, <4>2, <4>3 DEF Reading
      <3> QED
        BY <1>2, <1>4, <2>1, <2>4, <3>1, <3>2
    <2> QED
      BY <2>1, <2>3, <2>4
  <1> QED
    BY <1>1, <1>7, <1>8

-----------------------------------------------------------------------------
(* The steps of fillNext(), and the loop around it.                        *)

LEMMA ExactlyNext ==
  ASSUME store' = store, NEW s, NEW n, NEW c, NEW d, Listed(s, n), c \in 0..n,
         Handed(s, c, d, Given', Until'),
         IF finished' THEN Through(s, c, ToTs) ELSE Ahead(s, c, n)',
         loop' # "fill" /\ Started' => Through(s, c, Until')
  PROVE  Exactly(s, n, c, d)'
  <1>1. Lines' = Lines /\ \A p : Line(p)' = Line(p)
    BY SameDisk
  <1>2. Listed(s, n)'
    BY <1>1 DEF Listed, Sooner
  <1>3. Handed(s, c, d, Given, Until)'
    BY <1>1 DEF Handed
  <1>4. \A t : Through(s, c, t)' <=> Through(s, c, t)
    BY <1>1 DEF Through
  <1>5. Through(s, c, ToTs)' <=> Through(s, c, ToTs)
    BY <1>4
  <1>6. Through(s, c, Until)' <=> Through(s, c, Until')
    BY <1>1 DEF Through
  <1> QED
    BY <1>2, <1>3, <1>5, <1>6 DEF Exactly

LEMMA HandedLater ==
  ASSUME StreamTypes, NEW s, NEW n, Listed(s, n), NEW c \in 0..n, NEW d, NEW g,
         NEW t \in Int, NEW w \in Int, t <= w, Handed(s, c, d, g, t)
  PROVE  Handed(s, c, d, g, w)
  <1>1. n \in Nat /\ c \in Nat /\ c <= n /\ d \in 0..c
    BY DEF Listed, Handed
  <1>2. ASSUME NEW j \in (d + 1)..c PROVE Line(s[j]).ts <= w
    <2>1. j \in 1..n
      BY <1>1
    <2>2. s[j] \in Lines
      BY <2>1 DEF Listed
    <2>3. Line(s[j]).ts \in Nat
      BY <2>2, LinesTyped
    <2>4. Line(s[j]).ts <= t
      BY DEF Handed
    <2> QED
      BY <2>3, <2>4
  <1> QED
    BY <1>2 DEF Handed

(* A step that reads nothing and hands over nothing.                       *)
LEMMA IdleLines ==
  ASSUME StreamTypes, FillInv, UNCHANGED <<diskVars, buffer, ofs, finished>>,
         curTs' \in Nat, delivered' \in Seq(Ticks), loop' = "fill" => asked' = curTs',
         Given' = Given, Until \in Int, Until' \in Int, Until <= Until',
         ASSUME Regular, NEW s, NEW n, NEW c, NEW d, Exactly(s, n, c, d)
         PROVE  loop' # "fill" /\ Started' => Through(s, c, Until')
  PROVE  FillInv'
  <1>1. store' = store /\ Lines' = Lines /\ (Regular' <=> Regular) /\ \A p : Line(p)' = Line(p)
    BY SameDisk DEF diskVars
  <1>2. \A p : HasRead(p)' <=> HasRead(p)
    BY DEF HasRead, diskVars
  <1>3. ASSUME Regular PROVE ~finished' => Reading'
    BY <1>1, <1>2, <1>3 DEF Reading, FillInv, diskVars
  <1>4. ASSUME Regular PROVE \E s, n, c, d : Exactly(s, n, c, d)'
    <2>1. PICK s, n, c, d : Exactly(s, n, c, d)
      BY <1>4 DEF FillInv
    <2>2. Listed(s, n) /\ c \in 0..n /\ Handed(s, c, d, Given, Until)
      BY <2>1 DEF Exactly
    <2>3. Handed(s, c, d, Given', Until')
      BY <2>2, HandedLater
    <2>4. IF finished' THEN Through(s, c, ToTs) ELSE Ahead(s, c, n)'
      <3>1. finished' = finished
        OBVIOUS
      <3>2. Ahead(s, c, n) => Ahead(s, c, n)'
        BY <1>1, <1>2 DEF Ahead
      <3> QED
        BY <2>1, <3>1, <3>2 DEF Exactly
    <2>5. loop' # "fill" /\ Started' => Through(s, c, Until')
      BY <1>4, <2>1
    <2>6. Exactly(s, n, c, d)'
      BY <1>1, <2>2, <2>3, <2>4, <2>5, ExactlyNext
    <2> QED
      BY <2>6
  <1>5. finished' \in BOOLEAN
    BY DEF FillInv
  <1> QED
    BY <1>1, <1>3, <1>4, <1>5 DEF FillInv

(* Where the next tick of the buffer is in the list.                       *)
LEMMA UpcomingLine ==
  ASSUME StreamTypes, NEW s, NEW n, NEW c, NEW d, Exactly(s, n, c, d), ~finished,
         ofs < Len(buffer)
  PROVE  /\ n \in Nat /\ c \in Nat /\ d \in 0..c /\ c + 1 \in 1..n /\ c < n
         /\ s[c + 1] \in Lines /\ Upcoming = Line(s[c + 1])
         /\ Upcoming \in Ticks /\ Upcoming.ts \in Nat
  <1>1. n \in Nat /\ c \in 0..n /\ d \in 0..c /\ Ahead(s, c, n)
    BY DEF Exactly, Listed, Handed
  <1>2. ofs \in 0..Len(buffer) /\ n - c = Len(buffer) - ofs
    BY <1>1 DEF Ahead
  <1>3. Len(buffer) \in Int
    BY <1>2
  <1>4. c + 1 \in 1..n /\ c < n /\ 1 \in 1..(n - c)
    BY <1>1, <1>2, <1>3
  <1>5. buffer[ofs + 1] = Line(s[c + 1])
    BY <1>1, <1>4 DEF Ahead
  <1>6. s[c + 1] \in Lines
    BY <1>4 DEF Exactly, Listed
  <1>7. Line(s[c + 1]) \in Ticks /\ Line(s[c + 1]).ts \in Nat
    BY <1>6, LinesTyped
  <1> QED
    BY <1>1, <1>4, <1>5, <1>6, <1>7 DEF Upcoming

(* What is left once the next tick is past.                                *)
LEMMA AheadNext ==
  ASSUME StreamTypes, NEW s, NEW n \in Nat, NEW c \in Nat, c < n, Ahead(s, c, n),
         ofs' = ofs + 1, UNCHANGED <<diskVars, buffer>>
  PROVE  Ahead(s, c + 1, n)'
  <1>1. store' = store /\ Lines' = Lines /\ \A p : Line(p)' = Line(p)
    BY SameDisk DEF diskVars
  <1>2. \A p : HasRead(p)' <=> HasRead(p)
    BY DEF HasRead, diskVars
  <1> DEFINE b == Len(buffer)
             o == ofs
  <1>3. o \in 0..b /\ n - c = b - o /\ b \in Int
    BY DEF Ahead, StreamTypes
  <1>4. \A k \in 1..(n - c) : buffer[o + k] = Line(s[c + k])
    BY DEF Ahead
  <1>5. \A p \in Lines : HasRead(p) <=> \E j \in 1..n : s[j] = p
    BY DEF Ahead
  <1>6. ofs' = o + 1 /\ buffer' = buffer /\ Len(buffer') = b
    OBVIOUS
  <1> HIDE DEF o, b
  <1>7. o + 1 \in 0..b /\ n - (c + 1) = b - (o + 1)
    BY <1>3
  <1>8. \A k \in 1..(n - (c + 1)) : buffer[(o + 1) + k] = Line(s[(c + 1) + k])
    <2> TAKE k \in 1..(n - (c + 1))
    <2>1. k + 1 \in 1..(n - c) /\ o + (k + 1) = (o + 1) + k /\ c + (k + 1) = (c + 1) + k
      BY <1>3
    <2> QED
      BY <1>4, <2>1
  <1> QED
    BY <1>1, <1>2, <1>5, <1>6, <1>7, <1>8 DEF Ahead

LEMMA SkipLines ==
  ASSUME StreamTypes, FillInv, loop = "fill", Skip,
         UNCHANGED <<loop, curTs, delivered>>
  PROVE  FillInv'
  <1>1. /\ ~finished /\ ofs < Len(buffer) /\ Upcoming.ts < FromTs /\ ofs' = ofs + 1
        /\ UNCHANGED <<diskVars, buffer, finished, asked, out>>
    BY DEF Skip, Filling
  <1>2. store' = store /\ Lines' = Lines /\ (Regular' <=> Regular) /\ \A p : Line(p)' = Line(p)
    BY <1>1, SameDisk DEF diskVars
  <1>3. ASSUME Regular PROVE Reading'
    <2>1. \A p : HasRead(p)' <=> HasRead(p)
      BY <1>1 DEF HasRead, diskVars
    <2> QED
      BY <1>1, <1>2, <1>3, <2>1 DEF Reading, FillInv, diskVars
  <1>4. ASSUME Regular PROVE \E s, n, c, d : Exactly(s, n, c, d)'
    <2>1. PICK s, n, c, d : Exactly(s, n, c, d)
      BY <1>4 DEF FillInv
    <2>2. /\ n \in Nat /\ c \in Nat /\ d \in 0..c /\ c + 1 \in 1..n /\ c < n
          /\ s[c + 1] \in Lines /\ Upcoming = Line(s[c + 1]) /\ Upcoming.ts \in Nat
      BY <1>1, <2>1, UpcomingLine
    <2>3. /\ Listed(s, n) /\ Ahead(s, c, n) /\ Handed(s, c, d, Given, Until)
      BY <1>1, <2>1 DEF Exactly
    <2>4. c = d
      <3>1. SUFFICES ASSUME c # d PROVE FALSE
        OBVIOUS
      <3>2. c \in (d + 1)..c /\ c \in 1..n /\ c <= c + 1
        BY <2>2, <3>1
      <3>3. FromTs <= Line(s[c]).ts
        BY <2>3, <3>2 DEF Handed
      <3>4. s[c] \in Lines
        BY <2>3, <3>2 DEF Listed
      <3>5. Upto(s[c], s[c + 1])
        BY <2>2, <2>3, <3>2, ListedOrder
      <3>6. Line(s[c]).ts <= Line(s[c + 1]).ts
        BY <1>4, <2>2, <3>4, <3>5 DEF Regular, LinesInOrder
      <3>7. Line(s[c]).ts \in Nat /\ FromTs \in Nat
        BY <3>4, LinesTyped, StreamAssumption
      <3> QED
        BY <1>1, <2>2, <3>3, <3>6, <3>7
    <2>5. Handed(s, c + 1, d + 1, Given, Until)
      <3>1. \A j \in 1..(d + 1) : j \in 1..d \/ j = c + 1
        BY <2>2, <2>4
      <3>2. \A j \in 1..(d + 1) : Line(s[j]).ts < FromTs
        BY <1>1, <2>2, <2>3, <3>1 DEF Handed
      <3>3. /\ d + 1 \in 0..(c + 1) /\ (c + 1) - (d + 1) = c - d
            /\ \A j : j \notin 1..(c - d) /\ j \notin ((d + 1) + 1)..(c + 1)
        BY <2>2, <2>4
      <3> QED
        BY <2>3, <3>2, <3>3 DEF Handed
    <2>6. Ahead(s, c + 1, n)'
      BY <1>1, <2>2, <2>3, AheadNext
    <2>7. Given' = Given /\ Until' = Until /\ loop' = "fill" /\ ~finished'
      BY <1>1 DEF Given, Until
    <2>8. c + 1 \in 0..n
      BY <2>2
    <2>9. Exactly(s, n, c + 1, d + 1)'
      BY <1>2, <2>3, <2>5, <2>6, <2>7, <2>8, ExactlyNext
    <2> QED
      BY <2>9
  <1> QED
    BY <1>1, <1>2, <1>3, <1>4 DEF FillInv

LEMMA TakeLines ==
  ASSUME StreamTypes, Typed, FillInv, loop = "fill", Take,
         UNCHANGED <<loop, curTs, delivered>>
  PROVE  FillInv'
  <1>1. /\ ~finished /\ ofs < Len(buffer) /\ ofs' = ofs + 1 /\ out' = Append(out, Upcoming)
        /\ FromTs <= Upcoming.ts /\ Upcoming.ts <= ToTs /\ Upcoming.ts <= asked
        /\ UNCHANGED <<diskVars, buffer, finished, asked>>
    BY DEF Take, Filling
  <1>2. store' = store /\ Lines' = Lines /\ (Regular' <=> Regular) /\ \A p : Line(p)' = Line(p)
    BY <1>1, SameDisk DEF diskVars
  <1>3. ASSUME Regular PROVE Reading'
    <2>1. \A p : HasRead(p)' <=> HasRead(p)
      BY <1>1 DEF HasRead, diskVars
    <2> QED
      BY <1>1, <1>2, <1>3, <2>1 DEF Reading, FillInv, diskVars
  <1>4. ASSUME Regular PROVE \E s, n, c, d : Exactly(s, n, c, d)'
    <2>1. PICK s, n, c, d : Exactly(s, n, c, d)
      BY <1>4 DEF FillInv
    <2>2. /\ n \in Nat /\ c \in Nat /\ d \in 0..c /\ c + 1 \in 1..n /\ c < n
          /\ s[c + 1] \in Lines /\ Upcoming = Line(s[c + 1])
          /\ Upcoming \in Ticks /\ Upcoming.ts \in Nat
      BY <1>1, <2>1, UpcomingLine
    <2>3. /\ Listed(s, n) /\ Ahead(s, c, n) /\ Handed(s, c, d, Given, Until)
      BY <1>1, <2>1 DEF Exactly
    <2>4. Until = asked /\ Until' = Until /\ loop' = "fill" /\ ~finished'
      BY <1>1 DEF Until, FillInv
    <2> DEFINE g == Given
    <2>5. Given' = Append(g, Upcoming)
      <3>1. delivered \in Seq(Ticks) /\ out \in Seq(Ticks)
        BY DEF FillInv, Typed
      <3>2. delivered \o Append(out, Upcoming) = Append(delivered \o out, Upcoming)
        BY <2>2, <3>1
      <3> QED
        BY <1>1, <3>2 DEF Given
    <2>6. /\ g \in Seq(Ticks) /\ Len(g) = c - d
          /\ \A j \in 1..(c - d) : g[j] = Line(s[d + j])
          /\ \A j \in 1..d : Line(s[j]).ts < FromTs
          /\ \A j \in (d + 1)..c : /\ FromTs <= Line(s[j]).ts /\ Line(s[j]).ts <= ToTs
                                   /\ Line(s[j]).ts <= Until
      BY <2>3 DEF Handed
    <2> HIDE DEF g
    <2>7. Handed(s, c + 1, d, Append(g, Upcoming), Until)
      <3> DEFINE a == Append(g, Upcoming)
                 k == c - d
      <3>1. k \in Nat /\ d \in Nat /\ (c + 1) - d = k + 1 /\ d + (k + 1) = c + 1
        <4>1. c \in Nat /\ d \in 0..c
          BY <2>2
        <4> QED
          BY <4>1
      <3>2. /\ a \in Seq(Ticks) /\ Len(a) = k + 1 /\ a[k + 1] = Upcoming
            /\ \A j \in 1..k : a[j] = g[j]
        <4>1. g \in Seq(Ticks) /\ Len(g) = k /\ Upcoming \in Ticks
          BY <2>2, <2>6
        <4> HIDE DEF k
        <4> QED
          BY <4>1
      <3> HIDE DEF a, k
      <3>3. \A j \in 1..(k + 1) : j \in 1..k \/ j = k + 1
        BY <3>1
      <3>4. \A j \in 1..((c + 1) - d) : a[j] = Line(s[d + j])
        <4> TAKE j \in 1..((c + 1) - d)
        <4>1. j \in 1..(k + 1)
          BY <3>1
        <4>2. CASE j \in 1..k
          <5>1. g[j] = Line(s[d + j])
            BY <2>6, <4>2 DEF k
          <5> QED
            BY <3>2, <4>2, <5>1
        <4>3. CASE j = k + 1
          BY <2>2, <3>1, <3>2, <4>3
        <4> QED
          BY <3>3, <4>1, <4>2, <4>3
      <3>5. \A j \in (d + 1)..(c + 1) : j \in (d + 1)..c \/ j = c + 1
        BY <2>2
      <3>6. \A j \in (d + 1)..(c + 1) : /\ FromTs <= Line(s[j]).ts /\ Line(s[j]).ts <= ToTs
                                        /\ Line(s[j]).ts <= Until
        BY <1>1, <2>2, <2>4, <2>6, <3>5
      <3>7. d \in 0..(c + 1)
        BY <2>2
      <3> QED
        BY <2>6, <3>1, <3>2, <3>4, <3>6, <3>7 DEF Handed, a
    <2>8. Ahead(s, c + 1, n)'
      BY <1>1, <2>2, <2>3, AheadNext
    <2>9. c + 1 \in 0..n
      BY <2>2
    <2>10. Exactly(s, n, c + 1, d)'
      BY <1>2, <2>3, <2>4, <2>5, <2>7, <2>8, <2>9, ExactlyNext
    <2> QED
      BY <2>10
  <1> QED
    BY <1>1, <1>2, <1>3, <1>4 DEF FillInv

(* "finished when reach max timestamp": all the lines up to it were given. *)
LEMMA ReachMaxLines ==
  ASSUME StreamTypes, FillInv, loop = "fill", ReachMax,
         UNCHANGED <<loop, curTs, delivered>>
  PROVE  FillInv'
  <1>1. /\ ~finished /\ ofs < Len(buffer) /\ Upcoming.ts > ToTs /\ finished' = TRUE
        /\ UNCHANGED <<store, cur, buffer, ofs, asked, out>>
    BY DEF ReachMax, Filling
  <1>2. Lines' = Lines /\ (Regular' <=> Regular) /\ \A p : Line(p)' = Line(p)
    BY <1>1, SameDisk
  <1>3. ASSUME Regular PROVE \E s, n, c, d : Exactly(s, n, c, d)'
    <2>1. PICK s, n, c, d : Exactly(s, n, c, d)
      BY <1>3 DEF FillInv
    <2>2. /\ n \in Nat /\ c \in Nat /\ c + 1 \in 1..n /\ c < n
          /\ s[c + 1] \in Lines /\ Upcoming = Line(s[c + 1]) /\ Upcoming.ts \in Nat
      BY <1>1, <2>1, UpcomingLine
    <2>3. /\ Listed(s, n) /\ Ahead(s, c, n) /\ c \in 0..n /\ Handed(s, c, d, Given, Until)
      BY <1>1, <2>1 DEF Exactly
    <2>4. Through(s, c, ToTs)
      <3>1. SUFFICES ASSUME NEW p \in Lines, Line(p).ts <= ToTs, \A j \in 1..c : s[j] # p
                     PROVE  FALSE
        BY DEF Through
      <3>2. LinesInOrder /\ cur \in Nat
        BY <1>1, <1>3 DEF Regular, FillInv, Reading
      <3>3. Line(s[c + 1]).ts <= Line(p).ts
        BY <2>2, <2>3, <3>1, <3>2, AheadRest
      <3>4. Line(p).ts \in Nat /\ ToTs \in Nat
        BY LinesTyped, StreamAssumption
      <3> QED
        BY <1>1, <2>2, <3>1, <3>3, <3>4
    <2>5. Given' = Given /\ Until' = Until /\ loop' = "fill"
      BY <1>1 DEF Given, Until
    <2>6. Exactly(s, n, c, d)'
      BY <1>1, <2>3, <2>4, <2>5, ExactlyNext
    <2> QED
      BY <2>6
  <1> QED
    BY <1>1, <1>2, <1>3 DEF FillInv

(* Sound files end the stream with nothing in the buffer.                  *)
LEMMA BufferizeEnds ==
  ASSUME StreamTypes, Regular, Reading, Bufferize, ~finished, finished'
  PROVE  buffer' = <<>>
  <1>1. PICK u, k, b :
          /\ Gives(u, k, buffer', Month(cur), file.read, b)
          /\ finished' = finished \/ b = 0
    BY BufferizeReads
  <1>2. b = 0 /\ file.read \in Nat
    BY <1>1 DEF StreamTypes
  <1>3. k \in Nat /\ Len(buffer') = k /\ buffer' \in Seq(Ticks)
        /\ \A j \in 1..k : u[j][2] \in (file.read + 1)..(file.read + b)
    BY <1>1, BufferizeTyped DEF Gives
  <1>4. k = 0
    <2>1. SUFFICES ASSUME k # 0 PROVE FALSE
      OBVIOUS
    <2>2. 1 \in 1..k
      BY <1>3, <2>1
    <2> QED
      BY <1>2, <1>3, <2>2
  <1> QED
    BY <1>3, <1>4

LEMMA RefillLines ==
  ASSUME StreamTypes, FillInv, loop = "fill", Refill,
         UNCHANGED <<loop, curTs, delivered>>
  PROVE  FillInv'
  <1>1. /\ ~finished /\ ofs >= Len(buffer) /\ UNCHANGED <<store, asked>>
        /\ finished \in BOOLEAN
    BY DEF Refill, Filling, FillInv
  <1>2. Lines' = Lines /\ (Regular' <=> Regular) /\ \A p : Line(p)' = Line(p)
    BY <1>1, SameDisk
  <1>3. finished' \in BOOLEAN
    <2>1. \/ finished' = finished \/ finished' = TRUE
          \/ finished' = (file' = NoFile)
      BY DEF Refill, Bufferize, ReadFile, Continue, EndOfFile
    <2> QED
      BY <1>1, <2>1
  <1>4. ASSUME Regular
        PROVE  (~finished' => Reading') /\ \E s, n, c, d : Exactly(s, n, c, d)'
    <2>1. PICK s, n, c, d : Exactly(s, n, c, d)
      BY <1>4 DEF FillInv
    <2>2. /\ Reading /\ Listed(s, n) /\ Ahead(s, c, n) /\ c \in 0..n /\ n \in Nat
          /\ Handed(s, c, d, Given, Until)
      BY <1>1, <1>4, <2>1 DEF FillInv, Exactly, Listed
    <2>3. Bufferize /\ ofs' = 0 /\ out' = out
      BY <1>1, <1>4, <2>2, BufferizeEnds DEF Refill, Reading
    <2>4. c = n
      <3>1. ofs \in 0..Len(buffer) /\ n - c = Len(buffer) - ofs
        BY <2>2 DEF Ahead
      <3> QED
        BY <1>1, <2>2, <3>1
    <2>5. /\ ~finished' => Reading'
          /\ \E e, k : /\ k \in Nat /\ Listed(e, n + k)
                       /\ \A i \in 1..n : e[i] = s[i]
                       /\ IF finished' THEN Through(e, n, ToTs) ELSE Ahead(e, n, n + k)'
      BY <1>1, <1>4, <2>2, <2>3, <2>4, BufferizeLines
    <2>6. PICK e, k : /\ k \in Nat /\ Listed(e, n + k)
                      /\ \A i \in 1..n : e[i] = s[i]
                      /\ IF finished' THEN Through(e, n, ToTs) ELSE Ahead(e, n, n + k)'
      BY <2>5
    <2>7. Handed(e, n, d, Given, Until)
      BY <2>2, <2>4, <2>6, HandedMore
    <2>8. Given' = Given /\ Until' = Until /\ loop' = "fill"
      BY <1>1, <2>3 DEF Given, Until
    <2>9. n \in 0..(n + k)
      BY <2>2, <2>6
    <2>10. Exactly(e, n + k, n, d)'
      BY <1>1, <2>3, <2>6, <2>7, <2>8, <2>9, ExactlyNext
    <2> QED
      BY <2>5, <2>10
  <1> QED
    BY <1>1, <1>2, <1>3, <1>4 DEF FillInv

LEMMA EndFillLines ==
  ASSUME StreamTypes, Typed, FillInv, EndFill
  PROVE  FillInv'
  <1>1. /\ loop = "fill" /\ loop' # "fill" /\ Filled /\ asked = curTs
        /\ UNCHANGED <<diskVars, buffer, ofs, finished, out, timestep>>
        /\ delivered' = delivered \o out
    BY DEF EndFill, Returned, FillInv, config
  <1>2. timestep \in Nat /\ curTs \in Nat
    BY FeedAssumption DEF StreamTypes, FillInv
  <1>3. curTs' \in Nat /\ LastAsked' = curTs
    <2>1. CASE out = <<>>
      BY <1>1, <1>2, <2>1 DEF EndFill, LastAsked
    <2>2. CASE out # <<>>
      BY <1>2, <2>2 DEF EndFill, LastAsked
    <2> QED
      BY <2>1, <2>2
  <1>4. delivered' \in Seq(Ticks)
    BY <1>1, ConcatProperties DEF FillInv, Typed
  <1>5. Given' = Given /\ Until = curTs /\ Until' = curTs
    BY <1>1, <1>3 DEF Given, Until
  <1>6. ASSUME Regular, NEW s, NEW n, NEW c, NEW d, Exactly(s, n, c, d)
        PROVE  Through(s, c, Until')
    <2>1. CASE finished
      <3>1. Through(s, c, ToTs)
        BY <1>6, <2>1 DEF Exactly
      <3> QED
        BY <3>1 DEF Through
    <2>2. CASE ~finished
      <3>1. ofs < Len(buffer) /\ Upcoming.ts > curTs
        BY <1>1, <2>2 DEF Filled
      <3>2. /\ n \in Nat /\ c \in Nat /\ c + 1 \in 1..n /\ c < n
            /\ s[c + 1] \in Lines /\ Upcoming = Line(s[c + 1]) /\ Upcoming.ts \in Nat
        BY <1>6, <2>2, <3>1, UpcomingLine
      <3>3. Listed(s, n) /\ Ahead(s, c, n) /\ c \in 0..n
        BY <1>6, <2>2 DEF Exactly
      <3>4. LinesInOrder /\ cur \in Nat
        BY <1>6, <2>2 DEF Regular, FillInv, Reading
      <3>5. ASSUME NEW p \in Lines, Line(p).ts <= curTs, \A j \in 1..c : s[j] # p
            PROVE  FALSE
        <4>1. Line(s[c + 1]).ts <= Line(p).ts
          BY <3>2, <3>3, <3>4, <3>5, AheadRest
        <4>2. Line(p).ts \in Nat
          BY LinesTyped
        <4> QED
          BY <1>2, <3>1, <3>2, <3>5, <4>1, <4>2
      <3> QED
        BY <1>5, <3>5 DEF Through
    <2> QED
      BY <2>1, <2>2
  <1>7. Until \in Int /\ Until' \in Int /\ Until <= Until'
    BY <1>2, <1>5
  <1> QED
    BY <1>1, <1>3, <1>4, <1>5, <1>6, <1>7, IdleLines

(* A step of the loop away from the stream.                                *)
LEMMA LoopLines ==
  ASSUME StreamTypes, FillInv, UNCHANGED <<diskVars, buffer, ofs, finished, delivered>>,
         loop # "fill", curTs' \in Nat,
         \/ loop' # "fill" /\ LastAsked' = LastAsked /\ (Started' => Started)
         \/ /\ loop' = "fill" /\ out' = <<>> /\ asked' = curTs' /\ LastAsked <= curTs'
  PROVE  FillInv'
  <1>1. delivered \in Seq(Ticks) /\ curTs \in Nat /\ timestep \in Nat
    BY FeedAssumption DEF FillInv, StreamTypes
  <1>2. LastAsked \in Int
    BY <1>1 DEF LastAsked
  <1>3. Given = delivered /\ Until = LastAsked
    BY DEF Given, Until
  <1>4. CASE loop' # "fill" /\ LastAsked' = LastAsked /\ (Started' => Started)
    <2>1. Given' = Given /\ Until' = Until
      BY <1>3, <1>4 DEF Given, Until
    <2>2. ASSUME Regular, NEW s, NEW n, NEW c, NEW d, Exactly(s, n, c, d)
          PROVE  loop' # "fill" /\ Started' => Through(s, c, Until')
      BY <1>4, <2>1, <2>2 DEF Exactly
    <2>3. Until \in Int /\ Until' \in Int /\ Until <= Until'
      BY <1>2, <1>3, <2>1
    <2> QED
      BY <1>1, <1>4, <2>1, <2>2, <2>3, IdleLines
  <1>5. CASE /\ loop' = "fill" /\ out' = <<>> /\ asked' = curTs' /\ LastAsked <= curTs'
    <2>1. Given' = Given /\ Until' = curTs'
      <3>1. delivered \o <<>> = delivered
        BY <1>1
      <3> QED
        BY <1>3, <1>5, <3>1 DEF Given, Until
    <2>2. Until \in Int /\ Until' \in Int /\ Until <= Until'
      BY <1>2, <1>3, <1>5, <2>1
    <2> QED
      BY <1>1, <1>5, <2>1, <2>2, IdleLines
  <1> QED
    BY <1>4, <1>5

LEMMA LinesStep == ASSUME TimeInv, Typed, FillInv, [Next]_vars PROVE FillInv'
  <1>t. StreamTypes /\ curTs \in Nat /\ timestep \in Nat
    BY FeedAssumption DEF TimeInv, StreamTypes, FillInv
  <1>1. CASE Fill
    <2>1. /\ UNCHANGED <<diskVars, buffer, ofs, finished, delivered>>
          /\ loop # "fill" /\ curTs' = curTs /\ loop' = "fill" /\ out' = <<>> /\ asked' = curTs
      BY <1>1 DEF Fill, FillNext
    <2>2. LastAsked <= curTs
      BY <1>t DEF LastAsked
    <2> QED
      BY <1>t, <2>1, <2>2, LoopLines
  <1>2. CASE KeepFilling
    <2>1. loop = "fill" /\ UNCHANGED <<loop, curTs, delivered>>
      BY <1>2 DEF KeepFilling
    <2> QED
      BY <1>t, <1>2, <2>1, RefillLines, SkipLines, ReachMaxLines, TakeLines
      DEF KeepFilling, FillStep
  <1>3. CASE EndFill
    BY <1>t, <1>3, EndFillLines
  <1>4. CASE LoadBar \/ DropTick \/ ExtendBar \/ OpenBar \/ UNCHANGED vars
    <2>1. UNCHANGED <<streamVars, delivered, loop, curTs, timestep>>
      BY <1>4 DEF LoadBar, DropTick, ExtendBar, OpenBar, Updating, vars, config
    <2>2. UNCHANGED <<diskVars, buffer, ofs, finished, asked, out>>
      BY <2>1 DEF streamVars
    <2>3. LastAsked' = LastAsked /\ Started' = Started /\ Given' = Given /\ Until' = Until
      BY <2>1, <2>2 DEF LastAsked, Started, Given, Until
    <2>4. delivered \in Seq(Ticks) /\ (loop = "fill" => asked = curTs)
      BY DEF FillInv
    <2>5. Until \in Int
      BY <1>t DEF Until, LastAsked
    <2>6. ASSUME Regular, NEW s, NEW n, NEW c, NEW d, Exactly(s, n, c, d)
          PROVE  loop' # "fill" /\ Started' => Through(s, c, Until')
      BY <2>1, <2>3, <2>6 DEF Exactly
    <2>7. Until' \in Int /\ Until <= Until'
      BY <2>3, <2>5
    <2> QED
      BY <1>t, <2>1, <2>2, <2>3, <2>4, <2>5, <2>6, <2>7, IdleLines
  <1>5. CASE EndLoad \/ EndUpdate \/ Process
    <2>1. /\ UNCHANGED <<streamVars, delivered, timestep>>
          /\ loop # "fill" /\ loop' # "fill" /\ curTs' \in Nat
          /\ LastAsked' = LastAsked /\ (Started' => Started)
      BY <1>t, <1>5 DEF EndLoad, EndUpdate, Process, LastAsked, Started, config
    <2>2. UNCHANGED <<diskVars, buffer, ofs, finished>>
      BY <2>1 DEF streamVars
    <2> QED
      BY <1>t, <2>1, <2>2, LoopLines
  <1> QED
    BY <1>1, <1>2, <1>3, <1>4, <1>5 DEF Next

LEMMA LinesInit == ASSUME Init PROVE FillInv
  <1>1. /\ cur = FromTs /\ file = NoFile /\ lastTs = 0 /\ buffer = <<>> /\ ofs = 0
        /\ finished = FALSE /\ curTs = FromTs /\ loop = "load" /\ delivered = <<>>
        /\ FromTs \in Nat /\ ToTs \in Nat /\ FromTs < ToTs /\ timestep \in Timesteps
    BY StreamAssumption DEF Init, StreamInit
  <1>2. StreamTypes
    BY TimeInit DEF TimeInv
  <1>3. \A p \in Lines : ~HasRead(p)
    <2> TAKE p \in Lines
    <2>1. p[1] \in MonthsAsked /\ p[1] \in Int /\ p[2] \in Nat /\ p[2] > 0
      BY <1>2, LinesTyped
    <2>2. Month(FromTs) \in Nat
      BY <1>1, MonthOf
    <2>3. Month(FromTs) <= p[1]
      BY <2>1 DEF MonthsAsked
    <2>4. file.read = 0
      BY <1>1 DEF NoFile
    <2> QED
      BY <1>1, <2>1, <2>2, <2>3, <2>4 DEF HasRead
  <1>4. ASSUME Regular PROVE Reading
    <2>1. /\ Month(FromTs) \in Nat /\ Month(ToTs) \in Nat /\ Month(FromTs) <= Month(ToTs)
          /\ Month(FromTs) * MonthLength <= FromTs /\ Month(FromTs) * MonthLength \in Nat
      <3>1. /\ Month(FromTs) \in Nat /\ Month(ToTs) \in Nat /\ Month(FromTs) <= Month(ToTs)
            /\ Month(FromTs) * MonthLength <= FromTs
        <4>1. FromTs <= ToTs
          BY <1>1
        <4> QED
          BY <1>1, <4>1, MonthOf, MonthMonotone
      <3>2. MonthLength \in Nat
        BY StreamAssumption
      <3>3. Month(FromTs) * MonthLength \in Nat
        BY <3>1, <3>2
      <3> QED
        BY <3>1, <3>3
    <2>2. Month(FromTs) * MonthLength < ToTs
      <3> DEFINE x == Month(FromTs) * MonthLength
      <3>1. x \in Nat /\ x <= FromTs
        BY <2>1
      <3> HIDE DEF x
      <3>2. x < ToTs
        BY <1>1, <3>1
      <3> QED
        BY <3>2 DEF x
    <2>3. Month(FromTs) \in MonthsAsked
      BY <2>1, <2>2 DEF MonthsAsked
    <2>4. Month(FromTs) \in DOMAIN store
      BY <1>4, <2>3 DEF Regular, NoneMissing, Format
    <2>5. Len(store[Month(FromTs)].records) \in Nat
      BY <1>2, <2>4, StreamAssumption DEF StreamTypes
    <2>6. \A p \in Lines : lastTs <= Line(p).ts
      BY <1>1, <1>2, LinesTyped
    <2>7. file.read = 0
      BY <1>1 DEF NoFile
    <2> QED
      BY <1>1, <2>3, <2>5, <2>6, <2>7 DEF Reading
  <1>5. Exactly(<<>>, 0, 0, 0)
    <2>1. Listed(<<>>, 0)
      BY DEF Listed
    <2>2. Handed(<<>>, 0, 0, Given, Until)
      BY <1>1 DEF Handed, Given
    <2>3. Ahead(<<>>, 0, 0)
      BY <1>1, <1>3 DEF Ahead
    <2>4. ~Started
      BY <1>1 DEF Started
    <2> QED
      BY <1>1, <2>1, <2>2, <2>3, <2>4 DEF Exactly
  <1>6. curTs \in Nat /\ delivered \in Seq(Ticks) /\ finished \in BOOLEAN /\ loop # "fill"
    <2>1. finished \in BOOLEAN
      BY <1>1, Zenon
    <2>2. curTs \in Nat /\ delivered \in Seq(Ticks)
      BY <1>1
    <2> QED
      BY <1>1, <2>1, <2>2
  <1>7. \E s, n, c, d : Exactly(s, n, c, d)
    BY <1>5
  <1> QED
    BY <1>1, <1>4, <1>6, <1>7 DEF FillInv

(* After every call of fillNext() what was handed over is, once each and   *)
(* in order, the ticks of the files between the bounds of the stream and   *)
(* up to the time asked (tickstream.h:70), when no month of the range      *)
(* lacks its file and the files do not go back in time.                    *)
THEOREM FillHandsOverAll == Spec => []FillIsExact
  <1> DEFINE Inv == TimeInv /\ Typed /\ FillInv
  <1>1. Init => Inv
    <2>1. Init => Typed
      BY DEF Init, StreamInit, Typed
    <2> QED
      BY <2>1, TimeInit, LinesInit
  <1>2. Inv /\ [Next]_vars => Inv'
    BY TimeStep, TypedStep, LinesStep
  <1>3. Inv => FillIsExact
    <2>1. SUFFICES ASSUME Inv, loop # "fill", Started, Regular
                   PROVE  /\ Len(delivered) = Cardinality(Due)
                          /\ \A p \in Due : delivered[Rank(p)] = Line(p)
      BY DEF FillIsExact, Started, Regular, LinesInOrder, NoneMissing
    <2>2. StreamTypes
      BY <2>1 DEF TimeInv
    <2>3. PICK s, n, c, d : Exactly(s, n, c, d)
      BY <2>1 DEF FillInv
    <2>4. Given = delivered /\ Until = LastAsked
      BY <2>1 DEF Given, Until
    <2>5. /\ Listed(s, n) /\ c \in 0..n
          /\ Handed(s, c, d, delivered, LastAsked) /\ Through(s, c, LastAsked)
      BY <2>1, <2>3, <2>4 DEF Exactly
    <2> QED
      BY <2>2, <2>5, HandedIsDue
  <1> HIDE DEF Inv
  <1> QED
    BY <1>1, <1>2, <1>3, PTL DEF Spec
=============================================================================
