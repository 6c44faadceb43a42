--------------------------- MODULE LogBufferProofs ---------------------------
(***************************************************************************)
(* The ring of LogBuffer implements BoundedLog, for any capacity.  The     *)
(* invariant says where messages are: in every slot once the ring has      *)
(* wrapped, in the slots before pos until then.  With it each message read *)
(* in order has a slot that is known without a modulus (Element), and the  *)
(* two specifications are compared message by message.                     *)
(***************************************************************************)
EXTENDS LogBuffer, SequenceTheorems, TLAPS

Filled == \A j \in Slots : full \/ j < pos => entries[j] \in Messages
RingInv == TypeOK /\ Filled

(* The slot of the i-th of the n latest messages.                          *)
SlotOf(n, i) ==
  LET j == pos - n + i - 1 IN IF j < 0 THEN j + Capacity ELSE j
-----------------------------------------------------------------------------
(* A modulus that takes one subtraction at most.                           *)
LEMMA ModOnce ==
  ASSUME NEW c \in Nat \ {0}, NEW x \in 0..(2 * c - 1)
  PROVE  x % c = IF x < c THEN x ELSE x - c
OBVIOUS

(* A function on 1..k is a sequence of that length.                        *)
LEMMA FunctionIsSeq ==
  ASSUME NEW S, NEW k \in Nat, NEW f \in [1..k -> S]
  PROVE  f \in Seq(S) /\ Len(f) = k
OBVIOUS

LEMMA TotalRange ==
  ASSUME LogBufferAssumption, RingInv
  PROVE  /\ Total \in 0..Capacity /\ Capacity \in Nat \ {0} /\ pos \in 0..(Capacity - 1)
         /\ full => Total = Capacity
         /\ ~full => Total = pos
BY DEF LogBufferAssumption, RingInv, TypeOK, Slots, Total

(* The n latest messages, and where each of them is.                       *)
LEMMA Element ==
  ASSUME LogBufferAssumption, RingInv, NEW n \in 0..Total
  PROVE  /\ Latest(n) \in Seq(Messages) /\ Len(Latest(n)) = n
         /\ \A i \in 1..n : SlotOf(n, i) \in Slots /\ Latest(n)[i] = entries[SlotOf(n, i)]
<1>0. /\ Capacity \in Nat \ {0} /\ pos \in 0..(Capacity - 1) /\ n \in 0..Capacity
      /\ ~full => n <= pos
  BY TotalRange
<1> DEFINE start == (pos - n + Capacity) % Capacity
           at(i) == IF full THEN entries[(start + i - 1) % Capacity] ELSE entries[pos - n + i - 1]
<1>1. Latest(n) = [i \in 1..n |-> at(i)]
  BY DEF Latest
<1>2. pos - n + Capacity \in 0..(2 * Capacity - 1)
  BY <1>0
<1>9. \A x \in 0..(2 * Capacity - 1) : x % Capacity = IF x < Capacity THEN x ELSE x - Capacity
  BY <1>0, ModOnce
<1>3. start = IF pos - n < 0 THEN pos - n + Capacity ELSE pos - n
  <2> DEFINE x == pos - n + Capacity
  <2>1. x % Capacity = IF x < Capacity THEN x ELSE x - Capacity
    BY <1>2, <1>9
  <2>2. x < Capacity <=> pos - n < 0
    BY <1>0
  <2>3. x - Capacity = pos - n
    BY <1>0
  <2> QED BY <2>1, <2>2, <2>3
<1> HIDE DEF start
<1>4. ASSUME NEW i \in 1..n
      PROVE  SlotOf(n, i) \in Slots /\ at(i) = entries[SlotOf(n, i)] /\ at(i) \in Messages
  <2>1. start + i - 1 \in 0..(2 * Capacity - 1)
    BY <1>0, <1>3
  <2> DEFINE y == start + i - 1
  <2>2. /\ y \in 0..(2 * Capacity - 1)
        /\ at(i) = IF full THEN entries[y % Capacity] ELSE entries[pos - n + i - 1]
    BY <2>1
  <2>8. y = start + i - 1
    OBVIOUS
  <2> HIDE DEF y
  <2>9. y % Capacity = IF y < Capacity THEN y ELSE y - Capacity
    BY <2>2, <1>9
  <2>3. y % Capacity = SlotOf(n, i)
    <3>1. CASE pos - n < 0
      <4>1. start = pos - n + Capacity
        BY <1>3, <3>1
      <4> QED BY <1>0, <2>8, <2>9, <3>1, <4>1 DEF SlotOf
    <3>2. CASE ~(pos - n < 0)
      <4>1. start = pos - n
        BY <1>3, <3>2
      <4> QED BY <1>0, <2>8, <2>9, <3>2, <4>1 DEF SlotOf
    <3> QED BY <3>1, <3>2
  <2>4. ~full => pos - n + i - 1 = SlotOf(n, i) /\ SlotOf(n, i) < pos
    BY <1>0 DEF SlotOf
  <2>5. SlotOf(n, i) \in Slots
    BY <1>0 DEF SlotOf, Slots
  <2>6. at(i) = entries[SlotOf(n, i)]
    BY <2>2, <2>3, <2>4
  <2>7. entries[SlotOf(n, i)] \in Messages
    BY <2>4, <2>5 DEF RingInv, Filled
  <2> QED BY <2>5, <2>6, <2>7
<1>5. Latest(n) \in [1..n -> Messages]
  BY <1>1, <1>4
<1>6. n \in Nat
  BY <1>0
<1>7. Latest(n) \in Seq(Messages) /\ Len(Latest(n)) = n
  BY <1>5, <1>6, FunctionIsSeq
<1>8. \A i \in 1..n : Latest(n)[i] = at(i)
  BY <1>1
<1> QED BY <1>4, <1>7, <1>8
-----------------------------------------------------------------------------
LEMMA InitRing == LogBufferAssumption /\ Init => RingInv
<1> SUFFICES ASSUME LogBufferAssumption, Init PROVE RingInv
  OBVIOUS
<1>1. 0 \in Slots /\ ~full /\ pos = 0
  BY DEF LogBufferAssumption, Init, Slots
<1>2. entries \in [Slots -> Lines] /\ pending \in Seq(Lines) /\ out \in Seq(Messages)
  BY DEF Init, Lines
<1>3. \A j \in Slots : ~(j < pos)
  BY <1>1 DEF LogBufferAssumption, Slots
<1> QED BY <1>1, <1>2, <1>3 DEF RingInv, TypeOK, Filled

LEMMA NextRing ==
  ASSUME LogBufferAssumption, RingInv, [Next]_vars
  PROVE  RingInv'
<1>0. /\ Capacity \in Nat \ {0} /\ pos \in 0..(Capacity - 1) /\ Blank \notin Messages
      /\ entries \in [Slots -> Lines] /\ pending \in Seq(Lines)
  BY TotalRange DEF LogBufferAssumption, RingInv, TypeOK
<1>1. ASSUME NEW k \in 1..MaxLines, NEW lines \in [1..k -> Lines], Write(lines)
      PROVE  RingInv'
  <2>1. k \in Nat
    BY DEF LogBufferAssumption
  <2>2. pending' \in Seq(Lines)
    BY <1>1, <2>1, FunctionIsSeq DEF Write
  <2> QED BY <1>1, <2>2 DEF Write, RingInv, TypeOK, Filled
<1>2. CASE StoreLine
  <2>1. Head(pending) \in Lines /\ pending' \in Seq(Lines)
    BY <1>0, <1>2, HeadTailProperties DEF StoreLine
  <2>2. CASE Head(pending) = Blank
    BY <1>2, <2>1, <2>2 DEF StoreLine, RingInv, TypeOK, Filled
  <2>3. CASE Head(pending) # Blank
    <3>1. /\ entries' = [entries EXCEPT ![pos] = Head(pending)]
          /\ pos' = IF pos + 1 >= Capacity THEN 0 ELSE pos + 1
          /\ full' = (full \/ pos + 1 >= Capacity) /\ out' = out
      BY <1>2, <2>3 DEF StoreLine
    <3>2. Head(pending) \in Messages /\ pos \in Slots
      BY <1>0, <2>1, <2>3 DEF Lines, Slots
    <3>3. entries' \in [Slots -> Lines] /\ pos' \in Slots /\ full' \in BOOLEAN
      BY <1>0, <2>1, <3>1 DEF Slots
    <3>4. ASSUME NEW j \in Slots, full' \/ j < pos'
          PROVE  entries'[j] \in Messages
      <4>0. j \in 0..(Capacity - 1)
        BY DEF Slots
      <4>1. j = pos \/ full \/ j < pos
        <5>1. CASE pos + 1 >= Capacity
          BY <1>0, <4>0, <5>1
        <5>2. CASE ~(pos + 1 >= Capacity)
          <6>1. pos' = pos + 1
            BY <3>1, <5>2
          <6>2. full' => full
            BY <3>1, <5>2
          <6> QED BY <1>0, <3>4, <4>0, <6>1, <6>2
        <5> QED BY <5>1, <5>2
      <4> QED BY <1>0, <3>1, <3>2, <4>1 DEF RingInv, Filled
    <3> QED BY <2>1, <3>1, <3>3, <3>4 DEF RingInv, TypeOK, Filled
  <2> QED BY <2>2, <2>3
<1>3. ASSUME NEW n \in Requests, Last(n)
      PROVE  RingInv'
  <2>1. Clamp(n) \in 0..Total
    BY TotalRange DEF LogBufferAssumption, Clamp
  <2>2. out' \in Seq(Messages)
    BY <1>3, <2>1, Element DEF Last
  <2> QED BY <1>3, <2>2 DEF Last, RingInv, TypeOK, Filled
<1>4. CASE UNCHANGED vars
  BY <1>4 DEF vars, RingInv, TypeOK, Filled
<1> QED BY <1>1, <1>2, <1>3, <1>4 DEF Next

(* The ring never holds anything but messages where Last reads, and its    *)
(* positions stay within it: for any capacity.                             *)
THEOREM RingIsSound ==
  ASSUME LogBufferAssumption
  PROVE  Spec => []RingInv
<1>1. Init => RingInv
  BY InitRing
<1>2. RingInv /\ [Next]_vars => RingInv'
  BY NextRing
<1> QED BY <1>1, <1>2, PTL DEF Spec
-----------------------------------------------------------------------------
(* Element for all that is kept, in a state and in the one after it.       *)
KeptSlots ==
  LogBufferAssumption /\ RingInv =>
    /\ Latest(Total) \in Seq(Messages) /\ Len(Latest(Total)) = Total
    /\ \A i \in 1..Total : Latest(Total)[i] = entries[SlotOf(Total, i)]

LEMMA KeptNow == KeptSlots
BY TotalRange, Element DEF KeptSlots

LEMMA KeptNext == KeptSlots'
BY KeptNow, PTL

(* A message that is stored goes to the end of what is kept, and the oldest*)
(* leaves a ring that has wrapped.                                         *)
LEMMA StoreIsLog ==
  ASSUME LogBufferAssumption, RingInv, RingInv', StoreLine, Head(pending) # Blank
  PROVE  Ring!Log(Head(pending))
<1> DEFINE e == Head(pending)
           target == IF Len(kept) < Capacity THEN Append(kept, e) ELSE Append(Tail(kept), e)
<1>0. /\ Capacity \in Nat \ {0} /\ pos \in 0..(Capacity - 1) /\ Total \in 0..Capacity
      /\ full => Total = Capacity
      /\ ~full => Total = pos
      /\ entries \in [Slots -> Lines]
  BY TotalRange DEF RingInv, TypeOK
<1>1. /\ entries' = [entries EXCEPT ![pos] = e] /\ out' = out
      /\ pos' = IF pos + 1 >= Capacity THEN 0 ELSE pos + 1
      /\ full' = (full \/ pos + 1 >= Capacity)
  BY DEF StoreLine
<1>2. e \in Messages
  <2>1. pending \in Seq(Lines) /\ pending # << >>
    BY DEF RingInv, TypeOK, StoreLine
  <2> QED BY <2>1, HeadTailProperties DEF Lines
<1>3. /\ kept \in Seq(Messages) /\ Len(kept) = Total
      /\ \A i \in 1..Total : SlotOf(Total, i) \in Slots /\ kept[i] = entries[SlotOf(Total, i)]
  BY <1>0, Element DEF kept
<1>4. /\ kept' \in Seq(Messages) /\ Len(kept') = Total'
      /\ \A i \in 1..Total' : kept'[i] = entries'[SlotOf(Total, i)']
  <2>1. (/\ Latest(Total) \in Seq(Messages) /\ Len(Latest(Total)) = Total
         /\ \A i \in 1..Total : Latest(Total)[i] = entries[SlotOf(Total, i)])'
    BY KeptNext DEF KeptSlots
  <2> QED BY <2>1 DEF kept
<1>5. Total' = IF Total < Capacity THEN Total + 1 ELSE Total
  <2>1. CASE full
    <3>1. full'
      BY <1>1, <2>1
    <3> QED BY <1>0, <2>1, <3>1 DEF Total
  <2>2. CASE ~full
    <3>1. CASE pos + 1 >= Capacity
      <4>1. full'
        BY <1>1, <3>1
      <4>2. Total' = Capacity /\ Total = pos /\ pos + 1 = Capacity
        BY <1>0, <2>2, <3>1, <4>1 DEF Total
      <4> QED BY <1>0, <4>2
    <3>2. CASE ~(pos + 1 >= Capacity)
      <4>1. ~full' /\ pos' = pos + 1
        BY <1>1, <2>2, <3>2
      <4> QED BY <1>0, <2>2, <4>1 DEF Total
    <3> QED BY <3>1, <3>2
  <2> QED BY <2>1, <2>2
<1>6. /\ target \in Seq(Messages) /\ Len(target) = Total'
      /\ \A i \in 1..(Total' - 1) : target[i] = IF Total < Capacity THEN kept[i] ELSE kept[i + 1]
      /\ target[Total'] = e
  <2>1. CASE Total < Capacity
    BY <1>0, <1>2, <1>3, <1>5, <2>1, AppendProperties
  <2>2. CASE ~(Total < Capacity)
    <3>1. kept # << >> /\ Total = Capacity
      BY <1>0, <1>3, <2>2
    <3>2. /\ Tail(kept) \in Seq(Messages) /\ Len(Tail(kept)) = Total - 1
          /\ \A i \in 1..(Total - 1) : Tail(kept)[i] = kept[i + 1]
      BY <1>3, <3>1, HeadTailProperties
    <3>3. target = Append(Tail(kept), e)
      BY <1>3, <2>2
    <3> QED BY <1>0, <1>2, <1>5, <3>1, <3>2, <3>3, AppendProperties
  <2> QED BY <2>1, <2>2
<1>7. ASSUME NEW i \in 1..Total'
      PROVE  kept'[i] = target[i]
  <2>1. SlotOf(Total, i)' = IF i = Total' THEN pos
                            ELSE SlotOf(Total, IF Total < Capacity THEN i ELSE i + 1)
    BY <1>0, <1>1, <1>5, <1>7 DEF SlotOf
  <2>2. CASE i = Total'
    BY <1>0, <1>1, <1>4, <1>6, <2>1, <2>2 DEF Slots
  <2>3. CASE i # Total'
    <3> DEFINE k == IF Total < Capacity THEN i ELSE i + 1
    <3>1. k \in 1..Total /\ i \in 1..(Total' - 1)
      BY <1>0, <1>5, <1>7, <2>3
    <3>2. SlotOf(Total, k) # pos
      BY <1>0, <3>1 DEF SlotOf
    <3>3. entries'[SlotOf(Total, k)] = entries[SlotOf(Total, k)]
      BY <1>0, <1>1, <1>3, <3>1, <3>2
    <3> QED BY <1>3, <1>4, <1>6, <2>1, <2>3, <3>1, <3>3
  <2> QED BY <2>2, <2>3
<1>8. kept' = target
  BY <1>4, <1>6, <1>7, SeqEqual
<1> QED BY <1>1, <1>8 DEF Ring!Log

(* The answer is the end of what is kept.                                  *)
LEMMA LastIsAnswer ==
  ASSUME LogBufferAssumption, RingInv, NEW n \in Requests, Last(n)
  PROVE  Ring!Answer(n)
<1> DEFINE k == Clamp(n)
           first == (IF n < Len(kept) THEN Len(kept) - n ELSE 0) + 1
           target == SubSeq(kept, first, Len(kept))
<1>0. /\ Capacity \in Nat \ {0} /\ pos \in 0..(Capacity - 1) /\ Total \in 0..Capacity
      /\ n \in Nat \ {0}
  BY TotalRange DEF LogBufferAssumption
<1>1. k \in 0..Total /\ k = IF n > Total THEN Total ELSE n
  BY <1>0 DEF Clamp
<1>2. /\ kept \in Seq(Messages) /\ Len(kept) = Total
      /\ \A i \in 1..Total : kept[i] = entries[SlotOf(Total, i)]
  BY <1>0, Element DEF kept
<1>3. /\ Latest(k) \in Seq(Messages) /\ Len(Latest(k)) = k
      /\ \A i \in 1..k : Latest(k)[i] = entries[SlotOf(k, i)]
  BY <1>1, Element
<1>4. first = Total - k + 1 /\ first \in 1..(Total + 1)
  BY <1>0, <1>1, <1>2
<1>5. \A i \in first..Len(kept) : kept[i] \in Messages
  <2>1. kept \in [1..Total -> Messages]
    BY <1>2, LenProperties
  <2> QED BY <1>0, <1>2, <1>4, <2>1
<1> HIDE DEF first
<1>6. /\ target \in Seq(Messages) /\ Len(target) = k
      /\ \A i \in 1..k : target[i] = kept[Total - k + i]
  BY <1>0, <1>1, <1>2, <1>4, <1>5, SubSeqProperties
<1>7. ASSUME NEW i \in 1..k
      PROVE  Latest(k)[i] = target[i]
  <2>1. Total - k + i \in 1..Total
    BY <1>0, <1>1
  <2>2. SlotOf(k, i) = SlotOf(Total, Total - k + i)
    BY <1>0, <1>1, TotalRange DEF SlotOf
  <2> QED BY <1>2, <1>3, <1>6, <2>1, <2>2
<1>8. Latest(k) = target
  BY <1>3, <1>6, <1>7, SeqEqual
<1> QED BY <1>8 DEF Last, Ring!Answer, kept, Latest, Total, first
-----------------------------------------------------------------------------
(* The buffer is a log bounded by its capacity: what the log API answers is*)
(* what BoundedLog would, for any capacity, lines and requests.            *)
THEOREM BufferIsBoundedLog ==
  ASSUME LogBufferAssumption
  PROVE  Spec => ImplementsBoundedLog
<1>1. Init => Ring!Init
  <2> SUFFICES ASSUME Init PROVE Ring!Init
    OBVIOUS
  <2>1. RingInv
    BY InitRing
  <2>2. Total = 0
    BY DEF Init, Total
  <2>3. kept \in Seq(Messages) /\ Len(kept) = 0
    BY <2>1, <2>2, Element, TotalRange DEF kept
  <2>4. kept = << >>
    BY <2>3, EmptySeq
  <2> QED BY <2>4 DEF Init, Ring!Init
<1>2. RingInv /\ RingInv' /\ [Next]_vars => [Ring!Next]_<<kept, out>>
  <2> SUFFICES ASSUME RingInv, RingInv', [Next]_vars
               PROVE  Ring!Next \/ (kept' = kept /\ out' = out)
    OBVIOUS
  <2>1. (UNCHANGED <<entries, pos, full, out>>) => kept' = kept /\ out' = out
    BY DEF kept, Latest, Total
  <2>2. ASSUME NEW k \in 1..MaxLines, NEW lines \in [1..k -> Lines], Write(lines)
        PROVE  kept' = kept /\ out' = out
    BY <2>1, <2>2 DEF Write
  <2>3. CASE StoreLine /\ Head(pending) = Blank
    BY <2>1, <2>3 DEF StoreLine
  <2>4. CASE StoreLine /\ Head(pending) # Blank
    <3>1. Head(pending) \in Messages
      BY <2>4, HeadTailProperties DEF StoreLine, RingInv, TypeOK, Lines
    <3> QED BY <2>4, <3>1, StoreIsLog DEF Ring!Next
  <2>5. ASSUME NEW n \in Requests, Last(n)
        PROVE  Ring!Next
    BY <2>5, LastIsAnswer DEF Ring!Next
  <2>6. CASE UNCHANGED vars
    BY <2>1, <2>6 DEF vars
  <2> QED BY <2>2, <2>3, <2>4, <2>5, <2>6 DEF Next
<1>3. Spec => []RingInv
  BY RingIsSound
<1> QED BY <1>1, <1>2, <1>3, PTL DEF Spec, ImplementsBoundedLog, Ring!Spec
=============================================================================
