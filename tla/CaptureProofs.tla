--------------------------- MODULE CaptureProofs ---------------------------
(***************************************************************************)
(* The capture path, for any number of CPUs, packets, requests, restarts   *)
(* and any buffer and batch sizes: types, the order of one CPU's events,   *)
(* that none is lost without a reason, and that what Core is told of a     *)
(* request is true, wherever the segment was cut.                          *)
(***************************************************************************)
EXTENDS Capture, NaturalsInduction, WellFoundedInduction, FiniteSetTheorems,
        SequenceTheorems, TLAPS

-----------------------------------------------------------------------------
(* Numbers                                                                 *)

LessThan == {p \in Nat \X Nat : p[1] < p[2]}

\* There is no infinite descent in the naturals.
LEMMA LessThanWellFounded == IsWellFoundedOn(LessThan, Nat)
  BY NatLessThanWellFounded, Zenon DEF OpToRel, LessThan

\* A set of numbers that is not empty has a least element.
LEMMA LeastNumber ==
    ASSUME NEW S \in SUBSET Nat, S # {}
    PROVE  \E n \in S : \A m \in S : n <= m
<1>1. PICK x \in S : \A y \in S : <<y, x>> \notin LessThan
  BY LessThanWellFounded, WFMin
<1>2. \A y \in S : ~ (y < x)
  BY <1>1 DEF LessThan
<1> QED
  BY <1>2

-----------------------------------------------------------------------------
(* Parts of sequences                                                      *)

LEMMA PrefixFacts ==
    ASSUME NEW S, NEW s \in Seq(S), NEW n \in Nat
    PROVE  /\ Prefix(s, n) \in Seq(S)
           /\ Len(Prefix(s, n)) = IF Len(s) < n THEN Len(s) ELSE n
           /\ \A i \in 1 .. Len(Prefix(s, n)) : Prefix(s, n)[i] = s[i]
<1> DEFINE k == IF Len(s) < n THEN Len(s) ELSE n
<1>1. k \in Nat /\ k <= Len(s) /\ \A i \in 1 .. k : s[i] \in S
  OBVIOUS
<1>2. Prefix(s, n) = SubSeq(s, 1, k)
  BY DEF Prefix
<1> HIDE DEF k
<1>3. /\ SubSeq(s, 1, k) \in Seq(S)
      /\ Len(SubSeq(s, 1, k)) = IF 1 <= k THEN k - 1 + 1 ELSE 0
      /\ \A i \in 1 .. k - 1 + 1 : SubSeq(s, 1, k)[i] = s[1 + i - 1]
  BY <1>1, SubSeqProperties
<1>4. Len(SubSeq(s, 1, k)) = k /\ \A i \in 1 .. k : SubSeq(s, 1, k)[i] = s[i]
  BY <1>1, <1>3
<1> QED
  BY <1>2, <1>3, <1>4 DEF k

\* The rest of a sequence.
LEMMA SuffixFacts ==
    ASSUME NEW S, NEW s \in Seq(S), NEW n \in Nat \ {0}
    PROVE  /\ Suffix(s, n) \in Seq(S)
           /\ Len(Suffix(s, n)) = IF n <= Len(s) THEN Len(s) - n + 1 ELSE 0
           /\ \A i \in 1 .. Len(Suffix(s, n)) : Suffix(s, n)[i] = s[i + n - 1]
<1>1. Len(s) \in Nat /\ \A i \in n .. Len(s) : s[i] \in S
  OBVIOUS
<1>2. /\ SubSeq(s, n, Len(s)) \in Seq(S)
      /\ Len(SubSeq(s, n, Len(s))) = IF n <= Len(s) THEN Len(s) - n + 1 ELSE 0
      /\ \A i \in 1 .. Len(s) - n + 1 : SubSeq(s, n, Len(s))[i] = s[n + i - 1]
  BY <1>1, SubSeqProperties
<1> QED
  BY <1>1, <1>2 DEF Suffix

\* Min is the least number of a set.
LEMMA MinFacts ==
    ASSUME NEW I \in SUBSET Nat, I # {}
    PROVE  Min(I) \in I /\ \A j \in I : Min(I) <= j
<1>1. \E m \in I : \A j \in I : m <= j
  BY LeastNumber
<1> QED
  BY <1>1 DEF Min

\* Position is the first index whose cell is in the set, or 0.
LEMMA PositionFacts ==
    ASSUME NEW S, NEW s \in Seq(S), NEW C
    PROVE  \/ /\ Position(s, C) = 0
              /\ \A i \in 1 .. Len(s) : s[i] \notin C
           \/ /\ Position(s, C) \in 1 .. Len(s)
              /\ s[Position(s, C)] \in C
              /\ \A i \in 1 .. Position(s, C) - 1 : s[i] \notin C
<1> DEFINE I == {i \in 1 .. Len(s) : s[i] \in C}
<1>1. Position(s, C) = IF I # {} THEN Min(I) ELSE 0
  BY DEF Position, SelectInSeq
<1>2. CASE I = {}
  BY <1>1, <1>2
<1>3. CASE I # {}
  <2>1. I \in SUBSET Nat
    OBVIOUS
  <2>2. Min(I) \in I /\ \A j \in I : Min(I) <= j
    <3> HIDE DEF I
    <3> QED
      BY <1>3, <2>1, MinFacts
  <2>3. Position(s, C) \in I /\ \A j \in I : Position(s, C) <= j
    BY <1>1, <1>3, <2>2
  <2>4. Position(s, C) \in 1 .. Len(s) /\ s[Position(s, C)] \in C
    BY <2>3
  <2>5. \A i \in 1 .. Position(s, C) - 1 : i \in 1 .. Len(s) /\ ~ (Position(s, C) <= i)
    BY <2>4
  <2> QED
    BY <2>3, <2>4, <2>5
<1> QED
  BY <1>2, <1>3

\* Words and texts are cut out of a segment.
LEMMA BeforeType ==
    ASSUME NEW S, NEW s \in Seq(S), NEW C
    PROVE  Before(s, C) \in Seq(S)
<1>1. Position(s, C) = 0 \/ Position(s, C) - 1 \in Nat
  BY PositionFacts
<1> QED
  BY <1>1, PrefixFacts DEF Before

LEMMA TextType ==
    ASSUME NEW S, NEW s \in Seq(S)
    PROVE  Text(s) \in Seq(S)
  BY DEF Text

\* What is parsed out of cells are cells.
LEMMA ParserTypes ==
    ASSUME NEW s \in Seq(Cells)
    PROVE  /\ parse_method(s) \in Seq(Cells)
           /\ parse_path(s) \in Seq(Cells)
           /\ parse_host(s) \in Seq(Cells)
<1>1. \A C : Position(s, C) + 1 \in Nat \ {0}
  BY PositionFacts
<1>2. \A C : Suffix(s, Position(s, C) + 1) \in Seq(Cells)
  BY <1>1, SuffixFacts
<1>3. parse_method(s) \in Seq(Cells)
  BY BeforeType, TextType DEF parse_method
<1>4. parse_path(s) \in Seq(Cells)
  <2> DEFINE rest == Suffix(s, Position(s, {SP}) + 1)
  <2>1. rest \in Seq(Cells)
    BY <1>2
  <2>2. Text(Before(rest, {SP})) \in Seq(Cells)
    BY <2>1, BeforeType, TextType
  <2> QED
    BY <2>2 DEF parse_path
<1>5. parse_host(s) \in Seq(Cells)
  <2> DEFINE after == Suffix(s, Position(s, {HOST}) + 1)
             start == Position(after, Cells \ {SP})
  <2>1. after \in Seq(Cells)
    BY <1>2
  <2> HIDE DEF after
  <2>2. start = 0 \/ start \in Nat \ {0}
    BY <2>1, PositionFacts
  <2> HIDE DEF start
  <2>3. CASE start = 0
    BY <2>3 DEF parse_host, after, start
  <2>4. CASE start \in Nat \ {0}
    <3>1. Suffix(after, start) \in Seq(Cells)
      BY <2>1, <2>4, SuffixFacts
    <3>2. Before(Text(Before(Suffix(after, start), {EOL})), {COLON}) \in Seq(Cells)
      BY <3>1, BeforeType, TextType
    <3> QED
      BY <3>2 DEF parse_host, after, start
  <2> QED
    BY <2>2, <2>3, <2>4
<1> QED
  BY <1>3, <1>4, <1>5

\* The report of a captured event keeps its timestamp.
LEMMA ParsedType ==
    ASSUME NEW e \in PerfEvent
    PROVE  Parsed(e) \in NetworkEvent /\ Parsed(e).timestamp_ns = e.timestamp_ns
<1>1. e.payload \in Seq(Cells) /\ e.timestamp_ns \in 1 .. MaxPackets
  BY DEF PerfEvent
<1>2. payload_bytes(e.payload) \in Seq(Cells)
  BY <1>1, PrefixFacts, HttpHeadAssumption DEF payload_bytes
<1> QED
  BY <1>1, <1>2, ParserTypes DEF Parsed, NetworkEvent
-----------------------------------------------------------------------------
(* The invariant                                                           *)

\* Of the packets in `cap`, the one with timestamp ts came from CPU c.
On(cap, c, ts) == ts \in 1 .. Len(cap) /\ cap[ts].cpu = c

\* The buffer and the batch of a CPU hold events of that CPU, in order, and
\* the batch is older than the buffer.
InLine(cap, c, buf, bat) ==
    /\ \A i \in 1 .. Len(buf) : On(cap, c, buf[i].timestamp_ns)
    /\ \A i \in 1 .. Len(bat) : On(cap, c, bat[i].timestamp_ns)
    /\ \A i, j \in 1 .. Len(buf) : i < j => buf[i].timestamp_ns < buf[j].timestamp_ns
    /\ \A i, j \in 1 .. Len(bat) : i < j => bat[i].timestamp_ns < bat[j].timestamp_ns
    /\ \A i \in 1 .. Len(bat), j \in 1 .. Len(buf) :
          bat[i].timestamp_ns < buf[j].timestamp_ns

Queued == \A c \in Cpus : InLine(captured, c, buffer[c], batch[c])

\* What Core accepted of a CPU is older than all that waits there, but for the
\* event of the call that is about to return.
Ahead(ts, buf, bat, call) ==
    /\ \A j \in 1 .. Len(buf) : ts < buf[j].timestamp_ns
    /\ \A j \in 1 .. Len(bat) : (j > 1 \/ call # "accepted") => ts < bat[j].timestamp_ns

Delivered ==
    \A i \in 1 .. Len(received), c \in Cpus :
        LET ts == received[i].timestamp_ns
        IN  On(captured, c, ts) => Ahead(ts, buffer[c], batch[c], rpc[c])

\* Timestamps of what Core received are those of captured packets.
Genuine ==
    \A i \in 1 .. Len(received) :
        \E c \in Cpus : On(captured, c, received[i].timestamp_ns)

\* An accepted call carries what Core received.
Answered ==
    \A c \in Cpus : rpc[c] = "accepted" =>
        \E i \in 1 .. Len(received) :
            received[i].timestamp_ns = batch[c][1].timestamp_ns

IInv == TypeOK /\ Queued /\ Delivered /\ Genuine /\ Answered /\ OrderedPerCpu /\ NoSilentLoss

-----------------------------------------------------------------------------
(* Types                                                                   *)

\* The steps by which a task is done with the first event of its batch.
Done(c) == IgnoreEvent(c) \/ RpcSucceeds(c) \/ RpcFails(c)

\* A captured request finds room in its buffer.
LEMMA FilterTypes ==
    ASSUME TypeOK, NEW c \in Cpus, NEW p \in Packets, HttpFilter(c, p)
    PROVE  TypeOK'
<1> DEFINE now == Len(captured) + 1
           event == [timestamp_ns |-> now, payload |-> Captured(p.payload)]
<1>1. p.payload \in Seq(Cells)
  BY CaptureAssumption DEF PacketType
<1>2. Captured(p.payload) \in Seq(Cells)
  BY <1>1, PrefixFacts, HttpHeadAssumption DEF Captured
<1>3. captured \in Seq([cpu: Cpus, packet: Packets]) /\ now \in 1 .. MaxPackets
  BY CaptureAssumption DEF TypeOK, HttpFilter
<1>4. event \in PerfEvent
  BY <1>2, <1>3 DEF PerfEvent
<1> HIDE DEF event
<1>5. /\ captured' \in Seq([cpu: Cpus, packet: Packets])
      /\ Len(captured') <= MaxPackets
  BY <1>3, AppendProperties DEF HttpFilter
<1>6. buffer' \in [Cpus -> Seq(PerfEvent)] /\ \A d \in Cpus : Len(buffer'[d]) <= BufferSize
  <2>1. /\ buffer \in [Cpus -> Seq(PerfEvent)]
        /\ \A d \in Cpus : Len(buffer[d]) \in Nat /\ Len(buffer[d]) <= BufferSize
    BY DEF TypeOK
  <2>2. CASE Len(buffer[c]) >= BufferSize
    BY <2>1, <2>2 DEF HttpFilter
  <2>3. CASE ~ (Len(buffer[c]) >= BufferSize)
    <3>1. buffer' = [buffer EXCEPT ![c] = Append(buffer[c], event)]
      BY <2>3 DEF HttpFilter, event
    <3>2. /\ Append(buffer[c], event) \in Seq(PerfEvent)
          /\ Len(Append(buffer[c], event)) = Len(buffer[c]) + 1
      BY <1>4, <2>1, AppendProperties
    <3> QED
      BY <2>1, <2>3, <3>1, <3>2, CaptureAssumption
  <2> QED
    BY <2>2, <2>3
<1>7. excused' \subseteq 1 .. MaxPackets
  BY <1>3 DEF HttpFilter, TypeOK
<1> QED
  BY <1>5, <1>6, <1>7 DEF HttpFilter, TypeOK

\* A batch takes no more than its slots.
LEMMA ReadTypes ==
    ASSUME TypeOK, NEW c \in Cpus, ReadEvents(c)
    PROVE  /\ TypeOK'
           /\ batch' = [batch EXCEPT ![c] = Prefix(buffer[c], BatchSize)]
           /\ buffer' = [buffer EXCEPT ![c] = Suffix(buffer[c], BatchSize + 1)]
<1>1. /\ buffer \in [Cpus -> Seq(PerfEvent)] /\ batch \in [Cpus -> Seq(PerfEvent)]
      /\ \A d \in Cpus : Len(buffer[d]) \in Nat /\ Len(buffer[d]) <= BufferSize
      /\ \A d \in Cpus : Len(batch[d]) <= BatchSize
      /\ BatchSize \in Nat \ {0} /\ BatchSize + 1 \in Nat \ {0}
      /\ BufferSize \in Nat \ {0}
  BY CaptureAssumption DEF TypeOK
<1>2. /\ batch' = [batch EXCEPT ![c] = Prefix(buffer[c], BatchSize)]
      /\ buffer' = [buffer EXCEPT ![c] = Suffix(buffer[c], BatchSize + 1)]
  BY DEF ReadEvents
<1>3. /\ Prefix(buffer[c], BatchSize) \in Seq(PerfEvent)
      /\ Len(Prefix(buffer[c], BatchSize)) <= BatchSize
  BY <1>1, PrefixFacts
<1>4. /\ Suffix(buffer[c], BatchSize + 1) \in Seq(PerfEvent)
      /\ Len(Suffix(buffer[c], BatchSize + 1)) <= BufferSize
  BY <1>1, SuffixFacts
<1>5. batch' \in [Cpus -> Seq(PerfEvent)] /\ \A d \in Cpus : Len(batch'[d]) <= BatchSize
  BY <1>1, <1>2, <1>3
<1>6. buffer' \in [Cpus -> Seq(PerfEvent)] /\ \A d \in Cpus : Len(buffer'[d]) <= BufferSize
  BY <1>1, <1>2, <1>4
<1>7. \A d \in Cpus : rpc'[d] # "none" => batch'[d] # << >>
  BY <1>1, <1>2 DEF ReadEvents, TypeOK
<1> QED
  BY <1>2, <1>5, <1>6, <1>7 DEF ReadEvents, TypeOK

\* A task that is done with an event: the head of its batch goes, and no call
\* is open.
LEMMA DoneFacts ==
    ASSUME TypeOK, NEW c \in Cpus, Done(c)
    PROVE  /\ batch[c] \in Seq(PerfEvent) /\ batch[c] # << >>
           /\ batch' = [batch EXCEPT ![c] = Tail(batch[c])]
           /\ rpc' = [rpc EXCEPT ![c] = "none"]
           /\ \/ excused' = excused \cup {batch[c][1].timestamp_ns}
              \/ excused' = excused /\ rpc[c] = "accepted"
           /\ UNCHANGED <<captured, buffer, received, restarts>>
<1>1. batch[c] \in Seq(PerfEvent) /\ batch[c] # << >>
  BY DEF TypeOK, Done, IgnoreEvent, RpcSucceeds, RpcFails
<1>2. Head(batch[c]) = batch[c][1]
  BY <1>1
<1>3. rpc' = [rpc EXCEPT ![c] = "none"]
  BY DEF TypeOK, Done, IgnoreEvent, RpcSucceeds, RpcFails
<1> QED
  BY <1>1, <1>2, <1>3 DEF Done, IgnoreEvent, RpcSucceeds, RpcFails, NextEvent

\* Being done with an event shortens the batch.
LEMMA DoneTypes ==
    ASSUME TypeOK, NEW c \in Cpus, Done(c)
    PROVE  TypeOK'
<1>0. batch \in [Cpus -> Seq(PerfEvent)] /\ \A d \in Cpus : Len(batch[d]) <= BatchSize
  BY DEF TypeOK
<1>1. /\ Tail(batch[c]) \in Seq(PerfEvent)
      /\ Len(Tail(batch[c])) = Len(batch[c]) - 1
      /\ batch[c][1] \in PerfEvent
      /\ Len(batch[c]) \in Nat /\ Len(batch[c]) <= BatchSize
  BY <1>0, DoneFacts, HeadTailProperties
<1>2. batch' \in [Cpus -> Seq(PerfEvent)] /\ \A d \in Cpus : Len(batch'[d]) <= BatchSize
  <2>1. batch' = [batch EXCEPT ![c] = Tail(batch[c])]
    BY DoneFacts
  <2>2. Len(Tail(batch[c])) <= BatchSize
    BY <1>1, CaptureAssumption
  <2> HIDE DEF TypeOK
  <2> QED
    BY <1>0, <1>1, <2>1, <2>2
<1>3. /\ rpc' \in [Cpus -> {"none", "sent", "accepted"}]
      /\ \A d \in Cpus : rpc'[d] # "none" => batch'[d] # << >>
  <2>1. /\ rpc' = [rpc EXCEPT ![c] = "none"]
        /\ batch' = [batch EXCEPT ![c] = Tail(batch[c])]
    BY DoneFacts
  <2>2. /\ rpc \in [Cpus -> {"none", "sent", "accepted"}]
        /\ \A d \in Cpus : rpc[d] # "none" => batch[d] # << >>
    BY DEF TypeOK
  <2>3. rpc'[c] = "none" /\ \A d \in Cpus \ {c} : rpc'[d] = rpc[d] /\ batch'[d] = batch[d]
    BY <1>0, <2>1, <2>2
  <2> QED
    BY <2>1, <2>2, <2>3
<1>4. excused' \subseteq 1 .. MaxPackets
  <2>1. batch[c][1].timestamp_ns \in 1 .. MaxPackets
    BY <1>1 DEF PerfEvent
  <2>2. excused \subseteq 1 .. MaxPackets
    BY DEF TypeOK
  <2>3. excused' \subseteq excused \cup {batch[c][1].timestamp_ns}
    BY DoneFacts
  <2> QED
    BY <2>1, <2>2, <2>3
<1> QED
  BY <1>2, <1>3, <1>4, DoneFacts DEF TypeOK

\* A call is made for the first event of the batch.
LEMMA SendTypes ==
    ASSUME TypeOK, NEW c \in Cpus, SendEvent(c)
    PROVE  TypeOK'
  BY DEF TypeOK, SendEvent

\* Core receives the event of a call in flight.
LEMMA AcceptTypes ==
    ASSUME TypeOK, NEW c \in Cpus, CoreAccepts(c)
    PROVE  /\ TypeOK'
           /\ batch[c] \in Seq(PerfEvent) /\ batch[c] # << >>
           /\ Head(batch[c]) = batch[c][1]
           /\ Parsed(batch[c][1]) \in NetworkEvent
           /\ Parsed(batch[c][1]).timestamp_ns = batch[c][1].timestamp_ns
<1>1. batch[c] \in Seq(PerfEvent) /\ batch[c] # << >>
  BY DEF TypeOK, CoreAccepts
<1>2. Head(batch[c]) = batch[c][1] /\ batch[c][1] \in PerfEvent
  BY <1>1
<1>3. /\ Parsed(batch[c][1]) \in NetworkEvent
      /\ Parsed(batch[c][1]).timestamp_ns = batch[c][1].timestamp_ns
  BY <1>2, ParsedType
<1>4. received' \in Seq(NetworkEvent)
  BY <1>2, <1>3, AppendProperties DEF TypeOK, CoreAccepts
<1>5. /\ rpc' \in [Cpus -> {"none", "sent", "accepted"}]
      /\ \A d \in Cpus : rpc'[d] # "none" => batch'[d] # << >>
  BY <1>1 DEF TypeOK, CoreAccepts
<1> QED
  BY <1>1, <1>2, <1>3, <1>4, <1>5 DEF TypeOK, CoreAccepts

\* What a restart gives up.
LEMMA WaitingEvents ==
    ASSUME TypeOK, NEW c \in Cpus
    PROVE  Range(buffer[c] \o batch[c]) =
              {buffer[c][i] : i \in 1 .. Len(buffer[c])}
                  \cup {batch[c][i] : i \in 1 .. Len(batch[c])}
<1> DEFINE q == buffer[c]
           r == batch[c]
<1>1. q \in Seq(PerfEvent) /\ r \in Seq(PerfEvent)
  BY DEF TypeOK
<1> HIDE DEF q, r
<1>2. /\ Len(q) \in Nat /\ Len(r) \in Nat
      /\ DOMAIN (q \o r) = 1 .. Len(q) + Len(r)
      /\ \A i \in 1 .. Len(q) + Len(r) :
            (q \o r)[i] = IF i <= Len(q) THEN q[i] ELSE r[i - Len(q)]
  BY <1>1, ConcatProperties
<1>3. \A i \in 1 .. Len(q) : i \in 1 .. Len(q) + Len(r) /\ (q \o r)[i] = q[i]
  BY <1>2
<1>4. \A i \in 1 .. Len(r) : /\ Len(q) + i \in 1 .. Len(q) + Len(r)
                             /\ (q \o r)[Len(q) + i] = r[i]
  BY <1>2
<1>5. \A i \in 1 .. Len(q) + Len(r) : i <= Len(q) \/ i - Len(q) \in 1 .. Len(r)
  BY <1>2
<1>6. Range(q \o r) = {(q \o r)[i] : i \in 1 .. Len(q) + Len(r)}
  BY <1>2 DEF Range
<1>7. \A x \in {(q \o r)[i] : i \in 1 .. Len(q) + Len(r)} :
         x \in {q[i] : i \in 1 .. Len(q)} \cup {r[i] : i \in 1 .. Len(r)}
  BY <1>2, <1>5
<1>8. /\ \A i \in 1 .. Len(q) : q[i] \in {(q \o r)[k] : k \in 1 .. Len(q) + Len(r)}
      /\ \A i \in 1 .. Len(r) : r[i] \in {(q \o r)[k] : k \in 1 .. Len(q) + Len(r)}
  BY <1>3, <1>4
<1>9. Range(q \o r) = {q[i] : i \in 1 .. Len(q)} \cup {r[i] : i \in 1 .. Len(r)}
  BY <1>6, <1>7, <1>8
<1> QED
  BY <1>9 DEF q, r

\* A restart gives up what waits in buffers and batches.
LEMMA RestartTypes ==
    ASSUME TypeOK, LoaderRestart
    PROVE  TypeOK'
<1>1. ASSUME NEW c \in Cpus, NEW e \in Range(buffer[c] \o batch[c])
      PROVE  e.timestamp_ns \in 1 .. MaxPackets
  <2>1. \/ \E i \in 1 .. Len(buffer[c]) : e = buffer[c][i]
        \/ \E i \in 1 .. Len(batch[c]) : e = batch[c][i]
    BY <1>1, WaitingEvents
  <2>2. buffer[c] \in Seq(PerfEvent) /\ batch[c] \in Seq(PerfEvent)
    BY DEF TypeOK
  <2>3. e \in PerfEvent
    BY <2>1, <2>2
  <2> QED
    BY <2>3 DEF PerfEvent
<1>2. excused' \subseteq 1 .. MaxPackets
  <2>1. excused' = excused \cup
           UNION {{e.timestamp_ns : e \in Range(buffer[c] \o batch[c])} : c \in Cpus}
    BY DEF LoaderRestart
  <2>2. excused \subseteq 1 .. MaxPackets
    BY DEF TypeOK
  <2>3. ASSUME NEW x \in excused', x \notin excused PROVE x \in 1 .. MaxPackets
    <3>1. PICK c \in Cpus : x \in {e.timestamp_ns : e \in Range(buffer[c] \o batch[c])}
      BY <2>1, <2>3
    <3>2. PICK e \in Range(buffer[c] \o batch[c]) : x = e.timestamp_ns
      BY <3>1
    <3> QED
      BY <1>1, <3>2
  <2> QED
    BY <2>2, <2>3
<1> QED
  BY <1>2, CaptureAssumption DEF TypeOK, LoaderRestart

\* The kinds of steps.
LEMMA Steps ==
    ASSUME Next
    PROVE  \/ \E c \in Cpus, p \in Packets : HttpFilter(c, p)
           \/ \E c \in Cpus : ReadEvents(c) \/ Done(c) \/ SendEvent(c) \/ CoreAccepts(c)
           \/ LoaderRestart
  BY DEF Next, Reader, Done

\* Every step keeps the types.
LEMMA NextTypes == TypeOK /\ [Next]_vars => TypeOK'
<1> SUFFICES ASSUME TypeOK, [Next]_vars PROVE TypeOK'
  OBVIOUS
<1>1. CASE UNCHANGED vars
  BY <1>1 DEF TypeOK, vars
<1>2. CASE Next
  BY <1>2, Steps, FilterTypes, ReadTypes, DoneTypes, SendTypes, AcceptTypes, RestartTypes
<1> QED
  BY <1>1, <1>2

\* The first state has them.
LEMMA InitTypes == Init => TypeOK
  BY CaptureAssumption DEF Init, TypeOK

\* All state of the kernel, the loader and Core's end has its type: buffers
\* and batches never hold more than there is room for, and a task that waits
\* for a call has the event at hand.
THEOREM TypeCorrect == Spec => []TypeOK
  BY InitTypes, NextTypes, PTL DEF Spec

-----------------------------------------------------------------------------
(* Order and loss                                                          *)

\* NoSilentLoss, by indices.
LEMMA WaitingIndex ==
    ASSUME TypeOK, NEW ts
    PROVE  Waiting(ts) <=> \E c \in Cpus :
              \/ \E i \in 1 .. Len(buffer[c]) : buffer[c][i].timestamp_ns = ts
              \/ \E i \in 1 .. Len(batch[c]) : batch[c][i].timestamp_ns = ts
<1>1. ASSUME NEW c \in Cpus
      PROVE  (\E e \in Range(buffer[c] \o batch[c]) : e.timestamp_ns = ts)
                <=> \/ \E i \in 1 .. Len(buffer[c]) : buffer[c][i].timestamp_ns = ts
                    \/ \E i \in 1 .. Len(batch[c]) : batch[c][i].timestamp_ns = ts
  <2> DEFINE R == Range(buffer[c] \o batch[c])
  <2>1. R = {buffer[c][i] : i \in 1 .. Len(buffer[c])}
               \cup {batch[c][i] : i \in 1 .. Len(batch[c])}
    BY WaitingEvents
  <2> HIDE DEF R
  <2>2. (\E e \in R : e.timestamp_ns = ts)
           <=> \/ \E i \in 1 .. Len(buffer[c]) : buffer[c][i].timestamp_ns = ts
               \/ \E i \in 1 .. Len(batch[c]) : batch[c][i].timestamp_ns = ts
    BY <2>1
  <2> QED
    BY <2>2 DEF R
<1> QED
  BY <1>1 DEF Waiting

Located(ts) ==
    \/ \E c \in Cpus :
          \/ \E i \in 1 .. Len(buffer[c]) : buffer[c][i].timestamp_ns = ts
          \/ \E i \in 1 .. Len(batch[c]) : batch[c][i].timestamp_ns = ts
    \/ ts \in excused
    \/ \E i \in 1 .. Len(received) : received[i].timestamp_ns = ts

AllLocated == \A ts \in 1 .. Len(captured) : Located(ts)

\* NoSilentLoss, by indices.
LEMMA LossByIndex ==
    ASSUME TypeOK
    PROVE  NoSilentLoss <=> AllLocated
<1>1. DOMAIN captured = 1 .. Len(captured) /\ DOMAIN received = 1 .. Len(received)
  BY DEF TypeOK
<1>2. \A ts : (\E e \in Range(received) : e.timestamp_ns = ts)
                 <=> \E i \in 1 .. Len(received) : received[i].timestamp_ns = ts
  BY <1>1 DEF Range
<1> QED
  BY <1>1, <1>2, WaitingIndex DEF NoSilentLoss, AllLocated, Located

\* OrderedPerCpu, by indices.
AllOrdered ==
    \A i, j \in 1 .. Len(received) :
        (/\ i < j
         /\ captured[received[i].timestamp_ns].cpu = captured[received[j].timestamp_ns].cpu)
        => received[i].timestamp_ns < received[j].timestamp_ns

LEMMA OrderByIndex ==
    ASSUME TypeOK
    PROVE  OrderedPerCpu <=> AllOrdered
<1>1. DOMAIN received = 1 .. Len(received)
  BY DEF TypeOK
<1> QED
  BY <1>1 DEF OrderedPerCpu, CpuOf, AllOrdered

\* What a step must keep, in the form the proofs use.
Kept == Queued /\ Delivered /\ Genuine /\ Answered /\ AllOrdered /\ AllLocated

\* Timestamps are numbers.
LEMMA Numbers ==
    ASSUME NEW q \in Seq(PerfEvent)
    PROVE  Len(q) \in Nat /\ \A i \in 1 .. Len(q) : q[i].timestamp_ns \in Nat
<1>1. Len(q) \in Nat /\ \A i \in 1 .. Len(q) : q[i] \in PerfEvent
  OBVIOUS
<1>2. \A e \in PerfEvent : e.timestamp_ns \in Nat
  BY DEF PerfEvent
<1> QED
  BY <1>1, <1>2

\* A new packet leaves the timestamps of the others alone.
LEMMA OnGrows ==
    ASSUME NEW S, NEW cap \in Seq(S), NEW x \in S, NEW c, NEW ts \in Nat
    PROVE  On(Append(cap, x), c, ts)
              <=> On(cap, c, ts) \/ (ts = Len(cap) + 1 /\ x.cpu = c)
  BY DEF On

\* Capturing a packet leaves the lines as they are until it is put into one.
LEMMA LineGrows ==
    ASSUME NEW S, NEW cap \in Seq(S), NEW x \in S, NEW c,
           NEW buf \in Seq(PerfEvent), NEW bat \in Seq(PerfEvent), InLine(cap, c, buf, bat)
    PROVE  InLine(Append(cap, x), c, buf, bat)
  BY OnGrows, Numbers DEF InLine

\* The newest event goes to the end of its line.
LEMMA LineAppends ==
    ASSUME NEW S, NEW cap \in Seq(S), NEW x \in S, NEW c, x.cpu = c,
           NEW buf \in Seq(PerfEvent), NEW bat \in Seq(PerfEvent), InLine(cap, c, buf, bat),
           NEW e \in PerfEvent, e.timestamp_ns = Len(cap) + 1
    PROVE  InLine(Append(cap, x), c, Append(buf, e), bat)
<1> DEFINE new == Append(buf, e)
<1>1. /\ Len(new) = Len(buf) + 1 /\ new[Len(buf) + 1] = e
      /\ \A i \in 1 .. Len(buf) : new[i] = buf[i]
  OBVIOUS
<1> HIDE DEF new
<1>2. \A i \in 1 .. Len(new) : i \in 1 .. Len(buf) \/ i = Len(buf) + 1
  BY <1>1, Numbers
<1>3. Len(cap) \in Nat
  OBVIOUS
<1>4. \A i \in 1 .. Len(buf) : buf[i].timestamp_ns \in Nat /\ buf[i].timestamp_ns <= Len(cap)
  BY <1>3, Numbers DEF InLine, On
<1>5. \A i \in 1 .. Len(bat) : bat[i].timestamp_ns \in Nat /\ bat[i].timestamp_ns <= Len(cap)
  BY <1>3, Numbers DEF InLine, On
<1>6. InLine(Append(cap, x), c, buf, bat)
  BY LineGrows
<1>7. On(Append(cap, x), c, e.timestamp_ns)
  BY <1>3, OnGrows
<1> QED
  BY <1>1, <1>2, <1>3, <1>4, <1>5, <1>6, <1>7, Numbers DEF InLine, new

\* Moving events into the batch keeps the line.
LEMMA LineReads ==
    ASSUME NEW cap, NEW c, NEW buf \in Seq(PerfEvent), InLine(cap, c, buf, << >>),
           NEW n \in Nat \ {0}
    PROVE  InLine(cap, c, Suffix(buf, n + 1), Prefix(buf, n))
<1> DEFINE s == Suffix(buf, n + 1)
           r == Prefix(buf, n)
<1>1. /\ Len(s) = IF n + 1 <= Len(buf) THEN Len(buf) - (n + 1) + 1 ELSE 0
      /\ \A i \in 1 .. Len(s) : s[i] = buf[i + (n + 1) - 1]
  BY SuffixFacts
<1>2. /\ Len(r) = IF Len(buf) < n THEN Len(buf) ELSE n
      /\ \A i \in 1 .. Len(r) : r[i] = buf[i]
  BY PrefixFacts
<1> HIDE DEF s, r
<1>3. Len(buf) \in Nat
  OBVIOUS
<1>4. \A i \in 1 .. Len(s) : i + n \in 1 .. Len(buf) /\ s[i] = buf[i + n]
  BY <1>1, <1>3
<1>5. \A i \in 1 .. Len(r) : i \in 1 .. Len(buf) /\ i <= n
  BY <1>2, <1>3
<1>6. Len(s) \in Nat /\ Len(r) \in Nat
  BY <1>1, <1>2, <1>3
<1>7. /\ \A i \in 1 .. Len(s) : On(cap, c, s[i].timestamp_ns)
      /\ \A i \in 1 .. Len(r) : On(cap, c, r[i].timestamp_ns)
  BY <1>2, <1>4, <1>5 DEF InLine
<1>8. \A i, j \in 1 .. Len(s) : i < j => s[i].timestamp_ns < s[j].timestamp_ns
  <2> SUFFICES ASSUME NEW i \in 1 .. Len(s), NEW j \in 1 .. Len(s), i < j
               PROVE  s[i].timestamp_ns < s[j].timestamp_ns
    OBVIOUS
  <2>1. i + n < j + n
    BY <1>6
  <2> QED
    BY <1>4, <2>1 DEF InLine
<1>9. \A i, j \in 1 .. Len(r) : i < j => r[i].timestamp_ns < r[j].timestamp_ns
  BY <1>2, <1>5 DEF InLine
<1>10. \A i \in 1 .. Len(r), j \in 1 .. Len(s) : r[i].timestamp_ns < s[j].timestamp_ns
  <2> SUFFICES ASSUME NEW i \in 1 .. Len(r), NEW j \in 1 .. Len(s)
               PROVE  r[i].timestamp_ns < s[j].timestamp_ns
    OBVIOUS
  <2>1. i < j + n
    BY <1>5, <1>6
  <2> QED
    BY <1>2, <1>4, <1>5, <2>1 DEF InLine
<1> QED
  BY <1>7, <1>8, <1>9, <1>10 DEF InLine, s, r

\* So does finishing the first event.
LEMMA LineMoves ==
    ASSUME NEW cap, NEW c, NEW buf \in Seq(PerfEvent), NEW bat \in Seq(PerfEvent),
           bat # << >>, InLine(cap, c, buf, bat)
    PROVE  InLine(cap, c, buf, Tail(bat))
<1> DEFINE r == Tail(bat)
<1>1. Len(r) = Len(bat) - 1 /\ \A i \in 1 .. Len(r) : r[i] = bat[i + 1]
  OBVIOUS
<1> HIDE DEF r
<1>2. Len(bat) \in Nat
  OBVIOUS
<1>3. \A i \in 1 .. Len(r) : i + 1 \in 1 .. Len(bat)
  BY <1>1, <1>2
<1>4. \A i, j \in 1 .. Len(r) : i < j => i + 1 < j + 1
  BY <1>1, <1>2
<1> QED
  BY <1>1, <1>3, <1>4 DEF InLine, r

\* The filter appends an event that is newer than all others, or gives it up.
LEMMA FilterKeeps ==
    ASSUME TypeOK, Kept, NEW c \in Cpus, NEW p \in Packets, HttpFilter(c, p)
    PROVE  Kept'
<1> DEFINE S == [cpu: Cpus, packet: Packets]
           x == [cpu |-> c, packet |-> p]
           event == [timestamp_ns |-> Len(captured) + 1, payload |-> Captured(p.payload)]
<1>1. x \in S /\ x.cpu = c
  OBVIOUS
<1>2. captured' = Append(captured, x) /\ UNCHANGED <<batch, rpc, received>>
  BY DEF HttpFilter
<1>3. /\ captured \in Seq(S) /\ received \in Seq(NetworkEvent)
      /\ buffer \in [Cpus -> Seq(PerfEvent)] /\ batch \in [Cpus -> Seq(PerfEvent)]
  BY DEF TypeOK
<1>4. event \in PerfEvent /\ event.timestamp_ns = Len(captured) + 1
  <2>1. p.payload \in Seq(Cells)
    BY CaptureAssumption DEF PacketType
  <2>2. Captured(p.payload) \in Seq(Cells)
    BY <2>1, PrefixFacts, HttpHeadAssumption DEF Captured
  <2> QED
    BY <1>3, <2>2, CaptureAssumption DEF HttpFilter, PerfEvent
<1>5. \/ buffer' = buffer /\ excused' = excused \cup {Len(captured) + 1}
      \/ buffer' = [buffer EXCEPT ![c] = Append(buffer[c], event)] /\ excused' = excused
  BY DEF HttpFilter
<1> HIDE DEF S, x, event
<1>6. \A d \in Cpus : \/ buffer'[d] = buffer[d]
                      \/ d = c /\ buffer'[d] = Append(buffer[d], event)
  BY <1>3, <1>5
<1>7. /\ Len(captured) \in Nat /\ Len(captured') = Len(captured) + 1
      /\ \A ts \in 1 .. Len(captured) : captured'[ts] = captured[ts]
  BY <1>1, <1>2, <1>3
<1>8. \A i \in 1 .. Len(received) : /\ received[i].timestamp_ns \in 1 .. Len(captured)
                                    /\ received[i].timestamp_ns \in Nat
  BY <1>7 DEF Kept, Genuine, On
<1>9. Queued'
  <2> SUFFICES ASSUME NEW d \in Cpus
               PROVE  InLine(captured', d, buffer'[d], batch'[d])
    BY DEF Queued
  <2>1. InLine(captured, d, buffer[d], batch[d])
    BY DEF Kept, Queued
  <2>2. buffer[d] \in Seq(PerfEvent) /\ batch[d] \in Seq(PerfEvent) /\ batch'[d] = batch[d]
    BY <1>2, <1>3
  <2>3. CASE buffer'[d] = buffer[d]
    BY <1>1, <1>2, <1>3, <2>1, <2>2, <2>3, LineGrows
  <2>4. CASE d = c /\ buffer'[d] = Append(buffer[d], event)
    BY <1>1, <1>2, <1>3, <1>4, <2>1, <2>2, <2>4, LineAppends
  <2> QED
    BY <1>6, <2>3, <2>4
<1>10. Delivered'
  <2> SUFFICES ASSUME NEW i \in 1 .. Len(received), NEW d \in Cpus,
                      On(captured', d, received[i].timestamp_ns)
               PROVE  Ahead(received[i].timestamp_ns, buffer'[d], batch[d], rpc[d])
    BY <1>2 DEF Delivered
  <2>1. On(captured, d, received[i].timestamp_ns)
    BY <1>7, <1>8 DEF On
  <2>2. Ahead(received[i].timestamp_ns, buffer[d], batch[d], rpc[d])
    BY <2>1 DEF Kept, Delivered
  <2>3. CASE buffer'[d] = buffer[d]
    BY <2>2, <2>3
  <2>4. CASE buffer'[d] = Append(buffer[d], event)
    <3>1. /\ Len(buffer'[d]) = Len(buffer[d]) + 1 /\ Len(buffer[d]) \in Nat
          /\ buffer'[d][Len(buffer[d]) + 1] = event
          /\ \A j \in 1 .. Len(buffer[d]) : buffer'[d][j] = buffer[d][j]
      BY <1>3, <1>4, <2>4
    <3>2. received[i].timestamp_ns < event.timestamp_ns
      BY <1>4, <1>7, <1>8
    <3>3. \A j \in 1 .. Len(buffer'[d]) : j \in 1 .. Len(buffer[d]) \/ j = Len(buffer[d]) + 1
      BY <3>1
    <3>4. \A j \in 1 .. Len(buffer'[d]) :
             received[i].timestamp_ns < buffer'[d][j].timestamp_ns
      BY <2>2, <3>1, <3>2, <3>3 DEF Ahead
    <3> QED
      BY <2>2, <3>4 DEF Ahead
  <2> QED
    BY <1>6, <2>3, <2>4
<1>11. Genuine'
  <2> SUFFICES ASSUME NEW i \in 1 .. Len(received)
               PROVE  \E d \in Cpus : On(captured', d, received[i].timestamp_ns)
    BY <1>2 DEF Genuine
  <2>1. PICK d \in Cpus : On(captured, d, received[i].timestamp_ns)
    BY DEF Kept, Genuine
  <2> QED
    BY <1>7, <2>1 DEF On
<1>12. Answered'
  BY <1>2 DEF Kept, Answered
<1>13. AllOrdered'
  <2>1. \A i \in 1 .. Len(received) :
           captured'[received[i].timestamp_ns] = captured[received[i].timestamp_ns]
    BY <1>7, <1>8
  <2> SUFFICES ASSUME NEW i \in 1 .. Len(received), NEW j \in 1 .. Len(received), i < j,
                      captured'[received[i].timestamp_ns].cpu
                         = captured'[received[j].timestamp_ns].cpu
               PROVE  received[i].timestamp_ns < received[j].timestamp_ns
    BY <1>2 DEF AllOrdered
  <2> QED
    BY <2>1 DEF Kept, AllOrdered
<1>14. AllLocated'
  <2> SUFFICES ASSUME NEW ts \in 1 .. Len(captured')
               PROVE  Located(ts)'
    BY DEF AllLocated
  <2>1. CASE ts \in 1 .. Len(captured)
    <3>1. Located(ts)
      BY <2>1 DEF Kept, AllLocated
    <3>2. \A d \in Cpus : \A i \in 1 .. Len(buffer[d]) :
             i \in 1 .. Len(buffer'[d]) /\ buffer'[d][i] = buffer[d][i]
      <4> SUFFICES ASSUME NEW d \in Cpus, NEW i \in 1 .. Len(buffer[d])
                   PROVE  i \in 1 .. Len(buffer'[d]) /\ buffer'[d][i] = buffer[d][i]
        OBVIOUS
      <4>1. buffer[d] \in Seq(PerfEvent)
        BY <1>3
      <4>2. CASE buffer'[d] = Append(buffer[d], event)
        BY <1>4, <4>1, <4>2
      <4> QED
        BY <1>6, <4>2
    <3>3. excused \subseteq excused'
      BY <1>5
    <3>4. CASE \E d \in Cpus : \E i \in 1 .. Len(buffer[d]) : buffer[d][i].timestamp_ns = ts
      <4>1. \E d \in Cpus : \E i \in 1 .. Len(buffer'[d]) : buffer'[d][i].timestamp_ns = ts
        BY <3>2, <3>4, Zenon
      <4> QED
        BY <4>1, Zenon DEF Located
    <3>5. CASE \E d \in Cpus : \E i \in 1 .. Len(batch[d]) : batch[d][i].timestamp_ns = ts
      BY <1>2, <3>5 DEF Located
    <3>6. CASE ts \in excused
      BY <3>3, <3>6 DEF Located
    <3>7. CASE \E i \in 1 .. Len(received) : received[i].timestamp_ns = ts
      BY <1>2, <3>7 DEF Located
    <3> QED
      BY <3>1, <3>4, <3>5, <3>6, <3>7, Zenon DEF Located
  <2>2. CASE ts = Len(captured) + 1
    <3>1. CASE excused' = excused \cup {Len(captured) + 1}
      BY <2>2, <3>1 DEF Located
    <3>2. CASE buffer' = [buffer EXCEPT ![c] = Append(buffer[c], event)]
      <4>1. buffer[c] \in Seq(PerfEvent) /\ buffer'[c] = Append(buffer[c], event)
        BY <1>3, <3>2
      <4>2. /\ Len(buffer[c]) + 1 \in 1 .. Len(buffer'[c])
            /\ buffer'[c][Len(buffer[c]) + 1] = event
        BY <1>4, <4>1
      <4> QED
        BY <1>4, <2>2, <4>2 DEF Located
    <3> QED
      BY <1>5, <3>1, <3>2
  <2> QED
    BY <1>7, <2>1, <2>2
<1> QED
  BY <1>9, <1>10, <1>11, <1>12, <1>13, <1>14 DEF Kept

\* A batch is read: the oldest events move, in order.
LEMMA ReadKeeps ==
    ASSUME TypeOK, Kept, NEW c \in Cpus, ReadEvents(c)
    PROVE  Kept'
<1> DEFINE n == BatchSize
<1>1. /\ buffer \in [Cpus -> Seq(PerfEvent)] /\ batch \in [Cpus -> Seq(PerfEvent)]
      /\ rpc \in [Cpus -> {"none", "sent", "accepted"}]
      /\ n \in Nat \ {0} /\ n + 1 \in Nat \ {0}
  BY CaptureAssumption DEF TypeOK
<1>2. /\ batch[c] = << >> /\ rpc[c] = "none"
      /\ UNCHANGED <<captured, rpc, received, excused>>
  BY DEF ReadEvents, TypeOK
<1>3. /\ batch'[c] = Prefix(buffer[c], n) /\ buffer'[c] = Suffix(buffer[c], n + 1)
      /\ \A d \in Cpus \ {c} : batch'[d] = batch[d] /\ buffer'[d] = buffer[d]
  BY <1>1, ReadTypes
<1> HIDE DEF n
<1>4. /\ Len(buffer[c]) \in Nat
      /\ Len(buffer'[c]) = IF n + 1 <= Len(buffer[c]) THEN Len(buffer[c]) - (n + 1) + 1 ELSE 0
      /\ \A i \in 1 .. Len(buffer'[c]) : buffer'[c][i] = buffer[c][i + (n + 1) - 1]
  <2>1. buffer[c] \in Seq(PerfEvent) /\ n + 1 \in Nat \ {0}
    BY <1>1
  <2>2. /\ Len(Suffix(buffer[c], n + 1))
              = IF n + 1 <= Len(buffer[c]) THEN Len(buffer[c]) - (n + 1) + 1 ELSE 0
        /\ \A i \in 1 .. Len(Suffix(buffer[c], n + 1)) :
              Suffix(buffer[c], n + 1)[i] = buffer[c][i + (n + 1) - 1]
    BY <2>1, SuffixFacts
  <2> QED
    BY <1>3, <2>1, <2>2
<1>5. /\ Len(batch'[c]) = IF Len(buffer[c]) < n THEN Len(buffer[c]) ELSE n
      /\ \A i \in 1 .. Len(batch'[c]) : batch'[c][i] = buffer[c][i]
  <2>1. buffer[c] \in Seq(PerfEvent) /\ n \in Nat
    BY <1>1
  <2>2. /\ Len(Prefix(buffer[c], n)) = IF Len(buffer[c]) < n THEN Len(buffer[c]) ELSE n
        /\ \A i \in 1 .. Len(Prefix(buffer[c], n)) : Prefix(buffer[c], n)[i] = buffer[c][i]
    BY <2>1, PrefixFacts
  <2> QED
    BY <1>3, <2>2
<1>6. /\ \A i \in 1 .. Len(buffer'[c]) :
            i + n \in 1 .. Len(buffer[c]) /\ buffer'[c][i] = buffer[c][i + n]
      /\ \A i \in 1 .. Len(batch'[c]) :
            i \in 1 .. Len(buffer[c]) /\ batch'[c][i] = buffer[c][i]
  BY <1>1, <1>4, <1>5
<1>7. \A i \in 1 .. Len(buffer[c]) :
         \/ i \in 1 .. Len(batch'[c])
         \/ i - n \in 1 .. Len(buffer'[c])
  BY <1>1, <1>4, <1>5
<1>8. Queued'
  <2> SUFFICES ASSUME NEW d \in Cpus
               PROVE  InLine(captured, d, buffer'[d], batch'[d])
    BY <1>2 DEF Queued
  <2>1. InLine(captured, d, buffer[d], batch[d]) /\ buffer[d] \in Seq(PerfEvent)
    BY <1>1 DEF Kept, Queued
  <2>2. CASE d = c
    BY <1>1, <1>2, <1>3, <2>1, <2>2, LineReads
  <2> QED
    BY <1>3, <2>1, <2>2
<1>9. Delivered'
  <2> SUFFICES ASSUME NEW i \in 1 .. Len(received), NEW d \in Cpus,
                      On(captured, d, received[i].timestamp_ns)
               PROVE  Ahead(received[i].timestamp_ns, buffer'[d], batch'[d], rpc[d])
    BY <1>2 DEF Delivered
  <2>1. Ahead(received[i].timestamp_ns, buffer[d], batch[d], rpc[d])
    BY DEF Kept, Delivered
  <2>2. CASE d = c
    BY <1>6, <2>1, <2>2 DEF Ahead
  <2> QED
    BY <1>3, <2>1, <2>2
<1>10. Genuine' /\ AllOrdered'
  BY <1>2 DEF Kept, Genuine, AllOrdered
<1>11. Answered'
  <2> SUFFICES ASSUME NEW d \in Cpus, rpc[d] = "accepted"
               PROVE  \E i \in 1 .. Len(received) :
                         received[i].timestamp_ns = batch'[d][1].timestamp_ns
    BY <1>2 DEF Answered
  <2> QED
    BY <1>2, <1>3 DEF Kept, Answered
<1>12. AllLocated'
  <2> SUFFICES ASSUME NEW ts \in 1 .. Len(captured)
               PROVE  Located(ts)'
    BY <1>2 DEF AllLocated
  <2>1. Located(ts)
    BY DEF Kept, AllLocated
  <2>2. ASSUME NEW i \in 1 .. Len(buffer[c])
        PROVE  \/ \E k \in 1 .. Len(batch'[c]) : batch'[c][k] = buffer[c][i]
               \/ \E k \in 1 .. Len(buffer'[c]) : buffer'[c][k] = buffer[c][i]
    <3>1. CASE i \in 1 .. Len(batch'[c])
      BY <1>6, <3>1
    <3>2. CASE i - n \in 1 .. Len(buffer'[c])
      <4>1. (i - n) + n = i
        BY <1>1
      <4> QED
        BY <1>6, <3>2, <4>1
    <3> QED
      BY <1>7, <3>1, <3>2
  <2>3. ASSUME NEW d \in Cpus, NEW i \in 1 .. Len(buffer[d]), buffer[d][i].timestamp_ns = ts
        PROVE  Located(ts)'
    <3>1. CASE d = c
      <4>1. \/ \E k \in 1 .. Len(batch'[c]) : batch'[c][k].timestamp_ns = ts
            \/ \E k \in 1 .. Len(buffer'[c]) : buffer'[c][k].timestamp_ns = ts
        BY <2>2, <2>3, <3>1
      <4> QED
        BY <4>1 DEF Located
    <3>2. CASE d # c
      BY <1>3, <2>3, <3>2 DEF Located
    <3> QED
      BY <3>1, <3>2
  <2>4. ASSUME NEW d \in Cpus, NEW i \in 1 .. Len(batch[d]), batch[d][i].timestamp_ns = ts
        PROVE  Located(ts)'
    <3>1. d # c
      BY <1>2, <2>4
    <3> QED
      BY <1>3, <2>4, <3>1 DEF Located
  <2> QED
    BY <1>2, <2>1, <2>3, <2>4 DEF Located
<1> QED
  BY <1>8, <1>9, <1>10, <1>11, <1>12 DEF Kept

\* The first event of a batch goes once Core has it or it is given up.
LEMMA DoneKeeps ==
    ASSUME TypeOK, Kept, NEW c \in Cpus, Done(c)
    PROVE  Kept'
<1>1. /\ buffer \in [Cpus -> Seq(PerfEvent)] /\ batch \in [Cpus -> Seq(PerfEvent)]
      /\ rpc \in [Cpus -> {"none", "sent", "accepted"}]
  BY DEF TypeOK
<1>2. batch[c] # << >> /\ UNCHANGED <<captured, buffer, received>>
  BY DoneFacts
<1>3. /\ batch'[c] = Tail(batch[c]) /\ rpc'[c] = "none"
      /\ \A d \in Cpus \ {c} : batch'[d] = batch[d] /\ rpc'[d] = rpc[d]
  BY <1>1, DoneFacts
<1>4. /\ Len(batch[c]) \in Nat /\ Len(batch'[c]) = Len(batch[c]) - 1
      /\ \A i \in 1 .. Len(batch'[c]) : batch'[c][i] = batch[c][i + 1]
  BY <1>1, <1>2, <1>3, HeadTailProperties
<1>5. \A i \in 1 .. Len(batch'[c]) : i + 1 \in 1 .. Len(batch[c]) /\ i + 1 > 1
  BY <1>4
<1>6. Queued'
  <2> SUFFICES ASSUME NEW d \in Cpus
               PROVE  InLine(captured, d, buffer[d], batch'[d])
    BY <1>2 DEF Queued
  <2>1. InLine(captured, d, buffer[d], batch[d]) /\ buffer[d] \in Seq(PerfEvent)
    BY <1>1 DEF Kept, Queued
  <2>2. CASE d = c
    <3>1. batch[d] \in Seq(PerfEvent) /\ batch[d] # << >> /\ batch'[d] = Tail(batch[d])
      BY <1>1, <1>2, <1>3, <2>2
    <3>2. InLine(captured, d, buffer[d], Tail(batch[d]))
      BY <2>1, <3>1, LineMoves
    <3> QED
      BY <3>1, <3>2
  <2> QED
    BY <1>3, <2>1, <2>2
<1>7. Delivered'
  <2> SUFFICES ASSUME NEW i \in 1 .. Len(received), NEW d \in Cpus,
                      On(captured, d, received[i].timestamp_ns)
               PROVE  Ahead(received[i].timestamp_ns, buffer[d], batch'[d], rpc'[d])
    BY <1>2 DEF Delivered
  <2>1. Ahead(received[i].timestamp_ns, buffer[d], batch[d], rpc[d])
    BY DEF Kept, Delivered
  <2>2. CASE d = c
    BY <1>4, <1>5, <2>1, <2>2 DEF Ahead
  <2> QED
    BY <1>3, <2>1, <2>2
<1>8. Genuine' /\ AllOrdered'
  BY <1>2 DEF Kept, Genuine, AllOrdered
<1>9. Answered'
  <2> SUFFICES ASSUME NEW d \in Cpus, rpc'[d] = "accepted"
               PROVE  \E i \in 1 .. Len(received) :
                         received[i].timestamp_ns = batch'[d][1].timestamp_ns
    BY <1>2 DEF Answered
  <2> QED
    BY <1>3 DEF Kept, Answered
<1>10. AllLocated'
  <2> SUFFICES ASSUME NEW ts \in 1 .. Len(captured)
               PROVE  Located(ts)'
    BY <1>2 DEF AllLocated
  <2>1. Located(ts)
    BY DEF Kept, AllLocated
  <2>2. excused \subseteq excused'
    BY DoneFacts
  <2>3. CASE ts = batch[c][1].timestamp_ns
    <3>1. CASE excused' = excused \cup {batch[c][1].timestamp_ns}
      BY <2>3, <3>1 DEF Located
    <3>2. CASE rpc[c] = "accepted"
      <4>1. \E i \in 1 .. Len(received) : received[i].timestamp_ns = ts
        BY <2>3, <3>2 DEF Kept, Answered
      <4> QED
        BY <1>2, <4>1 DEF Located
    <3> QED
      BY <3>1, <3>2, DoneFacts
  <2>4. ASSUME NEW d \in Cpus, NEW i \in 1 .. Len(batch[d]), batch[d][i].timestamp_ns = ts,
               ts # batch[c][1].timestamp_ns
        PROVE  Located(ts)'
    <3>1. CASE d # c
      BY <1>3, <2>4, <3>1 DEF Located
    <3>2. CASE d = c
      <4>1. i - 1 \in 1 .. Len(batch'[c]) /\ (i - 1) + 1 = i
        BY <1>4, <2>4, <3>2
      <4>2. batch'[c][i - 1].timestamp_ns = ts
        BY <1>4, <2>4, <3>2, <4>1
      <4> QED
        BY <4>1, <4>2 DEF Located
    <3> QED
      BY <3>1, <3>2
  <2> QED
    BY <1>2, <2>1, <2>2, <2>3, <2>4 DEF Located
<1> QED
  BY <1>6, <1>7, <1>8, <1>9, <1>10 DEF Kept

\* Starting a call moves nothing.
LEMMA SendKeeps ==
    ASSUME TypeOK, Kept, NEW c \in Cpus, SendEvent(c)
    PROVE  Kept'
<1>1. /\ UNCHANGED <<captured, buffer, batch, received, excused>>
      /\ rpc[c] = "none"
      /\ \A d \in Cpus : rpc'[d] = IF d = c THEN "sent" ELSE rpc[d]
  BY DEF SendEvent, TypeOK
<1>2. Queued' /\ Genuine' /\ AllOrdered' /\ AllLocated'
  BY <1>1 DEF Kept, Queued, Genuine, AllOrdered, AllLocated, Located
<1>3. Delivered'
  <2> SUFFICES ASSUME NEW i \in 1 .. Len(received), NEW d \in Cpus,
                      On(captured, d, received[i].timestamp_ns)
               PROVE  Ahead(received[i].timestamp_ns, buffer[d], batch[d], rpc'[d])
    BY <1>1 DEF Delivered
  <2>1. Ahead(received[i].timestamp_ns, buffer[d], batch[d], rpc[d])
    BY DEF Kept, Delivered
  <2> QED
    BY <1>1, <2>1 DEF Ahead
<1>4. Answered'
  <2> SUFFICES ASSUME NEW d \in Cpus, rpc'[d] = "accepted"
               PROVE  \E i \in 1 .. Len(received) :
                         received[i].timestamp_ns = batch[d][1].timestamp_ns
    BY <1>1 DEF Answered
  <2> QED
    BY <1>1 DEF Kept, Answered
<1> QED
  BY <1>2, <1>3, <1>4 DEF Kept

\* Core accepts an event that is newer than all it has of that CPU.
LEMMA AcceptKeeps ==
    ASSUME TypeOK, Kept, NEW c \in Cpus, CoreAccepts(c)
    PROVE  Kept'
<1> DEFINE e == Parsed(batch[c][1])
           last == Len(received) + 1
<1>1. /\ batch[c] \in Seq(PerfEvent) /\ batch[c] # << >>
      /\ e \in NetworkEvent /\ e.timestamp_ns = batch[c][1].timestamp_ns
      /\ received' = Append(received, e)
  BY AcceptTypes DEF CoreAccepts
<1> HIDE DEF e
<1>2. /\ UNCHANGED <<captured, buffer, batch, excused>>
      /\ rpc[c] = "sent"
      /\ \A d \in Cpus : rpc'[d] = IF d = c THEN "accepted" ELSE rpc[d]
  BY DEF CoreAccepts, TypeOK
<1>3. received \in Seq(NetworkEvent) /\ captured \in Seq([cpu: Cpus, packet: Packets])
  BY DEF TypeOK
<1>4. /\ Len(received) \in Nat /\ Len(received') = last
      /\ received'[last] = e
      /\ \A i \in 1 .. Len(received) : received'[i] = received[i]
  BY <1>1, <1>3
<1>5. 1 \in 1 .. Len(batch[c]) /\ Len(batch[c]) \in Nat
  BY <1>1
<1>6. InLine(captured, c, buffer[c], batch[c])
  BY DEF Kept, Queued
<1>7. On(captured, c, e.timestamp_ns)
  BY <1>1, <1>5, <1>6 DEF InLine
<1>8. \A i \in 1 .. last : i \in 1 .. Len(received) \/ i = last
  BY <1>4
<1> HIDE DEF last
<1>9. Queued'
  BY <1>2 DEF Kept, Queued
<1>10. Delivered'
  <2> SUFFICES ASSUME NEW i \in 1 .. last, NEW d \in Cpus,
                      On(captured, d, received'[i].timestamp_ns)
               PROVE  Ahead(received'[i].timestamp_ns, buffer[d], batch[d], rpc'[d])
    BY <1>2, <1>4 DEF Delivered
  <2>1. CASE i \in 1 .. Len(received)
    <3>1. Ahead(received[i].timestamp_ns, buffer[d], batch[d], rpc[d])
      BY <1>4, <2>1 DEF Kept, Delivered
    <3> QED
      BY <1>2, <1>4, <2>1, <3>1 DEF Ahead
  <2>2. CASE i = last
    <3>1. d = c
      BY <1>4, <1>7, <2>2 DEF On
    <3>2. \A j \in 1 .. Len(buffer[c]) : e.timestamp_ns < buffer[c][j].timestamp_ns
      BY <1>1, <1>5, <1>6 DEF InLine
    <3>3. \A j \in 1 .. Len(batch[c]) : j > 1 => e.timestamp_ns < batch[c][j].timestamp_ns
      BY <1>1, <1>5, <1>6 DEF InLine
    <3> QED
      BY <1>2, <1>4, <2>2, <3>1, <3>2, <3>3 DEF Ahead
  <2> QED
    BY <1>8, <2>1, <2>2
<1>11. Genuine'
  <2> SUFFICES ASSUME NEW i \in 1 .. last
               PROVE  \E d \in Cpus : On(captured, d, received'[i].timestamp_ns)
    BY <1>2, <1>4 DEF Genuine
  <2> QED
    BY <1>4, <1>7, <1>8 DEF Kept, Genuine
<1>12. Answered'
  <2> SUFFICES ASSUME NEW d \in Cpus, rpc'[d] = "accepted"
               PROVE  \E i \in 1 .. last :
                         received'[i].timestamp_ns = batch[d][1].timestamp_ns
    BY <1>2, <1>4 DEF Answered
  <2>1. last \in 1 .. last /\ \A i \in 1 .. Len(received) : i \in 1 .. last
    BY <1>4 DEF last
  <2>2. CASE d = c
    BY <1>1, <1>4, <2>1, <2>2
  <2>3. CASE d # c
    <3>1. PICK i \in 1 .. Len(received) :
             received[i].timestamp_ns = batch[d][1].timestamp_ns
      BY <1>2, <2>3 DEF Kept, Answered
    <3> QED
      BY <1>4, <2>1, <3>1
  <2> QED
    BY <2>2, <2>3
<1>13. AllOrdered'
  <2> SUFFICES ASSUME NEW i \in 1 .. last, NEW j \in 1 .. last, i < j,
                      captured[received'[i].timestamp_ns].cpu
                         = captured[received'[j].timestamp_ns].cpu
               PROVE  received'[i].timestamp_ns < received'[j].timestamp_ns
    BY <1>2, <1>4 DEF AllOrdered
  <2>1. i \in 1 .. Len(received)
    BY <1>4 DEF last
  <2>2. CASE j \in 1 .. Len(received)
    BY <1>4, <2>1, <2>2 DEF Kept, AllOrdered
  <2>3. CASE j = last
    <3>1. On(captured, c, received[i].timestamp_ns)
      <4>1. PICK d \in Cpus : On(captured, d, received[i].timestamp_ns)
        BY <2>1 DEF Kept, Genuine
      <4> QED
        BY <1>4, <1>7, <2>1, <2>3, <4>1 DEF On
    <3>2. Ahead(received[i].timestamp_ns, buffer[c], batch[c], rpc[c])
      BY <2>1, <3>1 DEF Kept, Delivered
    <3>3. received[i].timestamp_ns < batch[c][1].timestamp_ns
      BY <1>2, <1>5, <3>2 DEF Ahead
    <3> QED
      BY <1>1, <1>4, <2>1, <2>3, <3>3
  <2> QED
    BY <1>8, <2>2, <2>3
<1>14. AllLocated'
  <2> SUFFICES ASSUME NEW ts \in 1 .. Len(captured)
               PROVE  Located(ts)'
    BY <1>2 DEF AllLocated
  <2>1. Located(ts)
    BY DEF Kept, AllLocated
  <2>2. \A i \in 1 .. Len(received) : i \in 1 .. Len(received')
    BY <1>4 DEF last
  <2> QED
    BY <1>2, <1>4, <2>1, <2>2 DEF Located
<1> QED
  BY <1>9, <1>10, <1>11, <1>12, <1>13, <1>14 DEF Kept

\* A restart gives up whatever waits.
LEMMA RestartKeeps ==
    ASSUME TypeOK, Kept, LoaderRestart
    PROVE  Kept'
<1>1. /\ UNCHANGED <<captured, received>>
      /\ \A d \in Cpus : /\ buffer'[d] = << >> /\ batch'[d] = << >> /\ rpc'[d] = "none"
                         /\ Len(buffer'[d]) = 0 /\ Len(batch'[d]) = 0
  BY DEF LoaderRestart
<1>2. Queued'
  BY <1>1 DEF Queued, InLine
<1>3. Delivered' /\ Answered'
  BY <1>1 DEF Delivered, Ahead, Answered
<1>4. Genuine' /\ AllOrdered'
  BY <1>1 DEF Kept, Genuine, AllOrdered
<1>5. AllLocated'
  <2> SUFFICES ASSUME NEW ts \in 1 .. Len(captured)
               PROVE  Located(ts)'
    BY <1>1 DEF AllLocated
  <2>1. Located(ts)
    BY DEF Kept, AllLocated
  <2>2. excused' = excused \cup
           UNION {{e.timestamp_ns : e \in Range(buffer[d] \o batch[d])} : d \in Cpus}
    BY DEF LoaderRestart
  <2>3. ASSUME NEW d \in Cpus, NEW e \in Range(buffer[d] \o batch[d])
        PROVE  e.timestamp_ns \in excused'
    BY <2>2
  <2>4. ASSUME NEW d \in Cpus, NEW i \in 1 .. Len(buffer[d])
        PROVE  buffer[d][i].timestamp_ns \in excused'
    BY <2>3, WaitingEvents
  <2>5. ASSUME NEW d \in Cpus, NEW i \in 1 .. Len(batch[d])
        PROVE  batch[d][i].timestamp_ns \in excused'
    BY <2>3, WaitingEvents
  <2>6. excused \subseteq excused'
    BY <2>2
  <2> QED
    BY <1>1, <2>1, <2>4, <2>5, <2>6 DEF Located
<1> QED
  BY <1>2, <1>3, <1>4, <1>5 DEF Kept

\* Every step keeps the invariant.
LEMMA NextKeeps == IInv /\ [Next]_vars => IInv'
<1> SUFFICES ASSUME IInv, [Next]_vars PROVE IInv'
  OBVIOUS
<1>1. TypeOK /\ TypeOK'
  BY NextTypes DEF IInv
<1>2. Kept
  BY <1>1, LossByIndex, OrderByIndex DEF IInv, Kept
<1>3. Kept'
  <2>1. CASE UNCHANGED vars
    BY <1>2, <2>1 DEF vars, Kept, Queued, Delivered, Genuine, Answered, AllOrdered,
                      AllLocated, Located
  <2>2. CASE Next
    BY <1>1, <1>2, <2>2, Steps, FilterKeeps, ReadKeeps, DoneKeeps, SendKeeps, AcceptKeeps,
       RestartKeeps
  <2> QED
    BY <2>1, <2>2
<1>4. OrderedPerCpu' /\ NoSilentLoss'
  <2>1. TypeOK' => (OrderedPerCpu' <=> AllOrdered')
    BY OrderByIndex, PTL
  <2>2. TypeOK' => (NoSilentLoss' <=> AllLocated')
    BY LossByIndex, PTL
  <2> QED
    BY <1>1, <1>3, <2>1, <2>2 DEF Kept
<1> QED
  BY <1>1, <1>3, <1>4 DEF IInv, Kept

\* At first nothing is captured.
LEMMA InitKeeps == Init => IInv
<1> SUFFICES ASSUME Init PROVE IInv
  OBVIOUS
<1>1. TypeOK
  BY InitTypes
<1>2. /\ Len(captured) = 0 /\ Len(received) = 0
      /\ \A c \in Cpus : Len(buffer[c]) = 0 /\ Len(batch[c]) = 0 /\ rpc[c] = "none"
  BY DEF Init
<1>3. Queued /\ Delivered /\ Genuine /\ Answered /\ AllOrdered /\ AllLocated
  BY <1>2 DEF Queued, InLine, Delivered, Genuine, Answered, AllOrdered, AllLocated
<1> QED
  BY <1>1, <1>3, LossByIndex, OrderByIndex DEF IInv

\* Core gets the events of one CPU at most once and in the order they were
\* captured, through batches, failed calls and restarts of the loader.
THEOREM CpuOrder == Spec => []OrderedPerCpu
<1>1. IInv => OrderedPerCpu
  BY DEF IInv
<1> QED
  BY <1>1, InitKeeps, NextKeeps, PTL DEF Spec

\* Every captured request waits in the loader, was accepted by Core, or was
\* given up for a reason: reading in batches loses none.
THEOREM LossAccounted == Spec => []NoSilentLoss
<1>1. IInv => NoSilentLoss
  BY DEF IInv
<1> QED
  BY <1>1, InitKeeps, NextKeeps, PTL DEF Spec

-----------------------------------------------------------------------------
(* The parser, on requests cut anywhere                                    *)

\* Two sequences with the same elements are equal; the beginning of one.
LEMMA PrefixIsPrefix ==
    ASSUME NEW S, NEW s \in Seq(S), NEW n \in Nat
    PROVE  /\ IsPrefix(Prefix(s, n), s)
           /\ n >= Len(s) => Prefix(s, n) = s
           /\ IsPrefix(<< >>, s)
<1> DEFINE p == Prefix(s, n)
<1>1. /\ p \in Seq(S)
      /\ Len(p) = IF Len(s) < n THEN Len(s) ELSE n
      /\ \A i \in 1 .. Len(p) : p[i] = s[i]
  BY PrefixFacts
<1> HIDE DEF p
<1>2. Len(p) \in Nat /\ Len(s) \in Nat /\ Len(p) <= Len(s)
  BY <1>1
<1>3. SubSeq(p, 1, Len(p)) = SubSeq(s, 1, Len(p))
  BY <1>1, <1>2
<1>4. IsPrefix(p, s)
  BY <1>2, <1>3 DEF IsPrefix
<1>5. ASSUME n >= Len(s) PROVE p = s
  <2>1. Len(p) = Len(s)
    BY <1>1, <1>2, <1>5
  <2> QED
    BY <1>1, <2>1, SeqEqual
<1>6. IsPrefix(<< >>, s)
  BY <1>2 DEF IsPrefix
<1> QED
  BY <1>4, <1>5, <1>6 DEF p

\* A segment that goes on with word w as far as it goes, and then with a cell
\* of C: what is read up to that cell is w, cut where the segment ends.
BeginsWith(s, w, C) ==
    /\ \A i \in 1 .. Len(w) : i <= Len(s) => s[i] = w[i]
    /\ Len(w) < Len(s) => s[Len(w) + 1] \in C

LEMMA CutWord ==
    ASSUME NEW S, NEW s \in Seq(S), NEW w \in Seq(S), NEW C,
           \A i \in 1 .. Len(w) : w[i] \notin C,
           BeginsWith(s, w, C)
    PROVE  /\ Before(s, C) = Prefix(w, Len(s))
           /\ Len(w) < Len(s) => Position(s, C) = Len(w) + 1
           /\ Len(w) >= Len(s) => Position(s, C) = 0
<1>1. Len(s) \in Nat /\ Len(w) \in Nat
  OBVIOUS
<1>2. Prefix(w, Len(s)) \in Seq(S)
  BY <1>1, PrefixFacts
<1>3. /\ Len(Prefix(w, Len(s))) = IF Len(w) < Len(s) THEN Len(w) ELSE Len(s)
      /\ \A i \in 1 .. Len(Prefix(w, Len(s))) : Prefix(w, Len(s))[i] = w[i]
  BY <1>1, PrefixFacts
<1> DEFINE p == Position(s, C)
<1>4. \/ p = 0 /\ \A i \in 1 .. Len(s) : s[i] \notin C
      \/ p \in 1 .. Len(s) /\ s[p] \in C /\ \A i \in 1 .. p - 1 : s[i] \notin C
  BY PositionFacts
<1> HIDE DEF p
<1>5. CASE Len(w) < Len(s)
  <2>1. Len(w) + 1 \in 1 .. Len(s) /\ s[Len(w) + 1] \in C
    BY <1>1, <1>5 DEF BeginsWith
  <2>2. \A i \in 1 .. Len(w) : s[i] \notin C
    BY <1>1, <1>5 DEF BeginsWith
  <2>3. p \in 1 .. Len(s) /\ s[p] \in C /\ \A i \in 1 .. p - 1 : s[i] \notin C
    BY <1>4, <2>1
  <2>4. ~ (p <= Len(w))
    BY <1>1, <2>2, <2>3
  <2>5. ~ (Len(w) + 1 < p)
    BY <1>1, <2>1, <2>3
  <2>6. p = Len(w) + 1
    BY <1>1, <2>3, <2>4, <2>5
  <2>7. Before(s, C) = Prefix(s, Len(w))
    BY <1>1, <2>6 DEF Before, p
  <2>8. /\ Prefix(s, Len(w)) \in Seq(S) /\ Len(Prefix(s, Len(w))) = Len(w)
        /\ \A i \in 1 .. Len(w) : Prefix(s, Len(w))[i] = s[i]
    BY <1>1, <1>5, PrefixFacts
  <2>9. Prefix(s, Len(w)) = Prefix(w, Len(s))
    <3>1. \A i \in 1 .. Len(w) : Prefix(s, Len(w))[i] = Prefix(w, Len(s))[i]
      BY <1>1, <1>3, <1>5, <2>8 DEF BeginsWith
    <3> QED
      BY <1>2, <1>3, <1>5, <2>8, <3>1, SeqEqual
  <2> QED
    BY <1>1, <1>5, <2>6, <2>7, <2>9 DEF p
<1>6. CASE Len(w) >= Len(s)
  <2>1. \A i \in 1 .. Len(s) : s[i] = w[i] /\ s[i] \notin C
    BY <1>1, <1>6 DEF BeginsWith
  <2>2. p = 0
    BY <1>4, <2>1
  <2>3. Before(s, C) = s
    BY <2>2 DEF Before, p
  <2>4. s = Prefix(w, Len(s))
    <3>1. Len(s) = Len(Prefix(w, Len(s)))
      BY <1>1, <1>3, <1>6
    <3>2. \A i \in 1 .. Len(s) : s[i] = Prefix(w, Len(s))[i]
      BY <1>1, <1>3, <2>1, <3>1
    <3> QED
      BY <1>2, <3>1, <3>2, SeqEqual
  <2> QED
    BY <1>1, <1>6, <2>2, <2>3, <2>4 DEF p
<1> QED
  BY <1>1, <1>5, <1>6

\* What is read up to a cell of C of a cut text is the beginning of what would
\* be read of the whole.
LEMMA CutBefore ==
    ASSUME NEW S, NEW v \in Seq(S), NEW n \in Nat, NEW C
    PROVE  IsPrefix(Before(Prefix(v, n), C), Before(v, C))
<1> DEFINE w == Before(v, C)
           s == Prefix(v, n)
           p == Position(v, C)
<1>1. \/ p = 0 /\ \A i \in 1 .. Len(v) : v[i] \notin C
      \/ p \in 1 .. Len(v) /\ v[p] \in C /\ \A i \in 1 .. p - 1 : v[i] \notin C
  BY PositionFacts
<1>2. w \in Seq(S)
  BY BeforeType
<1>3. /\ s \in Seq(S) /\ Len(s) = IF Len(v) < n THEN Len(v) ELSE n
      /\ \A i \in 1 .. Len(s) : s[i] = v[i]
  BY PrefixFacts
<1>4. /\ Len(w) = IF p = 0 THEN Len(v) ELSE p - 1
      /\ \A i \in 1 .. Len(w) : w[i] = v[i]
  <2>1. CASE p = 0
    BY <2>1 DEF Before
  <2>2. CASE p # 0
    <3>1. w = Prefix(v, p - 1)
      BY <2>2 DEF Before
    <3>2. p - 1 \in Nat /\ p - 1 <= Len(v)
      BY <1>1, <2>2
    <3>3. /\ Len(Prefix(v, p - 1)) = p - 1
          /\ \A i \in 1 .. p - 1 : Prefix(v, p - 1)[i] = v[i]
      <4> HIDE DEF p
      <4> QED
        BY <3>2, PrefixFacts
    <3> QED
      BY <2>2, <3>1, <3>3
  <2> QED
    BY <2>1, <2>2
<1> HIDE DEF w, s, p
<1>5. \A i \in 1 .. Len(w) : w[i] \notin C
  BY <1>1, <1>4
<1>6. BeginsWith(s, w, C)
  <2>1. Len(w) \in Nat /\ Len(s) \in Nat /\ Len(s) <= Len(v) /\ Len(w) <= Len(v)
    BY <1>1, <1>2, <1>3, <1>4
  <2>2. \A i \in 1 .. Len(w) : i <= Len(s) => s[i] = w[i]
    BY <1>3, <1>4, <2>1
  <2>3. ASSUME Len(w) < Len(s) PROVE s[Len(w) + 1] \in C
    <3>1. p # 0
      BY <1>4, <2>1, <2>3
    <3>2. p = Len(w) + 1 /\ p \in 1 .. Len(s)
      BY <1>1, <1>4, <2>1, <2>3, <3>1
    <3> QED
      BY <1>1, <1>3, <3>1, <3>2
  <2> QED
    BY <2>2, <2>3 DEF BeginsWith
<1>7. Before(s, C) = Prefix(w, Len(s))
  BY <1>2, <1>3, <1>5, <1>6, CutWord
<1>8. Len(s) \in Nat
  BY <1>3
<1>9. IsPrefix(Prefix(w, Len(s)), w)
  BY <1>2, <1>8, PrefixIsPrefix
<1> QED
  BY <1>7, <1>9 DEF w, s

\* Induction: a set of numbers that holds 0 and is closed under successor.
LEMMA SetInduction ==
    ASSUME NEW S \in SUBSET Nat, 0 \in S, \A n \in S : n + 1 \in S
    PROVE  S = Nat
<1> SUFFICES ASSUME Nat \ S # {} PROVE FALSE
  OBVIOUS
<1>1. PICK n \in Nat \ S : \A m \in Nat \ S : n <= m
  BY LeastNumber
<1>2. n # 0 /\ n - 1 \in Nat
  BY <1>1
<1>3. n - 1 \in S
  BY <1>1, <1>2
<1> QED
  BY <1>1, <1>2, <1>3

\* Element i of f is the first i of some sequences, one after the other.
Joins(f, seqs) ==
    /\ f[0] = << >>
    /\ \A i \in 1 .. Len(seqs) : f[i] = f[i - 1] \o seqs[i]

\* Such a function exists, by induction on the number of sequences.
LEMMA JoinExists ==
    ASSUME NEW S, NEW seqs \in Seq(Seq(S))
    PROVE  \E f \in [0 .. Len(seqs) -> Seq(S)] : Joins(f, seqs)
<1> DEFINE UpTo(f, k) == /\ f[0] = << >>
                         /\ \A i \in 1 .. k : f[i] = f[i - 1] \o seqs[i]
           K == {k \in Nat : k <= Len(seqs) =>
                    \E f \in [0 .. k -> Seq(S)] : UpTo(f, k)}
<1>1. 0 \in K
  <2>1. [i \in 0 .. 0 |-> << >>] \in [0 .. 0 -> Seq(S)]
    OBVIOUS
  <2>2. UpTo([i \in 0 .. 0 |-> << >>], 0)
    OBVIOUS
  <2> QED
    BY <2>1, <2>2
<1>2. ASSUME NEW k \in K PROVE k + 1 \in K
  <2> SUFFICES ASSUME k + 1 <= Len(seqs)
               PROVE  \E f \in [0 .. k + 1 -> Seq(S)] : UpTo(f, k + 1)
    <3> HIDE DEF UpTo
    <3> QED
      OBVIOUS
  <2>1. k \in Nat /\ k <= Len(seqs) /\ Len(seqs) \in Nat
    OBVIOUS
  <2>2. PICK f \in [0 .. k -> Seq(S)] : UpTo(f, k)
    BY <2>1
  <2> DEFINE last == f[k] \o seqs[k + 1]
             g == [i \in 0 .. k + 1 |-> IF i = k + 1 THEN last ELSE f[i]]
  <2>3. last \in Seq(S)
    <3>1. f[k] \in Seq(S) /\ seqs[k + 1] \in Seq(S)
      BY <2>1
    <3> QED
      BY <3>1, ConcatProperties
  <2> HIDE DEF last
  <2>4. g \in [0 .. k + 1 -> Seq(S)]
    BY <2>1, <2>3
  <2>5. ASSUME NEW i \in 1 .. k + 1 PROVE g[i] = g[i - 1] \o seqs[i]
    <3>1. CASE i = k + 1
      <4>1. g[i] = last /\ g[i - 1] = f[k]
        BY <2>1, <3>1
      <4> QED
        BY <3>1, <4>1 DEF last
    <3>2. CASE i # k + 1
      <4>1. i \in 1 .. k /\ g[i] = f[i] /\ g[i - 1] = f[i - 1]
        BY <2>1, <3>2
      <4> QED
        BY <2>2, <4>1
    <3> QED
      BY <3>1, <3>2
  <2>6. g[0] = << >>
    BY <2>1, <2>2
  <2> QED
    BY <2>4, <2>5, <2>6
<1>3. K = Nat
  <2>1. K \in SUBSET Nat
    OBVIOUS
  <2> HIDE DEF K
  <2> QED
    BY <1>1, <1>2, <2>1, SetInduction
<1>4. Len(seqs) \in Nat
  OBVIOUS
<1>5. Len(seqs) \in K
  <2> HIDE DEF K
  <2> QED
    BY <1>3, <1>4
<1>6. PICK f \in [0 .. Len(seqs) -> Seq(S)] : UpTo(f, Len(seqs))
  <2> HIDE DEF UpTo
  <2> QED
    BY <1>4, <1>5
<1> QED
  BY <1>6 DEF Joins

\* FlattenSeq is the last element of that function.
LEMMA FlattenJoins ==
    ASSUME NEW S, NEW seqs \in Seq(Seq(S)),
           NEW g \in [0 .. Len(seqs) -> Seq(S)], Joins(g, seqs)
    PROVE  FlattenSeq(seqs) = g[Len(seqs)]
<1> DEFINE n == Len(seqs)
           Is(f) == f = [i \in 1 .. n |-> IF i = 1 THEN seqs[i] ELSE f[i - 1] \o seqs[i]]
           flatten == CHOOSE f : Is(f)
           h == [i \in 1 .. n |-> g[i]]
<1>0. n \in Nat
  OBVIOUS
<1>1. CASE n = 0
  <2>1. FlattenSeq(seqs) = << >>
    BY <1>1 DEF FlattenSeq
  <2> QED
    BY <1>1, <2>1 DEF Joins
<1>2. CASE n # 0
  <2>1. Is(h)
    <3>1. ASSUME NEW i \in 1 .. n
          PROVE  h[i] = IF i = 1 THEN seqs[i] ELSE h[i - 1] \o seqs[i]
      <4>1. g[i] = g[i - 1] \o seqs[i]
        BY DEF Joins
      <4>2. CASE i = 1
        <5>1. seqs[1] \in Seq(S)
          BY <1>0, <1>2
        <5>2. g[0] = << >> /\ i - 1 = 0
          BY <4>2 DEF Joins
        <5>3. g[1] = << >> \o seqs[1]
          BY <4>1, <4>2, <5>2
        <5> QED
          BY <4>2, <5>1, <5>3, ConcatEmptySeq
      <4>3. CASE i # 1
        <5>1. i - 1 \in 1 .. n
          BY <1>0, <4>3
        <5> QED
          BY <4>1, <4>3, <5>1
      <4> QED
        BY <4>2, <4>3
    <3> QED
      BY <3>1
  <2>2. Is(flatten)
    <3> HIDE DEF h, Is
    <3>1. \E f : Is(f)
      BY <2>1
    <3> QED
      BY <3>1
  <2>3. FlattenSeq(seqs) = flatten[n]
    BY <1>2 DEF FlattenSeq
  <2>4. \A i \in 1 .. n :
           flatten[i] = IF i = 1 THEN seqs[i] ELSE flatten[i - 1] \o seqs[i]
    <3> HIDE DEF flatten, n
    <3> QED
      BY <2>2
  <2>5. \A i \in 1 .. n : g[i] = IF i = 1 THEN seqs[i] ELSE g[i - 1] \o seqs[i]
    <3>1. ASSUME NEW i \in 1 .. n PROVE h[i] = g[i] /\ (i # 1 => h[i - 1] = g[i - 1])
      BY <1>0
    <3>2. ASSUME NEW i \in 1 .. n
          PROVE  h[i] = IF i = 1 THEN seqs[i] ELSE h[i - 1] \o seqs[i]
      <4> HIDE DEF h, n
      <4> QED
        BY <2>1
    <3> HIDE DEF h
    <3> QED
      BY <3>1, <3>2
  <2> HIDE DEF flatten, Is
  <2> DEFINE K == {k \in Nat : k + 1 <= n => flatten[k + 1] = g[k + 1]}
  <2>6. 0 \in K
    BY <1>0, <1>2, <2>4, <2>5
  <2>7. ASSUME NEW k \in K PROVE k + 1 \in K
    <3> SUFFICES ASSUME k + 2 <= n PROVE flatten[k + 2] = g[k + 2]
      BY <1>0
    <3>1. k + 2 \in 1 .. n /\ k + 2 # 1 /\ (k + 2) - 1 = k + 1
      BY <1>0
    <3>2. flatten[k + 1] = g[k + 1]
      BY <1>0
    <3>3. flatten[k + 2] = flatten[k + 1] \o seqs[k + 2]
      BY <2>4, <3>1
    <3>4. g[k + 2] = g[k + 1] \o seqs[k + 2]
      BY <2>5, <3>1
    <3> QED
      BY <3>2, <3>3, <3>4
  <2>8. K = Nat
    <3>1. K \in SUBSET Nat
      OBVIOUS
    <3> HIDE DEF K
    <3> QED
      BY <2>6, <2>7, <3>1, SetInduction
  <2>9. n - 1 \in K
    <3>1. n - 1 \in Nat
      BY <1>0, <1>2
    <3> HIDE DEF K
    <3> QED
      BY <2>8, <3>1
  <2>10. flatten[n] = g[n]
    BY <1>0, <2>9
  <2> QED
    BY <2>3, <2>10
<1> QED
  BY <1>1, <1>2

\* The text of the headers begins with no text and grows by one of them.
LEMMA Flattening ==
    ASSUME NEW S, NEW seqs \in Seq(Seq(S))
    PROVE  \E f \in [0 .. Len(seqs) -> Seq(S)] :
              Joins(f, seqs) /\ f[Len(seqs)] = FlattenSeq(seqs)
  BY JoinExists, FlattenJoins

\* Text without "Host:".
Free(s) == \A i \in 1 .. Len(s) : s[i] # HOST

\* The first "Host:" of s is at k, and value v and a line end follow.
HostAt(s, k, v) ==
    /\ k \in Nat \ {0}
    /\ k + Len(v) + 2 <= Len(s)
    /\ \A i \in 1 .. k - 1 : s[i] # HOST
    /\ s[k] = HOST
    /\ s[k + 1] = SP
    /\ \A i \in 1 .. Len(v) : s[k + 1 + i] = v[i]
    /\ s[k + Len(v) + 2] = EOL

LEMMA FreeJoin ==
    ASSUME NEW s \in Seq(Cells), NEW t \in Seq(Cells), Free(s), Free(t)
    PROVE  Free(s \o t)
<1>1. ASSUME NEW i \in 1 .. Len(s \o t) PROVE (s \o t)[i] # HOST
  <2>1. Len(s) \in Nat /\ Len(t) \in Nat /\ i \in 1 .. Len(s) + Len(t)
    BY <1>1, ConcatProperties
  <2>2. (s \o t)[i] = IF i <= Len(s) THEN s[i] ELSE t[i - Len(s)]
    BY <2>1, ConcatProperties
  <2>3. i <= Len(s) \/ i - Len(s) \in 1 .. Len(t)
    BY <2>1
  <2> QED
    BY <2>1, <2>2, <2>3 DEF Free
<1> QED
  BY <1>1 DEF Free

\* What follows does not change where the first "Host:" is.
LEMMA HostThenText ==
    ASSUME NEW s \in Seq(Cells), NEW t \in Seq(Cells), NEW v \in Seq(Cells),
           NEW k, HostAt(s, k, v)
    PROVE  HostAt(s \o t, k, v)
<1>1. /\ Len(s) \in Nat /\ Len(t) \in Nat /\ Len(v) \in Nat
      /\ Len(s \o t) = Len(s) + Len(t)
      /\ \A i \in 1 .. Len(s) : (s \o t)[i] = s[i]
  BY ConcatProperties
<1>2. k \in Nat \ {0} /\ k + Len(v) + 2 <= Len(s)
  BY DEF HostAt
<1>3. \A i \in 1 .. k + Len(v) + 2 : (s \o t)[i] = s[i]
  BY <1>1, <1>2
<1>4. \A i \in 1 .. k - 1 : (s \o t)[i] # HOST
  BY <1>1, <1>2, <1>3 DEF HostAt
<1>5. \A i \in 1 .. Len(v) : (s \o t)[k + 1 + i] = v[i]
  BY <1>1, <1>2, <1>3 DEF HostAt
<1>6. /\ (s \o t)[k] = HOST /\ (s \o t)[k + 1] = SP
      /\ (s \o t)[k + Len(v) + 2] = EOL
  BY <1>1, <1>2, <1>3 DEF HostAt
<1>7. k + Len(v) + 2 <= Len(s \o t)
  BY <1>1, <1>2
<1> QED
  BY <1>2, <1>4, <1>5, <1>6, <1>7 DEF HostAt

\* Text without "Host:" in front moves it.
LEMMA TextThenHost ==
    ASSUME NEW s \in Seq(Cells), NEW t \in Seq(Cells), NEW v \in Seq(Cells),
           NEW k, Free(s), HostAt(t, k, v)
    PROVE  HostAt(s \o t, Len(s) + k, v)
<1>1. /\ Len(s) \in Nat /\ Len(t) \in Nat /\ Len(v) \in Nat
      /\ Len(s \o t) = Len(s) + Len(t)
      /\ \A i \in 1 .. Len(s) + Len(t) :
            (s \o t)[i] = IF i <= Len(s) THEN s[i] ELSE t[i - Len(s)]
  BY ConcatProperties
<1>2. k \in Nat \ {0} /\ k + Len(v) + 2 <= Len(t)
  BY DEF HostAt
<1>3. \A i \in 1 .. k + Len(v) + 2 : (s \o t)[Len(s) + i] = t[i]
  <2> TAKE i \in 1 .. k + Len(v) + 2
  <2>1. /\ Len(s) + i \in 1 .. Len(s) + Len(t) /\ ~ (Len(s) + i <= Len(s))
        /\ (Len(s) + i) - Len(s) = i
    BY <1>1, <1>2
  <2> QED
    BY <1>1, <2>1
<1>4. ASSUME NEW i \in 1 .. (Len(s) + k) - 1 PROVE (s \o t)[i] # HOST
  <2>1. CASE i <= Len(s)
    BY <1>1, <1>2, <2>1 DEF Free
  <2>2. CASE ~ (i <= Len(s))
    <3>1. i - Len(s) \in 1 .. k - 1 /\ i \in 1 .. Len(s) + Len(t)
      BY <1>1, <1>2, <2>2
    <3>2. (s \o t)[i] = t[i - Len(s)]
      BY <1>1, <2>2, <3>1
    <3> QED
      BY <3>1, <3>2 DEF HostAt
  <2> QED
    BY <2>1, <2>2
<1>5. ASSUME NEW i \in 1 .. Len(v) PROVE (s \o t)[Len(s) + k + 1 + i] = v[i]
  <2>1. k + 1 + i \in 1 .. k + Len(v) + 2 /\ Len(s) + (k + 1 + i) = Len(s) + k + 1 + i
    BY <1>1, <1>2
  <2>2. (s \o t)[Len(s) + (k + 1 + i)] = t[k + 1 + i]
    BY <1>3, <2>1
  <2> QED
    BY <2>1, <2>2 DEF HostAt
<1>6. /\ (s \o t)[Len(s) + k] = HOST /\ (s \o t)[Len(s) + k + 1] = SP
      /\ (s \o t)[Len(s) + k + Len(v) + 2] = EOL
  <2>1. /\ k \in 1 .. k + Len(v) + 2 /\ k + 1 \in 1 .. k + Len(v) + 2
        /\ k + Len(v) + 2 \in 1 .. k + Len(v) + 2
        /\ Len(s) + (k + 1) = Len(s) + k + 1
        /\ Len(s) + (k + Len(v) + 2) = Len(s) + k + Len(v) + 2
    BY <1>1, <1>2
  <2>2. /\ (s \o t)[Len(s) + k] = t[k] /\ (s \o t)[Len(s) + (k + 1)] = t[k + 1]
        /\ (s \o t)[Len(s) + (k + Len(v) + 2)] = t[k + Len(v) + 2]
    BY <1>3, <2>1
  <2> QED
    BY <2>1, <2>2 DEF HostAt
<1>7. /\ Len(s) + k \in Nat \ {0}
      /\ Len(s) + k + Len(v) + 2 <= Len(s \o t)
  BY <1>1, <1>2
<1> QED
  BY <1>4, <1>5, <1>6, <1>7 DEF HostAt

\* A header on its own.
LEMMA HeaderShape ==
    ASSUME NEW h \in HeaderType
    PROVE  /\ RenderHeader(h) \in Seq(Cells)
           /\ h.value \in Seq(Cells)
           /\ ~ SaysHost(h) => Free(RenderHeader(h))
           /\ IsHostHeader(h) => HostAt(RenderHeader(h), Len(h.name) + 1, h.value)
<1>1. h.name \in Seq(Cells) /\ h.value \in Seq(Cells) /\ h.end \in Cells
  BY DEF HeaderType
<1>2. /\ h.name \in Seq(Cells) /\ h.value \in Seq(Cells) /\ h.end \in Cells
      /\ ~ SaysHost(h) => Free(h.name) /\ Free(h.value) /\ h.end # HOST
  BY <1>1 DEF SaysHost, Range, Free
<1>3. /\ <<h.end, SP>> \in Seq(Cells) /\ <<EOL>> \in Seq(Cells)
      /\ Free(<<EOL>>) /\ (h.end # HOST => Free(<<h.end, SP>>))
  BY <1>2, HttpHeadAssumption DEF Free
<1> DEFINE n == h.name
           v == h.value
           e == <<h.end, SP>>
           s == n \o (e \o v \o <<EOL>>)
<1>4. RenderHeader(h) = s
  BY DEF RenderHeader
<1>5. e \o v \in Seq(Cells) /\ e \o v \o <<EOL>> \in Seq(Cells) /\ s \in Seq(Cells)
  BY <1>2, <1>3
<1>6. ASSUME ~ SaysHost(h) PROVE Free(s)
  <2>0. e \in Seq(Cells) /\ v \in Seq(Cells) /\ Free(e) /\ Free(v)
    BY <1>2, <1>3, <1>6
  <2>1. Free(e \o v)
    <3> HIDE DEF e, v
    <3> QED
      BY <2>0, FreeJoin
  <2>2. Free(e \o v \o <<EOL>>)
    <3> HIDE DEF e, v
    <3> QED
      BY <1>3, <1>5, <2>1, FreeJoin
  <2>3. n \in Seq(Cells) /\ Free(n)
    BY <1>2, <1>6
  <2> QED
    <3> HIDE DEF e, v, n
    <3> QED
      BY <1>5, <2>2, <2>3, FreeJoin
<1>7. ASSUME IsHostHeader(h) PROVE HostAt(s, Len(n) + 1, v)
  <2> DEFINE t == e \o v \o <<EOL>>
  <2>1. e \o v \in Seq(Cells) /\ t \in Seq(Cells)
    <3> HIDE DEF e, v
    <3>1. e \in Seq(Cells) /\ v \in Seq(Cells) /\ <<EOL>> \in Seq(Cells)
      BY <1>2, <1>3 DEF e, v
    <3> QED
      BY <3>1, ConcatProperties
  <2>2. /\ Len(v) \in Nat /\ Len(t) = Len(v) + 3
        /\ t[1] = HOST /\ t[2] = SP /\ t[Len(v) + 3] = EOL
        /\ \A i \in 1 .. Len(v) : t[2 + i] = v[i]
    <3>1. Len(e) = 2 /\ e[1] = HOST /\ e[2] = SP
      BY <1>7 DEF IsHostHeader
    <3> HIDE DEF e, v
    <3>2. e \in Seq(Cells) /\ v \in Seq(Cells) /\ <<EOL>> \in Seq(Cells)
      BY <1>2, <1>3 DEF e, v
    <3>3. /\ Len(v) \in Nat /\ Len(e \o v) = 2 + Len(v)
          /\ \A i \in 1 .. 2 + Len(v) :
                (e \o v)[i] = IF i <= 2 THEN e[i] ELSE v[i - 2]
      <4>1. /\ Len(e \o v) = Len(e) + Len(v)
            /\ \A i \in 1 .. Len(e) + Len(v) :
                  (e \o v)[i] = IF i <= Len(e) THEN e[i] ELSE v[i - Len(e)]
        BY <3>2, ConcatProperties, Zenon
      <4>2. Len(v) \in Nat
        BY <3>2
      <4> QED
        BY <3>1, <4>1, <4>2
    <3>4. /\ Len(t) = 2 + Len(v) + 1
          /\ \A i \in 1 .. 2 + Len(v) + 1 :
                t[i] = IF i <= 2 + Len(v) THEN (e \o v)[i]
                       ELSE <<EOL>>[i - (2 + Len(v))]
      BY <2>1, <3>2, <3>3, ConcatProperties
    <3> HIDE DEF t
    <3>5. t[1] = HOST /\ t[2] = SP
      BY <3>1, <3>3, <3>4
    <3>6. t[Len(v) + 3] = EOL
      <4>1. /\ Len(v) + 3 \in 1 .. 2 + Len(v) + 1 /\ ~ (Len(v) + 3 <= 2 + Len(v))
            /\ Len(v) + 3 - (2 + Len(v)) = 1
        BY <3>3
      <4> QED
        BY <3>4, <4>1
    <3>7. ASSUME NEW i \in 1 .. Len(v) PROVE t[2 + i] = v[i]
      <4>1. /\ 2 + i \in 1 .. 2 + Len(v) + 1 /\ 2 + i \in 1 .. 2 + Len(v)
            /\ 2 + i <= 2 + Len(v) /\ ~ (2 + i <= 2) /\ (2 + i) - 2 = i
        BY <3>3
      <4> QED
        BY <3>3, <3>4, <4>1
    <3> QED
      BY <3>3, <3>4, <3>5, <3>6, <3>7
  <2>3. HostAt(t, 1, v)
    <3> HIDE DEF t, v
    <3>1. 1 + Len(v) + 2 = Len(v) + 3 /\ \A i \in 1 .. Len(v) : 1 + 1 + i = 2 + i
      BY <2>2
    <3> QED
      BY <2>2, <3>1 DEF HostAt
  <2>4. HostAt(n \o t, Len(n) + 1, v)
    <3>1. n \in Seq(Cells) /\ v \in Seq(Cells) /\ Free(n)
      BY <1>2, <1>7 DEF IsHostHeader, Free
    <3> HIDE DEF t, v, n
    <3> QED
      BY <2>1, <2>3, <3>1, TextThenHost
  <2>5. s = n \o t
    OBVIOUS
  <2> HIDE DEF s, t, n, v
  <2> QED
    BY <2>4, <2>5
<1> QED
  BY <1>2, <1>4, <1>5, <1>6, <1>7

\* Which header the host is taken from.
LEMMA HostValueFacts ==
    ASSUME NEW r \in RequestType
    PROVE  \/ /\ HostValue(r) = << >>
              /\ HostFirst(r) => \A i \in 1 .. Len(r.headers) : ~ SaysHost(r.headers[i])
           \/ \E j \in 1 .. Len(r.headers) :
                 /\ HostValue(r) = r.headers[j].value
                 /\ IsHostHeader(r.headers[j])
                 /\ HostFirst(r) => \A i \in 1 .. j - 1 : ~ SaysHost(r.headers[i])
<1> DEFINE hs == r.headers
           I == {i \in 1 .. Len(hs) : IsHostHeader(hs[i])}
           first == IF I # {} THEN Min(I) ELSE 0
<1>1. hs \in Seq(HeaderType)
  BY DEF RequestType
<1>2. /\ HostHeader(r) = first
      /\ HostValue(r) = IF first = 0 THEN << >> ELSE hs[first].value
  BY DEF HostValue, HostHeader, SelectInSeq
<1>3. CASE I = {}
  BY <1>2, <1>3 DEF HostFirst
<1>4. CASE I # {}
  <2>1. I \in SUBSET Nat
    BY <1>1
  <2>2. Min(I) \in I /\ \A i \in I : Min(I) <= i
    <3> HIDE DEF I
    <3> QED
      BY <1>4, <2>1, MinFacts
  <2>3. PICK j \in I : j = first /\ \A i \in I : j <= i
    BY <1>4, <2>2
  <2> HIDE DEF first
  <2>4. j \in 1 .. Len(hs) /\ IsHostHeader(hs[j]) /\ j # 0
    BY <1>1, <2>3
  <2>5. HostFirst(r) => \A i \in 1 .. j - 1 : ~ SaysHost(hs[i])
    <3>1. \A i \in 1 .. j - 1 : i \in 1 .. Len(hs) /\ i < j
      BY <1>1, <2>4
    <3> QED
      BY <1>2, <2>3, <3>1 DEF HostFirst
  <2>6. HostValue(r) = hs[j].value
    BY <1>2, <2>3, <2>4
  <2> QED
    BY <2>4, <2>5, <2>6
<1> QED
  BY <1>3, <1>4

HeaderTexts(r) == [i \in DOMAIN r.headers |-> RenderHeader(r.headers[i])]

\* The headers of a request, one after the other.
LEMMA HeadersShape ==
    ASSUME NEW r \in RequestType
    PROVE  /\ HostValue(r) \in Seq(Cells)
           /\ FlattenSeq(HeaderTexts(r)) \in Seq(Cells)
           /\ HostFirst(r) =>
                 \/ HostValue(r) = << >> /\ Free(FlattenSeq(HeaderTexts(r)))
                 \/ /\ HostValue(r) \in HostText
                    /\ \E k : HostAt(FlattenSeq(HeaderTexts(r)), k, HostValue(r))
<1> DEFINE hs == r.headers
           n == Len(hs)
           seqs == HeaderTexts(r)
<1>1. hs \in Seq(HeaderType) /\ n \in Nat
  BY DEF RequestType
<1>2. \A i \in 1 .. n : hs[i] \in HeaderType /\ seqs[i] = RenderHeader(hs[i])
  BY <1>1 DEF HeaderTexts
<1>3. seqs \in Seq(Seq(Cells)) /\ Len(seqs) = n
  <2>1. DOMAIN hs = 1 .. n
    BY <1>1
  <2>2. \A i \in 1 .. n : RenderHeader(hs[i]) \in Seq(Cells)
    BY <1>2, HeaderShape
  <2> QED
    BY <1>1, <2>1, <2>2 DEF HeaderTexts
<1> HIDE DEF seqs
<1>4. PICK f \in [0 .. n -> Seq(Cells)] : Joins(f, seqs) /\ f[n] = FlattenSeq(seqs)
  BY <1>3, Flattening
<1>5. f[0] = << >> /\ \A i \in 1 .. n : f[i] = f[i - 1] \o seqs[i]
  BY <1>3, <1>4 DEF Joins
<1> HIDE DEF n
<1>6. f[n] \in Seq(Cells)
  BY <1>1, <1>4
<1>7. ASSUME NEW m \in 0 .. n, \A i \in 1 .. m : ~ SaysHost(hs[i])
      PROVE  Free(f[m])
  <2> DEFINE K == {i \in Nat : i <= m => Free(f[i])}
  <2>1. 0 \in K
    BY <1>5 DEF Free
  <2>2. ASSUME NEW i \in K, i + 1 <= m PROVE Free(f[i + 1])
    <3>0. i \in Nat /\ (i <= m => Free(f[i]))
      BY <2>2
    <3> HIDE DEF K
    <3>1. i + 1 \in 1 .. m /\ i + 1 \in 1 .. n /\ i \in 0 .. n /\ i <= m /\ (i + 1) - 1 = i
      BY <1>1, <1>7, <2>2, <3>0
    <3>2. seqs[i + 1] \in Seq(Cells) /\ Free(seqs[i + 1])
      BY <1>2, <1>7, <3>1, HeaderShape
    <3>3. f[i] \in Seq(Cells) /\ Free(f[i])
      BY <1>4, <3>0, <3>1
    <3>4. Free(f[i] \o seqs[i + 1])
      BY <3>2, <3>3, FreeJoin
    <3> QED
      BY <1>5, <3>1, <3>4
  <2>3. K = Nat
    <3>1. K \in SUBSET Nat
      OBVIOUS
    <3>2. \A i \in K : i + 1 \in K
      BY <2>2
    <3> HIDE DEF K
    <3> QED
      BY <2>1, <3>1, <3>2, SetInduction
  <2>4. m \in K
    <3> HIDE DEF K
    <3> QED
      BY <1>1, <1>7, <2>3
  <2> QED
    BY <2>4
<1>8. CASE /\ HostValue(r) = << >>
           /\ HostFirst(r) => \A i \in 1 .. Len(r.headers) : ~ SaysHost(r.headers[i])
  <2>1. n \in 0 .. n /\ (HostFirst(r) => \A i \in 1 .. n : ~ SaysHost(hs[i]))
    BY <1>1, <1>8 DEF n
  <2>3. HostFirst(r) => Free(f[n])
    BY <1>7, <2>1
  <2>2. << >> \in Seq(Cells)
    OBVIOUS
  <2> QED
    BY <1>4, <1>6, <1>8, <2>2, <2>3 DEF seqs
<1>9. ASSUME NEW j \in 1 .. n, HostValue(r) = hs[j].value, IsHostHeader(hs[j]),
             HostFirst(r), \A i \in 1 .. j - 1 : ~ SaysHost(hs[i])
      PROVE  /\ HostValue(r) \in HostText
             /\ \E k : HostAt(f[n], k, HostValue(r))
  <2> DEFINE v == hs[j].value
  <2>1. /\ seqs[j] \in Seq(Cells) /\ v \in Seq(Cells) /\ v \in HostText
        /\ HostAt(seqs[j], Len(hs[j].name) + 1, v)
    <3>1. hs[j] \in HeaderType /\ seqs[j] = RenderHeader(hs[j])
      BY <1>2, <1>9
    <3>2. v \in HostText
      BY <1>9, <3>1 DEF HeaderType
    <3> QED
      BY <1>9, <3>1, <3>2, HeaderShape
  <2> HIDE DEF v
  <2>2. /\ j - 1 \in 0 .. n /\ j \in 0 .. n
        /\ f[j - 1] \in Seq(Cells) /\ f[j] = f[j - 1] \o seqs[j]
    <3>1. j - 1 \in 0 .. n /\ j \in 0 .. n
      BY <1>1, <1>9
    <3> QED
      BY <1>4, <1>5, <3>1
  <2>3. Free(f[j - 1])
    BY <1>7, <1>9, <2>2
  <2> DEFINE k == Len(f[j - 1]) + (Len(hs[j].name) + 1)
  <2>4. HostAt(f[j], k, v)
    BY <2>1, <2>2, <2>3, TextThenHost
  <2> HIDE DEF k
  <2> DEFINE K == {i \in Nat : j + i <= n => HostAt(f[j + i], k, v)}
  <2>5. 0 \in K
    <3>1. j + 0 = j
      BY <1>9
    <3> QED
      BY <2>4, <3>1
  <2>6. ASSUME NEW i \in K, j + (i + 1) <= n PROVE HostAt(f[j + (i + 1)], k, v)
    <3>1. /\ j + (i + 1) \in 1 .. n /\ (j + (i + 1)) - 1 = j + i
          /\ j + i \in 0 .. n /\ j + i <= n
      BY <1>1, <2>6
    <3>2. seqs[j + (i + 1)] \in Seq(Cells)
      BY <1>2, <3>1, HeaderShape
    <3>3. f[j + i] \in Seq(Cells) /\ HostAt(f[j + i], k, v)
      BY <1>4, <2>6, <3>1
    <3>4. HostAt(f[j + i] \o seqs[j + (i + 1)], k, v)
      BY <2>1, <3>2, <3>3, HostThenText
    <3> QED
      BY <1>5, <3>1, <3>4
  <2>7. K = Nat
    <3>1. K \in SUBSET Nat
      OBVIOUS
    <3>2. \A i \in K : i + 1 \in K
      BY <2>6
    <3> HIDE DEF K
    <3> QED
      BY <2>5, <3>1, <3>2, SetInduction
  <2>8. n - j \in Nat /\ j + (n - j) = n /\ j + (n - j) <= n
    BY <1>1, <1>9
  <2>9. HostAt(f[n], k, v)
    <3>1. n - j \in K
      <4> HIDE DEF K
      <4> QED
        BY <2>7, <2>8
    <3> QED
      BY <2>8, <3>1
  <2> QED
    BY <1>9, <2>1, <2>9 DEF v
<1>10. CASE \E j \in 1 .. Len(r.headers) :
              /\ HostValue(r) = r.headers[j].value
              /\ IsHostHeader(r.headers[j])
              /\ HostFirst(r) => \A i \in 1 .. j - 1 : ~ SaysHost(r.headers[i])
  <2>1. PICK j \in 1 .. n :
              /\ HostValue(r) = hs[j].value
              /\ IsHostHeader(hs[j])
              /\ HostFirst(r) => \A i \in 1 .. j - 1 : ~ SaysHost(hs[i])
    BY <1>10 DEF n
  <2>2. HostValue(r) \in Seq(Cells)
    BY <1>2, <2>1, HeaderShape
  <2>3. HostFirst(r) => /\ HostValue(r) \in HostText
                        /\ \E k : HostAt(f[n], k, HostValue(r))
    BY <1>9, <2>1
  <2> QED
    BY <1>4, <1>6, <2>2, <2>3 DEF seqs
<1> QED
  BY <1>8, <1>10, HostValueFacts

\* What comes first stays where it is, what is appended follows it.
LEMMA JoinFacts ==
    ASSUME NEW s \in Seq(Cells), NEW t \in Seq(Cells)
    PROVE  /\ s \o t \in Seq(Cells)
           /\ Len(s \o t) = Len(s) + Len(t)
           /\ \A i \in 1 .. Len(s) : (s \o t)[i] = s[i]
           /\ \A i \in 1 .. Len(t) : (s \o t)[Len(s) + i] = t[i]
<1>1. /\ s \o t \in Seq(Cells) /\ Len(s) \in Nat /\ Len(t) \in Nat
      /\ Len(s \o t) = Len(s) + Len(t)
      /\ \A i \in 1 .. Len(s) + Len(t) :
            (s \o t)[i] = IF i <= Len(s) THEN s[i] ELSE t[i - Len(s)]
  BY ConcatProperties
<1>2. ASSUME NEW i \in 1 .. Len(t) PROVE (s \o t)[Len(s) + i] = t[i]
  <2>1. /\ Len(s) + i \in 1 .. Len(s) + Len(t) /\ ~ (Len(s) + i <= Len(s))
        /\ (Len(s) + i) - Len(s) = i
    BY <1>1
  <2> QED
    BY <1>1, <2>1
<1> QED
  BY <1>1, <1>2

\* A request as the parser meets it: method, blank, path, blank, and further on
\* the host, unless no header names it.
IsRequest(s, r) ==
    /\ Len(r.method) + Len(r.path) + 2 <= Len(s)
    /\ \A i \in 1 .. Len(r.method) : s[i] = r.method[i]
    /\ s[Len(r.method) + 1] = SP
    /\ \A i \in 1 .. Len(r.path) : s[Len(r.method) + 1 + i] = r.path[i]
    /\ s[Len(r.method) + Len(r.path) + 2] = SP

HoldsHost(s, v) ==
    \/ v = << >> /\ Free(s)
    \/ v \in HostText /\ \E k : HostAt(s, k, v)

LEMMA RequestShape ==
    ASSUME NEW r \in RequestType
    PROVE  /\ RenderRequest(r) \in Seq(Cells)
           /\ IsRequest(RenderRequest(r), r)
           /\ HostFirst(r) => HoldsHost(RenderRequest(r), HostValue(r))
<1> DEFINE m == r.method
           p == r.path
           one == <<SP>>
           end == <<SP, r.version, EOL>>
           F == FlattenSeq(HeaderTexts(r))
           A == m \o one
           B == A \o p
           C == B \o end
           D == C \o F
           P == D \o <<EOL>>
<1>1. RenderRequest(r) = P
  BY DEF RenderRequest, HeaderTexts
<1>2. /\ m \in Seq(Cells) /\ p \in Seq(Cells) /\ Free(m)
      /\ r.version \in Cells /\ r.version # HOST
      /\ HostFirst(r) => Free(p)
  BY DEF RequestType, HostFirst, Range, Free
<1>3. /\ one \in Seq(Cells) /\ Len(one) = 1 /\ one[1] = SP /\ Free(one)
      /\ <<EOL>> \in Seq(Cells) /\ Free(<<EOL>>)
  BY HttpHeadAssumption DEF Free
<1>4. /\ end \in Seq(Cells) /\ Len(end) = 3 /\ end[1] = SP /\ Free(end)
  <2>1. end \in Seq(Cells) /\ Len(end) = 3 /\ end[1] = SP
    BY <1>2, HttpHeadAssumption
  <2>2. end[2] = r.version /\ end[3] = EOL
    OBVIOUS
  <2>3. \A i \in 1 .. 3 : i = 1 \/ i = 2 \/ i = 3
    OBVIOUS
  <2> HIDE DEF end
  <2> QED
    BY <1>2, <2>1, <2>2, <2>3, HttpHeadAssumption DEF Free
<1>5. /\ HostValue(r) \in Seq(Cells) /\ F \in Seq(Cells)
      /\ HostFirst(r) =>
            \/ HostValue(r) = << >> /\ Free(F)
            \/ HostValue(r) \in HostText /\ \E k : HostAt(F, k, HostValue(r))
  BY HeadersShape
<1> DEFINE last == <<EOL>>
           v == HostValue(r)
<1> HIDE DEF m, p, one, end, F, last, v
<1>6. /\ A \in Seq(Cells) /\ Len(A) = Len(m) + Len(one)
      /\ \A i \in 1 .. Len(m) : A[i] = m[i]
      /\ \A i \in 1 .. Len(one) : A[Len(m) + i] = one[i]
      /\ Free(A)
  BY <1>2, <1>3, JoinFacts, FreeJoin
<1> HIDE DEF A
<1>7. /\ B \in Seq(Cells) /\ Len(B) = Len(A) + Len(p)
      /\ \A i \in 1 .. Len(A) : B[i] = A[i]
      /\ \A i \in 1 .. Len(p) : B[Len(A) + i] = p[i]
      /\ HostFirst(r) => Free(B)
  BY <1>2, <1>6, JoinFacts, FreeJoin
<1> HIDE DEF B
<1>8. /\ C \in Seq(Cells) /\ Len(C) = Len(B) + Len(end)
      /\ \A i \in 1 .. Len(B) : C[i] = B[i]
      /\ \A i \in 1 .. Len(end) : C[Len(B) + i] = end[i]
      /\ HostFirst(r) => Free(C)
  BY <1>4, <1>7, JoinFacts, FreeJoin
<1> HIDE DEF C
<1>9. /\ D \in Seq(Cells) /\ Len(D) = Len(C) + Len(F)
      /\ \A i \in 1 .. Len(C) : D[i] = C[i]
  BY <1>5, <1>8, JoinFacts
<1>10. last \in Seq(Cells) /\ Free(last)
  BY <1>3 DEF last
<1>11. ASSUME HostFirst(r) PROVE HoldsHost(D \o last, v)
  <2>1. CASE v = << >> /\ Free(F)
    <3>1. Free(D)
      BY <1>5, <1>8, <1>11, <2>1, FreeJoin
    <3> HIDE DEF D
    <3>2. Free(D \o last)
      BY <1>9, <1>10, <3>1, FreeJoin
    <3> QED
      BY <2>1, <3>2 DEF HoldsHost
  <2>2. CASE v \in HostText /\ \E k : HostAt(F, k, v)
    <3>1. PICK k : HostAt(F, k, v)
      BY <2>2
    <3>2. v \in Seq(Cells)
      BY <1>5 DEF v
    <3>3. HostAt(D, Len(C) + k, v)
      BY <1>5, <1>8, <1>11, <3>1, <3>2, TextThenHost
    <3> HIDE DEF D
    <3>4. HostAt(D \o last, Len(C) + k, v)
      BY <1>9, <1>10, <3>2, <3>3, HostThenText
    <3> QED
      BY <2>2, <3>4 DEF HoldsHost
  <2> QED
    BY <1>5, <1>11, <2>1, <2>2 DEF v
<1> HIDE DEF D
<1> DEFINE s == D \o last
<1>12. /\ s \in Seq(Cells) /\ Len(s) = Len(D) + Len(last)
       /\ \A i \in 1 .. Len(D) : s[i] = D[i]
  BY <1>9, <1>10, JoinFacts
<1> HIDE DEF s
<1>13. /\ Len(m) \in Nat /\ Len(p) \in Nat /\ Len(F) \in Nat /\ Len(last) \in Nat
       /\ Len(A) = Len(m) + 1 /\ Len(B) = Len(m) + 1 + Len(p)
       /\ Len(C) = Len(m) + Len(p) + 4
  <2>1. /\ Len(m) \in Nat /\ Len(p) \in Nat /\ Len(F) \in Nat /\ Len(last) \in Nat
    BY <1>2, <1>5, <1>10
  <2>2. Len(one) = 1 /\ Len(end) = 3
    BY <1>3, <1>4
  <2>3. Len(A) = Len(m) + 1
    BY <1>6, <2>2
  <2>4. Len(B) = Len(m) + 1 + Len(p)
    BY <1>7, <2>3
  <2>5. Len(C) = Len(m) + 1 + Len(p) + 3
    BY <1>8, <2>2, <2>4
  <2>6. Len(m) + 1 + Len(p) + 3 = Len(m) + Len(p) + 4
    BY <2>1
  <2> QED
    BY <2>1, <2>3, <2>4, <2>5, <2>6
<1>14. \A i \in 1 .. Len(C) : s[i] = C[i]
  BY <1>9, <1>12, <1>13
<1>15. \A i \in 1 .. Len(B) : s[i] = B[i]
  BY <1>8, <1>13, <1>14
<1>16. \A i \in 1 .. Len(A) : s[i] = A[i]
  BY <1>7, <1>13, <1>15
<1>17. \A i \in 1 .. Len(m) : s[i] = m[i]
  BY <1>6, <1>13, <1>16
<1>18. s[Len(m) + 1] = SP
  BY <1>3, <1>6, <1>13, <1>16
<1>19. \A i \in 1 .. Len(p) : s[Len(m) + 1 + i] = p[i]
  BY <1>7, <1>13, <1>15
<1>20. s[Len(m) + Len(p) + 2] = SP
  <2>1. C[Len(B) + 1] = SP /\ Len(B) + 1 = Len(m) + Len(p) + 2
    BY <1>4, <1>8, <1>13
  <2> QED
    BY <1>13, <1>14, <2>1
<1>21. Len(m) + Len(p) + 2 <= Len(s)
  BY <1>9, <1>12, <1>13
<1>22. IsRequest(s, r)
  BY <1>17, <1>18, <1>19, <1>20, <1>21 DEF IsRequest, m, p
<1>23. RenderRequest(r) = s
  BY <1>1 DEF s, D, C, B, A, last
<1> QED
  BY <1>11, <1>12, <1>22, <1>23 DEF s, v

\* The method is found whole or not at all.
LEMMA MethodParsed ==
    ASSUME NEW s \in Seq(Cells), NEW r \in RequestType, IsRequest(s, r), NEW n \in Nat,
           parse_method(Prefix(s, n)) # << >>
    PROVE  /\ parse_method(Prefix(s, n)) = r.method
           /\ Position(Prefix(s, n), {SP}) = Len(r.method) + 1
           /\ Len(r.method) + 1 <= Len(Prefix(s, n))
<1> DEFINE q == Prefix(s, n)
           m == r.method
<1>1. /\ q \in Seq(Cells)
      /\ Len(q) = IF Len(s) < n THEN Len(s) ELSE n
      /\ \A i \in 1 .. Len(q) : q[i] = s[i]
  BY PrefixFacts
<1>2. m \in Seq(Cells) /\ \A i \in 1 .. Len(m) : m[i] \notin {SP}
  BY DEF RequestType
<1>3. /\ Len(m) \in Nat /\ Len(q) \in Nat /\ Len(m) + 1 <= Len(s)
      /\ \A i \in 1 .. Len(m) : s[i] = m[i]
      /\ s[Len(m) + 1] = SP
  <2>1. /\ Len(m) + Len(r.path) + 2 <= Len(s)
        /\ \A i \in 1 .. Len(m) : s[i] = m[i]
        /\ s[Len(m) + 1] = SP
    BY DEF IsRequest
  <2>2. Len(r.path) \in Nat
    BY DEF RequestType
  <2>3. Len(s) \in Nat /\ Len(m) \in Nat
    BY <1>2
  <2> HIDE DEF q, m
  <2> QED
    BY <1>1, <2>1, <2>2, <2>3
<1>4. Position(q, {SP}) # 0
  BY DEF parse_method
<1> HIDE DEF q, m
<1>5. BeginsWith(q, m, {SP})
  BY <1>1, <1>3 DEF BeginsWith
<1>6. /\ Before(q, {SP}) = Prefix(m, Len(q))
      /\ Len(m) < Len(q) => Position(q, {SP}) = Len(m) + 1
      /\ Len(m) >= Len(q) => Position(q, {SP}) = 0
  BY <1>1, <1>2, <1>5, CutWord
<1>7. Len(m) < Len(q)
  BY <1>3, <1>4, <1>6
<1>8. Before(q, {SP}) = m
  BY <1>2, <1>3, <1>6, <1>7, PrefixIsPrefix
<1>9. parse_method(q) = Text(m)
  BY <1>4, <1>8 DEF parse_method
<1>10. Text(m) = m
  BY <1>9 DEF Text, q
<1> QED
  BY <1>3, <1>6, <1>7, <1>9, <1>10 DEF q, m

\* The path is cut at the end of what is kept, if it is cut at all.
LEMMA PathParsed ==
    ASSUME NEW s \in Seq(Cells), NEW r \in RequestType, IsRequest(s, r), NEW n \in Nat,
           parse_method(Prefix(s, n)) # << >>
    PROVE  /\ IsPrefix(parse_path(Prefix(s, n)), r.path)
           /\ Len(s) <= n => parse_path(Prefix(s, n)) = Text(r.path)
<1> DEFINE q == Prefix(s, n)
           a == Len(r.method)
           p == r.path
           rest == Suffix(q, a + 2)
<1>1. /\ q \in Seq(Cells)
      /\ Len(q) = IF Len(s) < n THEN Len(s) ELSE n
      /\ \A i \in 1 .. Len(q) : q[i] = s[i]
  BY PrefixFacts
<1>2. p \in Seq(Cells) /\ a \in Nat /\ \A i \in 1 .. Len(p) : p[i] \notin {SP}
  BY DEF RequestType
<1>3. /\ Len(p) \in Nat /\ Len(q) \in Nat /\ a + Len(p) + 2 <= Len(s)
      /\ \A i \in 1 .. Len(p) : s[a + 1 + i] = p[i]
      /\ s[a + Len(p) + 2] = SP
  <2>1. /\ a + Len(p) + 2 <= Len(s)
        /\ \A i \in 1 .. Len(p) : s[a + 1 + i] = p[i]
        /\ s[a + Len(p) + 2] = SP
    BY DEF IsRequest
  <2>2. Len(p) \in Nat /\ Len(q) \in Nat
    <3> HIDE DEF q, p
    <3> QED
      BY <1>1, <1>2
  <2> QED
    BY <2>1, <2>2
<1>4. Position(q, {SP}) = a + 1 /\ a + 1 <= Len(q)
  BY MethodParsed
<1> HIDE DEF q, a, p
<1>5. a + 2 \in Nat \ {0}
  BY <1>2
<1>6. /\ rest \in Seq(Cells)
      /\ Len(rest) = IF a + 2 <= Len(q) THEN Len(q) - (a + 2) + 1 ELSE 0
      /\ \A i \in 1 .. Len(rest) : rest[i] = q[i + (a + 2) - 1]
  BY <1>1, <1>5, SuffixFacts
<1>7. (a + 1) + 1 = a + 2 /\ a + 1 # 0
  BY <1>2
<1>8. parse_path(q) = Text(Before(rest, {SP}))
  BY <1>4, <1>7 DEF parse_path
<1> HIDE DEF rest
<1>9. Len(rest) \in Nat /\ Len(rest) = Len(q) - (a + 1)
  BY <1>2, <1>3, <1>4, <1>6
<1>10. ASSUME NEW i \in 1 .. Len(rest) PROVE rest[i] = s[a + 1 + i]
  <2>1. i + (a + 2) - 1 = a + 1 + i /\ a + 1 + i \in 1 .. Len(q)
    BY <1>2, <1>3, <1>9
  <2> QED
    BY <1>1, <1>6, <2>1
<1>11. BeginsWith(rest, p, {SP})
  <2>1. \A i \in 1 .. Len(p) : i <= Len(rest) => rest[i] = p[i]
    BY <1>3, <1>9, <1>10
  <2>2. Len(p) < Len(rest) => rest[Len(p) + 1] = SP
    <3>1. a + 1 + (Len(p) + 1) = a + Len(p) + 2
      BY <1>2, <1>3
    <3> QED
      BY <1>3, <1>9, <1>10, <3>1
  <2> QED
    BY <2>1, <2>2 DEF BeginsWith
<1>12. Before(rest, {SP}) = Prefix(p, Len(rest))
  BY <1>2, <1>6, <1>11, CutWord
<1>13. /\ IsPrefix(Prefix(p, Len(rest)), p)
       /\ Len(rest) >= Len(p) => Prefix(p, Len(rest)) = p
       /\ IsPrefix(<< >>, p)
  BY <1>2, <1>9, PrefixIsPrefix
<1>14. IsPrefix(parse_path(q), p)
  BY <1>8, <1>12, <1>13 DEF Text
<1>15. ASSUME Len(s) <= n PROVE parse_path(q) = Text(p)
  <2>1. Len(q) = Len(s)
    BY <1>1, <1>3, <1>15
  <2>2. Len(rest) >= Len(p)
    BY <1>2, <1>3, <1>9, <2>1
  <2> QED
    BY <1>8, <1>12, <1>13, <2>2
<1> QED
  BY <1>14, <1>15 DEF q, p

\* Nothing comes before anything in nothing.
LEMMA NothingBefore == ASSUME NEW C PROVE Before(<< >>, C) = << >>
<1> DEFINE e == << >>
<1>1. e \in Seq(Cells) /\ 1 .. Len(e) = {}
  OBVIOUS
<1> HIDE DEF e
<1>2. Position(e, C) = 0
  BY <1>1, PositionFacts
<1> QED
  BY <1>2 DEF Before, e

\* So is the host, and nothing else is ever taken for it.
LEMMA HostParsed ==
    ASSUME NEW s \in Seq(Cells), NEW v \in Seq(Cells), HoldsHost(s, v), NEW n \in Nat
    PROVE  /\ IsPrefix(parse_host(Prefix(s, n)), HostName(v))
           /\ Len(s) <= n => parse_host(Prefix(s, n)) = HostName(Text(v))
<1> DEFINE q == Prefix(s, n)
<1>1. /\ q \in Seq(Cells)
      /\ Len(q) = IF Len(s) < n THEN Len(s) ELSE n
      /\ \A i \in 1 .. Len(q) : q[i] = s[i]
  BY PrefixFacts
<1>2. Len(s) \in Nat /\ Len(q) \in Nat /\ Len(q) <= Len(s)
  BY <1>1
<1>3. HostName(v) \in Seq(Cells) /\ IsPrefix(<< >>, HostName(v))
  <2>1. HostName(v) \in Seq(Cells)
    BY BeforeType DEF HostName
  <2>2. 0 \in Nat
    OBVIOUS
  <2> QED
    BY <2>1, <2>2, PrefixIsPrefix
<1>4. \/ /\ Position(q, {HOST}) = 0
         /\ \A i \in 1 .. Len(q) : q[i] \notin {HOST}
      \/ /\ Position(q, {HOST}) \in 1 .. Len(q)
         /\ q[Position(q, {HOST})] \in {HOST}
         /\ \A i \in 1 .. Position(q, {HOST}) - 1 : q[i] \notin {HOST}
  BY <1>1, PositionFacts
<1> HIDE DEF q
<1>5. CASE v = << >> /\ Free(s)
  <2>1. \A i \in 1 .. Len(q) : q[i] # HOST
    BY <1>1, <1>2, <1>5 DEF Free
  <2>2. parse_host(q) = << >>
    BY <1>4, <2>1 DEF parse_host
  <2>3. HostName(Text(v)) = << >>
    <3>1. Text(v) = << >>
      BY <1>5 DEF Text
    <3> QED
      BY <3>1, NothingBefore DEF HostName
  <2> QED
    BY <1>3, <2>2, <2>3 DEF q
<1>6. ASSUME v \in HostText, NEW k, HostAt(s, k, v)
      PROVE  /\ IsPrefix(parse_host(q), HostName(v))
             /\ Len(s) <= n => parse_host(q) = HostName(Text(v))
  <2>1. /\ k \in Nat \ {0} /\ Len(v) \in Nat /\ k + Len(v) + 2 <= Len(s)
        /\ \A i \in 1 .. k - 1 : s[i] # HOST
        /\ s[k] = HOST /\ s[k + 1] = SP /\ s[k + Len(v) + 2] = EOL
        /\ \A i \in 1 .. Len(v) : s[k + 1 + i] = v[i]
    BY <1>6 DEF HostAt
  <2>2. CASE Len(q) < k
    <3>1. ASSUME NEW i \in 1 .. Len(q) PROVE q[i] # HOST
      <4>1. i \in 1 .. k - 1
        BY <1>2, <2>1, <2>2
      <4> QED
        BY <1>1, <2>1, <4>1
    <3>2. parse_host(q) = << >>
      BY <1>4, <3>1 DEF parse_host
    <3>3. ~ (Len(s) <= n)
      BY <1>1, <1>2, <2>1, <2>2
    <3> QED
      BY <1>3, <3>2, <3>3
  <2>3. CASE k <= Len(q)
    <3> DEFINE after == Suffix(q, k + 1)
               start == Position(after, Cells \ {SP})
    <3>1. Position(q, {HOST}) = k
      <4> DEFINE pos == Position(q, {HOST})
      <4>1. k \in 1 .. Len(q) /\ q[k] = HOST
        BY <1>1, <1>2, <2>1, <2>3
      <4>2. ASSUME NEW i \in 1 .. k - 1 PROVE q[i] # HOST
        <5>1. i \in 1 .. Len(q)
          BY <1>2, <2>1, <2>3
        <5> QED
          BY <1>1, <2>1, <5>1
      <4> HIDE DEF pos
      <4>3. /\ pos \in 1 .. Len(q) /\ q[pos] = HOST
            /\ \A i \in 1 .. pos - 1 : q[i] # HOST
        BY <1>4, <4>1 DEF pos
      <4>4. ~ (k < pos)
        <5> SUFFICES ASSUME k < pos PROVE FALSE
          OBVIOUS
        <5>1. k \in 1 .. pos - 1
          BY <2>1, <4>3
        <5> QED
          BY <4>1, <4>3, <5>1
      <4>5. ~ (pos < k)
        <5> SUFFICES ASSUME pos < k PROVE FALSE
          OBVIOUS
        <5>1. pos \in 1 .. k - 1
          BY <2>1, <4>3
        <5> QED
          BY <4>2, <4>3, <5>1
      <4>6. pos = k
        BY <2>1, <4>3, <4>4, <4>5
      <4> QED
        BY <4>6 DEF pos
    <3>2. k + 1 \in Nat \ {0} /\ k # 0
      BY <2>1
    <3>3. /\ after \in Seq(Cells)
          /\ Len(after) = IF k + 1 <= Len(q) THEN Len(q) - (k + 1) + 1 ELSE 0
          /\ \A i \in 1 .. Len(after) : after[i] = q[i + (k + 1) - 1]
      BY <1>1, <3>2, SuffixFacts
    <3>4. parse_host(q) = IF start = 0 THEN << >>
             ELSE Before(Text(Before(Suffix(after, start), {EOL})), {COLON})
      BY <3>1, <3>2 DEF parse_host
    <3> HIDE DEF after
    <3>5. Len(after) \in Nat /\ Len(after) = Len(q) - k
      BY <1>2, <2>1, <2>3, <3>3
    <3>6. ASSUME NEW i \in 1 .. Len(after) PROVE after[i] = s[k + i]
      <4>1. i + (k + 1) - 1 = k + i /\ k + i \in 1 .. Len(q)
        BY <1>2, <2>1, <3>5
      <4> QED
        BY <1>1, <3>3, <4>1
    <3>7. \/ start = 0 /\ \A i \in 1 .. Len(after) : after[i] \notin Cells \ {SP}
          \/ /\ start \in 1 .. Len(after) /\ after[start] \in Cells \ {SP}
             /\ \A i \in 1 .. start - 1 : after[i] \notin Cells \ {SP}
      BY <3>3, PositionFacts
    <3> HIDE DEF start
    <3>8. CASE Len(after) < 2
      <4>1. \A i \in 1 .. Len(after) : i = 1 /\ after[i] = SP
        BY <2>1, <3>5, <3>6, <3>8
      <4>2. start = 0
        BY <3>7, <4>1
      <4>3. ~ (Len(s) <= n)
        BY <1>1, <1>2, <2>1, <3>5, <3>8
      <4> QED
        BY <1>3, <3>4, <4>2, <4>3
    <3>9. CASE Len(after) >= 2
      <4>1. after[1] = SP /\ 1 \in 1 .. Len(after) /\ 2 \in 1 .. Len(after)
        BY <2>1, <3>5, <3>6, <3>9
      <4>2. after[2] = s[k + 2]
        BY <3>6, <4>1
      <4>3. after[2] \in Cells \ {SP}
        <5>1. CASE v = << >>
          <6>1. k + Len(v) + 2 = k + 2
            BY <2>1, <5>1
          <6> QED
            BY <2>1, <4>2, <6>1, HttpHeadAssumption
        <5>2. CASE v # << >>
          <6>1. v[1] # SP /\ v[1] \in Cells /\ 1 \in 1 .. Len(v)
            BY <1>6, <5>2 DEF HostText
          <6>2. s[k + 1 + 1] = v[1] /\ k + 1 + 1 = k + 2
            BY <2>1, <6>1
          <6> QED
            BY <4>2, <6>1, <6>2
        <5> QED
          BY <5>1, <5>2
      <4>4. start = 2
        <5>1. /\ start \in 1 .. Len(after) /\ after[start] \in Cells \ {SP}
              /\ \A i \in 1 .. start - 1 : after[i] \notin Cells \ {SP}
          BY <3>7, <4>1, <4>3
        <5>2. start # 1
          BY <4>1, <5>1
        <5>3. ~ (2 < start)
          BY <4>3, <5>1
        <5> QED
          BY <5>1, <5>2, <5>3
      <4> DEFINE w == Suffix(after, 2)
      <4>5. /\ w \in Seq(Cells)
            /\ Len(w) = IF 2 <= Len(after) THEN Len(after) - 2 + 1 ELSE 0
            /\ \A i \in 1 .. Len(w) : w[i] = after[i + 2 - 1]
        BY <3>3, SuffixFacts
      <4>6. parse_host(q) = Before(Text(Before(w, {EOL})), {COLON})
        BY <3>4, <4>4
      <4> HIDE DEF w
      <4>7. Len(w) \in Nat /\ Len(w) = Len(q) - k - 1
        BY <1>2, <2>1, <3>5, <3>9, <4>5
      <4>8. ASSUME NEW i \in 1 .. Len(w) PROVE w[i] = s[k + 1 + i]
        <5>1. /\ i + 2 - 1 = i + 1 /\ i + 1 \in 1 .. Len(after)
              /\ k + (i + 1) = k + 1 + i
          BY <2>1, <3>5, <4>7, <1>2
        <5> QED
          BY <3>6, <4>5, <5>1
      <4>9. BeginsWith(w, v, {EOL})
        <5>1. ASSUME NEW i \in 1 .. Len(v), i <= Len(w) PROVE w[i] = v[i]
          <6>1. i \in 1 .. Len(w)
            BY <2>1, <4>7, <5>1
          <6>2. w[i] = s[k + 1 + i]
            BY <4>8, <6>1
          <6> QED
            BY <2>1, <6>2
        <5>2. Len(v) < Len(w) => w[Len(v) + 1] = EOL
          <6>1. k + 1 + (Len(v) + 1) = k + Len(v) + 2
            BY <2>1
          <6>2. Len(v) < Len(w) => Len(v) + 1 \in 1 .. Len(w)
            BY <2>1, <4>7
          <6>3. Len(v) < Len(w) => w[Len(v) + 1] = s[k + Len(v) + 2]
            BY <4>8, <6>1, <6>2
          <6> QED
            BY <2>1, <6>3
        <5> QED
          BY <5>1, <5>2 DEF BeginsWith
      <4>10. \A i \in 1 .. Len(v) : v[i] \notin {EOL}
        BY <1>6 DEF HostText, Range
      <4>11. Before(w, {EOL}) = Prefix(v, Len(w))
        BY <4>5, <4>9, <4>10, CutWord
      <4>12. /\ IsPrefix(Before(Prefix(v, Len(w)), {COLON}), Before(v, {COLON}))
             /\ Len(w) >= Len(v) => Prefix(v, Len(w)) = v
        BY <4>7, CutBefore, PrefixIsPrefix
      <4>13. IsPrefix(parse_host(q), HostName(v))
        <5>1. CASE Text(Prefix(v, Len(w))) = Prefix(v, Len(w))
          BY <4>6, <4>11, <4>12, <5>1 DEF HostName
        <5>2. CASE Text(Prefix(v, Len(w))) = << >>
          <6>1. Before(<< >>, {COLON}) = << >>
            BY NothingBefore
          <6> QED
            BY <1>3, <4>6, <4>11, <5>2, <6>1
        <5> QED
          BY <5>1, <5>2 DEF Text
      <4>14. ASSUME Len(s) <= n PROVE parse_host(q) = HostName(Text(v))
        <5>1. Len(q) = Len(s)
          BY <1>1, <1>2, <4>14
        <5>2. Len(w) >= Len(v)
          BY <2>1, <4>7, <5>1
        <5> QED
          BY <4>6, <4>11, <4>12, <5>2 DEF HostName
      <4> QED
        BY <4>13, <4>14
    <3> QED
      BY <3>5, <3>8, <3>9
  <2> QED
    BY <1>2, <2>1, <2>2, <2>3
<1> QED
  BY <1>5, <1>6 DEF HoldsHost, q

-----------------------------------------------------------------------------
(* What Core is told, from the wire on                                     *)

\* Event e is what the kernel kept of the packet in `cap` with its timestamp.
FromWire(cap, e) ==
    /\ e.timestamp_ns \in 1 .. Len(cap)
    /\ e.payload = Captured(cap[e.timestamp_ns].packet.payload)

\* Core was told what the parser reads in such an event.
TrueReport(cap, n) ==
    \E e \in PerfEvent : FromWire(cap, e) /\ Reportable(e) /\ n = Parsed(e)

WireIn(cap, q) == \A i \in 1 .. Len(q) : FromWire(cap, q[i])

\* Nothing is altered on the way, and only calls for reportable events are made.
Unaltered ==
    /\ \A c \in Cpus : WireIn(captured, buffer[c]) /\ WireIn(captured, batch[c])
    /\ \A c \in Cpus : rpc[c] # "none" => Reportable(batch[c][1])
    /\ \A i \in 1 .. Len(received) : TrueReport(captured, received[i])

\* A captured packet stays as it is when another one is captured.
LEMMA WireGrows ==
    ASSUME NEW S, NEW cap \in Seq(S), NEW x \in S
    PROVE  /\ \A e : FromWire(cap, e) => FromWire(Append(cap, x), e)
           /\ \A q : WireIn(cap, q) => WireIn(Append(cap, x), q)
           /\ \A n : TrueReport(cap, n) => TrueReport(Append(cap, x), n)
<1>1. /\ Len(cap) \in Nat /\ Len(Append(cap, x)) = Len(cap) + 1
      /\ \A i \in 1 .. Len(cap) : Append(cap, x)[i] = cap[i]
  BY AppendProperties
<1>2. \A i \in 1 .. Len(cap) : i \in 1 .. Len(cap) + 1
  BY <1>1
<1>3. ASSUME NEW e, FromWire(cap, e) PROVE FromWire(Append(cap, x), e)
  BY <1>1, <1>2, <1>3 DEF FromWire
<1>4. ASSUME NEW q, WireIn(cap, q) PROVE WireIn(Append(cap, x), q)
  BY <1>3, <1>4 DEF WireIn
<1>5. ASSUME NEW n, TrueReport(cap, n) PROVE TrueReport(Append(cap, x), n)
  BY <1>3, <1>5 DEF TrueReport
<1> QED
  BY <1>3, <1>4, <1>5

\* The filter puts what it keeps of the packet behind what waits.
LEMMA FilterUnaltered ==
    ASSUME TypeOK, Unaltered, NEW c \in Cpus, NEW p \in Packets, HttpFilter(c, p)
    PROVE  Unaltered'
<1> DEFINE now == Len(captured) + 1
           event == [timestamp_ns |-> now, payload |-> Captured(p.payload)]
           x == [cpu |-> c, packet |-> p]
<1>1. /\ captured \in Seq([cpu: Cpus, packet: Packets]) /\ x \in [cpu: Cpus, packet: Packets]
      /\ captured' = Append(captured, x)
      /\ buffer \in [Cpus -> Seq(PerfEvent)]
  BY DEF TypeOK, HttpFilter
<1>2. FromWire(captured', event)
  <2>1. Len(captured') = now /\ captured'[now] = x /\ now \in 1 .. now
    BY <1>1
  <2> QED
    BY <2>1 DEF FromWire
<1>3. \A d \in Cpus : WireIn(captured', buffer[d]) /\ WireIn(captured', batch[d])
  <2> HIDE DEF x
  <2> QED
    BY <1>1, WireGrows DEF Unaltered
<1>4. \A i \in 1 .. Len(received) : TrueReport(captured', received[i])
  <2> HIDE DEF x
  <2> QED
    BY <1>1, WireGrows DEF Unaltered
<1>5. \A d \in Cpus : WireIn(captured', buffer'[d])
  <2>1. CASE Len(buffer[c]) >= BufferSize
    BY <1>3, <2>1 DEF HttpFilter
  <2>2. CASE ~ (Len(buffer[c]) >= BufferSize)
    <3>1. buffer' = [buffer EXCEPT ![c] = Append(buffer[c], event)]
      BY <2>2 DEF HttpFilter
    <3> HIDE DEF event
    <3>2. /\ Len(buffer[c]) \in Nat
          /\ Len(Append(buffer[c], event)) = Len(buffer[c]) + 1
          /\ \A i \in 1 .. Len(buffer[c]) : Append(buffer[c], event)[i] = buffer[c][i]
          /\ Append(buffer[c], event)[Len(buffer[c]) + 1] = event
      BY <1>1
    <3>3. \A i \in 1 .. Len(buffer[c]) + 1 :
             i \in 1 .. Len(buffer[c]) \/ i = Len(buffer[c]) + 1
      BY <3>2
    <3>4. WireIn(captured', Append(buffer[c], event))
      BY <1>2, <1>3, <3>2, <3>3 DEF WireIn
    <3> QED
      BY <1>1, <1>3, <3>1, <3>4
  <2> QED
    BY <2>1, <2>2
<1>6. batch' = batch /\ rpc' = rpc /\ received' = received
  BY DEF HttpFilter
<1> QED
  BY <1>3, <1>4, <1>5, <1>6 DEF Unaltered

\* A batch is a part of the buffer.
LEMMA ReadUnaltered ==
    ASSUME TypeOK, Unaltered, NEW c \in Cpus, ReadEvents(c)
    PROVE  Unaltered'
<1> DEFINE P == Prefix(buffer[c], BatchSize)
           Q == Suffix(buffer[c], BatchSize + 1)
<1>1. /\ buffer \in [Cpus -> Seq(PerfEvent)] /\ batch \in [Cpus -> Seq(PerfEvent)]
      /\ buffer[c] \in Seq(PerfEvent) /\ Len(buffer[c]) \in Nat
      /\ BatchSize \in Nat /\ BatchSize + 1 \in Nat \ {0}
  BY CaptureAssumption DEF TypeOK
<1>2. batch' = [batch EXCEPT ![c] = P] /\ buffer' = [buffer EXCEPT ![c] = Q]
  BY ReadTypes
<1>3. /\ Len(P) = IF Len(buffer[c]) < BatchSize THEN Len(buffer[c]) ELSE BatchSize
      /\ \A i \in 1 .. Len(P) : P[i] = buffer[c][i]
  BY <1>1, PrefixFacts
<1>4. /\ Len(Q) = IF BatchSize + 1 <= Len(buffer[c])
                     THEN Len(buffer[c]) - (BatchSize + 1) + 1 ELSE 0
      /\ \A i \in 1 .. Len(Q) : Q[i] = buffer[c][i + (BatchSize + 1) - 1]
  BY <1>1, SuffixFacts
<1> HIDE DEF P, Q
<1>5. /\ \A i \in 1 .. Len(P) : i \in 1 .. Len(buffer[c])
      /\ \A i \in 1 .. Len(Q) : i + (BatchSize + 1) - 1 \in 1 .. Len(buffer[c])
  BY <1>1, <1>3, <1>4
<1>6. WireIn(captured, P) /\ WireIn(captured, Q)
  BY <1>3, <1>4, <1>5 DEF Unaltered, WireIn
<1>7. \A d \in Cpus : WireIn(captured, buffer'[d]) /\ WireIn(captured, batch'[d])
  BY <1>1, <1>2, <1>6 DEF Unaltered
<1>8. rpc[c] = "none" /\ \A d \in Cpus \ {c} : batch'[d] = batch[d]
  BY <1>1, <1>2 DEF TypeOK, ReadEvents
<1>9. captured' = captured /\ rpc' = rpc /\ received' = received
  BY DEF ReadEvents
<1> QED
  BY <1>7, <1>8, <1>9 DEF Unaltered

\* Being done with an event leaves the others.
LEMMA DoneUnaltered ==
    ASSUME TypeOK, Unaltered, NEW c \in Cpus, Done(c)
    PROVE  Unaltered'
<1>1. /\ batch \in [Cpus -> Seq(PerfEvent)] /\ rpc \in [Cpus -> {"none", "sent", "accepted"}]
      /\ batch[c] \in Seq(PerfEvent) /\ batch[c] # << >>
      /\ batch' = [batch EXCEPT ![c] = Tail(batch[c])]
      /\ rpc' = [rpc EXCEPT ![c] = "none"]
      /\ captured' = captured /\ buffer' = buffer /\ received' = received
  BY DoneFacts DEF TypeOK
<1>2. /\ Len(batch[c]) \in Nat \ {0} /\ Len(Tail(batch[c])) = Len(batch[c]) - 1
      /\ \A i \in 1 .. Len(Tail(batch[c])) : Tail(batch[c])[i] = batch[c][i + 1]
  BY <1>1
<1>3. \A i \in 1 .. Len(Tail(batch[c])) : i + 1 \in 1 .. Len(batch[c])
  BY <1>2
<1>4. WireIn(captured, Tail(batch[c]))
  BY <1>2, <1>3 DEF Unaltered, WireIn
<1>5. \A d \in Cpus : WireIn(captured, batch'[d])
  BY <1>1, <1>4 DEF Unaltered
<1>6. \A d \in Cpus : rpc'[d] # "none" => Reportable(batch'[d][1])
  BY <1>1 DEF Unaltered
<1> QED
  BY <1>1, <1>5, <1>6 DEF Unaltered

\* Only a reportable event is sent.
LEMMA SendUnaltered ==
    ASSUME TypeOK, Unaltered, NEW c \in Cpus, SendEvent(c)
    PROVE  Unaltered'
<1>1. /\ batch[c] \in Seq(PerfEvent) /\ batch[c] # << >> /\ Reportable(Head(batch[c]))
      /\ rpc' = [rpc EXCEPT ![c] = "sent"]
      /\ captured' = captured /\ buffer' = buffer /\ batch' = batch /\ received' = received
  BY DEF TypeOK, SendEvent
<1>2. Head(batch[c]) = batch[c][1]
  BY <1>1
<1>3. \A d \in Cpus : rpc'[d] # "none" => Reportable(batch'[d][1])
  BY <1>1, <1>2 DEF Unaltered, TypeOK
<1> QED
  BY <1>1, <1>3 DEF Unaltered

\* Core receives the report of the event that was sent.
LEMMA AcceptUnaltered ==
    ASSUME TypeOK, Unaltered, NEW c \in Cpus, CoreAccepts(c)
    PROVE  Unaltered'
<1> DEFINE e == batch[c][1]
           n == Parsed(e)
<1>1. /\ batch[c] \in Seq(PerfEvent) /\ batch[c] # << >> /\ Head(batch[c]) = e
      /\ n \in NetworkEvent
  BY AcceptTypes
<1>2. /\ received \in Seq(NetworkEvent) /\ received' = Append(received, n)
      /\ rpc[c] = "sent" /\ rpc \in [Cpus -> {"none", "sent", "accepted"}]
      /\ rpc' = [rpc EXCEPT ![c] = "accepted"]
      /\ captured' = captured /\ buffer' = buffer /\ batch' = batch
  BY <1>1 DEF TypeOK, CoreAccepts
<1>3. e \in PerfEvent /\ FromWire(captured, e) /\ Reportable(e)
  <2>1. 1 \in 1 .. Len(batch[c]) /\ e \in PerfEvent
    BY <1>1
  <2> QED
    BY <1>2, <2>1 DEF Unaltered, WireIn
<1>4. TrueReport(captured, n)
  BY <1>3 DEF TrueReport
<1> HIDE DEF n, e
<1>5. /\ Len(received) \in Nat /\ Len(received') = Len(received) + 1
      /\ \A i \in 1 .. Len(received) : received'[i] = received[i]
      /\ received'[Len(received) + 1] = n
  BY <1>1, <1>2
<1>6. \A i \in 1 .. Len(received) + 1 : i \in 1 .. Len(received) \/ i = Len(received) + 1
  BY <1>5
<1>7. \A i \in 1 .. Len(received') : TrueReport(captured, received'[i])
  BY <1>4, <1>5, <1>6 DEF Unaltered
<1>8. \A d \in Cpus : rpc'[d] # "none" => Reportable(batch'[d][1])
  BY <1>2, <1>3 DEF Unaltered, e
<1> QED
  BY <1>2, <1>7, <1>8 DEF Unaltered

\* A new process has nothing to alter.
LEMMA RestartUnaltered == TypeOK /\ Unaltered /\ LoaderRestart => Unaltered'
<1> SUFFICES ASSUME TypeOK, Unaltered, LoaderRestart PROVE Unaltered'
  OBVIOUS
<1>1. /\ \A c \in Cpus : Len(buffer'[c]) = 0 /\ Len(batch'[c]) = 0 /\ rpc'[c] = "none"
      /\ captured' = captured /\ received' = received
  BY DEF LoaderRestart
<1> QED
  BY <1>1 DEF Unaltered, WireIn

\* Every step keeps it.
LEMMA NextUnaltered == TypeOK /\ Unaltered /\ [Next]_vars => Unaltered'
<1> SUFFICES ASSUME TypeOK, Unaltered, [Next]_vars PROVE Unaltered'
  OBVIOUS
<1>1. CASE UNCHANGED vars
  BY <1>1 DEF Unaltered, WireIn, FromWire, TrueReport, vars
<1>2. CASE Next
  BY <1>2, Steps, FilterUnaltered, ReadUnaltered, DoneUnaltered, SendUnaltered,
     AcceptUnaltered, RestartUnaltered
<1> QED
  BY <1>1, <1>2

\* At first there is nothing.
LEMMA InitUnaltered == Init => Unaltered
<1> SUFFICES ASSUME Init PROVE Unaltered
  OBVIOUS
<1>1. /\ Len(received) = 0
      /\ \A c \in Cpus : Len(buffer[c]) = 0 /\ Len(batch[c]) = 0 /\ rpc[c] = "none"
  BY DEF Init
<1> QED
  BY <1>1 DEF Unaltered, WireIn

\* What is left of a segment after both copies, when the loader looks at it.
LEMMA KeptOfSegment ==
    ASSUME NEW s \in Seq(Cells), KernelPayload >= UserPayload
    PROVE  payload_bytes(Captured(s)) = Prefix(s, UserPayload)
<1> DEFINE c == Captured(s)
           q == payload_bytes(c)
           u == Prefix(s, UserPayload)
<1>1. KernelPayload \in Nat /\ UserPayload \in Nat /\ Len(s) \in Nat
  BY HttpHeadAssumption
<1>2. /\ c \in Seq(Cells) /\ Len(c) = IF Len(s) < KernelPayload THEN Len(s) ELSE KernelPayload
      /\ \A i \in 1 .. Len(c) : c[i] = s[i]
  BY <1>1, PrefixFacts DEF Captured
<1>3. /\ u \in Seq(Cells) /\ Len(u) = IF Len(s) < UserPayload THEN Len(s) ELSE UserPayload
      /\ \A i \in 1 .. Len(u) : u[i] = s[i]
  BY <1>1, PrefixFacts
<1> HIDE DEF c, u
<1>4. /\ q \in Seq(Cells) /\ Len(q) = IF Len(c) < UserPayload THEN Len(c) ELSE UserPayload
      /\ \A i \in 1 .. Len(q) : q[i] = c[i]
  BY <1>1, <1>2, PrefixFacts DEF payload_bytes
<1> HIDE DEF q
<1>5. Len(q) = Len(u) /\ \A i \in 1 .. Len(u) : i \in 1 .. Len(c)
  BY <1>1, <1>2, <1>3, <1>4
<1>6. \A i \in 1 .. Len(u) : q[i] = u[i]
  BY <1>2, <1>3, <1>4, <1>5
<1>7. q = u
  BY <1>3, <1>4, <1>5, <1>6, SeqEqual
<1> QED
  BY <1>7 DEF q, u, c

\* The report of an unaltered event is true to the request it was sent for.
LEMMA ReportOfRequest ==
    ASSUME NEW r \in RequestType, NEW ev, Reportable(ev),
           ev.payload = Captured(RenderRequest(r))
    PROVE  /\ Parsed(ev).method = r.method
           /\ IsPrefix(Parsed(ev).path, r.path)
           /\ Len(RenderRequest(r)) <= UserPayload => Parsed(ev).path = Text(r.path)
           /\ HostFirst(r) =>
                 /\ IsPrefix(Parsed(ev).host, HostName(HostValue(r)))
                 /\ Len(RenderRequest(r)) <= UserPayload =>
                       Parsed(ev).host = HostName(Text(HostValue(r)))
<1> DEFINE s == RenderRequest(r)
           v == HostValue(r)
<1>1. /\ s \in Seq(Cells) /\ IsRequest(s, r) /\ v \in Seq(Cells)
      /\ HostFirst(r) => HoldsHost(s, v)
  BY RequestShape, HeadersShape
<1>2. UserPayload \in Nat
  BY HttpHeadAssumption
<1>3. ev.payload = Captured(s)
  OBVIOUS
<1> HIDE DEF s, v
<1>4. payload_bytes(ev.payload) = Prefix(s, UserPayload)
  BY <1>1, <1>3, KeptOfSegment DEF Reportable
<1>5. /\ Parsed(ev).method = parse_method(Prefix(s, UserPayload))
      /\ Parsed(ev).path = parse_path(Prefix(s, UserPayload))
      /\ Parsed(ev).host = parse_host(Prefix(s, UserPayload))
  BY <1>4 DEF Parsed
<1>6. parse_method(Prefix(s, UserPayload)) # << >>
  BY <1>4 DEF Reportable
<1>7. parse_method(Prefix(s, UserPayload)) = r.method
  BY <1>1, <1>2, <1>6, MethodParsed
<1>8. /\ IsPrefix(parse_path(Prefix(s, UserPayload)), r.path)
      /\ Len(s) <= UserPayload => parse_path(Prefix(s, UserPayload)) = Text(r.path)
  BY <1>1, <1>2, <1>6, PathParsed
<1>9. ASSUME HostFirst(r)
      PROVE  /\ IsPrefix(parse_host(Prefix(s, UserPayload)), HostName(v))
             /\ Len(s) <= UserPayload => parse_host(Prefix(s, UserPayload)) = HostName(Text(v))
  BY <1>1, <1>2, <1>9, HostParsed
<1> QED
  BY <1>5, <1>7, <1>8, <1>9 DEF s, v

\* What Core has accepted is true.
LEMMA UnalteredIsFaithful == TypeOK /\ Unaltered => ReportFaithful
<1> SUFFICES ASSUME TypeOK, Unaltered, NEW n \in Range(received), NEW r \in Requests, Sent(r, n)
             PROVE  /\ n.method = r.method
                    /\ IsPrefix(n.path, r.path)
                    /\ Len(RenderRequest(r)) <= UserPayload => n.path = Text(r.path)
                    /\ HostFirst(r) =>
                          /\ IsPrefix(n.host, HostName(HostValue(r)))
                          /\ Len(RenderRequest(r)) <= UserPayload =>
                                n.host = HostName(Text(HostValue(r)))
  BY DEF ReportFaithful
<1>1. received \in Seq(NetworkEvent)
  BY DEF TypeOK
<1>2. PICK i \in 1 .. Len(received) : n = received[i]
  BY <1>1 DEF Range
<1>3. PICK ev \in PerfEvent : FromWire(captured, ev) /\ Reportable(ev) /\ n = Parsed(ev)
  BY <1>2 DEF Unaltered, TrueReport
<1>4. n.timestamp_ns = ev.timestamp_ns
  BY <1>3, ParsedType
<1>5. ev.payload = Captured(RenderRequest(r))
  BY <1>3, <1>4 DEF FromWire, Sent
<1>6. r \in RequestType
  BY CaptureAssumption
<1> QED
  BY <1>3, <1>5, <1>6, ReportOfRequest

\* What Core is told of a request is what the client sent, through two copies
\* that may cut it anywhere: the method whole, the path and the host as far as
\* they were kept and never mixed up, and exactly when the whole head was kept.
\* Nothing is said of the host of a request that says "Host:" before its Host
\* header: of those the code reports something else.
THEOREM ReportsTrue == Spec => []ReportFaithful
<1>1. Init => TypeOK /\ Unaltered
  BY InitTypes, InitUnaltered
<1>2. TypeOK /\ Unaltered /\ [Next]_vars => (TypeOK /\ Unaltered)'
  BY NextTypes, NextUnaltered
<1> QED
  BY <1>1, <1>2, UnalteredIsFaithful, PTL DEF Spec

=============================================================================
