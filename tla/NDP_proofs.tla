----------------------------- MODULE NDP_proofs -----------------------------
(***************************************************************************)
(* What each method of the DMA engine keeps of the engine's promises, for  *)
(* every limit maxReqs and every burst: which promises it takes over and   *)
(* which it restores.  `late' is 1 while memCallback has not yet counted   *)
(* its packet out.                                                         *)
(***************************************************************************)
EXTENDS NDP, SequenceTheorems, WellFoundedInduction, TLAPS

(* An engine between two methods. *)
Sound(e, late) ==
    e \in Engines /\ CountedIn(e, late) /\ OneSender(e) /\ WillWake(e)

(* An engine in which sendData is about to run, and nothing else will. *)
Called(e, late) ==
    /\ e \in Engines /\ CountedIn(e, late)
    /\ e.dmaActv /\ e.events = 0 /\ ~e.retry /\ e.packets # <<>>

(* What taking the first element off a list leaves. *)
LEMMA FirstOff ==
    ASSUME NEW S, NEW s \in Seq(S), s # <<>>
    PROVE  /\ Head(s) \in S /\ Tail(s) \in Seq(S)
           /\ Len(s) > 1 <=> Tail(s) # <<>>
<1>1. Len(s) \in Nat /\ Len(s) # 0
  BY EmptySeq
<1>2. Head(s) \in S /\ Tail(s) \in Seq(S) /\ Len(Tail(s)) = Len(s) - 1
  BY <1>1, HeadTailProperties
<1>3. Tail(s) = <<>> <=> Len(Tail(s)) = 0
  BY <1>2, EmptySeq
<1> QED  BY <1>1, <1>2, <1>3

(* What taking an element out of a list leaves. *)
LEMMA OneOff ==
    ASSUME NEW S, NEW s \in Seq(S), NEW i \in 1 .. Len(s)
    PROVE  RemoveAt(s, i) \in Seq(S) /\ Len(RemoveAt(s, i)) = Len(s) - 1
<1> DEFINE l == SubSeq(s, 1, i - 1)
           r == SubSeq(s, i + 1, Len(s))
<1>1. Len(s) \in Nat /\ i \in Nat
  OBVIOUS
<1>2. l \in Seq(S) /\ Len(l) = i - 1
  BY <1>1, SubSeqProperties
<1>3. r \in Seq(S) /\ Len(r) = Len(s) - i
  BY <1>1, SubSeqProperties
<1> HIDE DEF l, r
<1>4. l \o r \in Seq(S) /\ Len(l \o r) = Len(l) + Len(r)
  BY <1>2, <1>3, ConcatProperties
<1>5. RemoveAt(s, i) = l \o r
  BY DEF RemoveAt, l, r
<1>6. Len(l) + Len(r) = Len(s) - 1
  BY <1>1, <1>2, <1>3
<1> QED  BY <1>4, <1>5, <1>6

(* A function on 1 .. n is a list of length n. *)
LEMMA ListOf ==
    ASSUME NEW S, NEW n \in Nat, NEW f \in [1 .. n -> S]
    PROVE  f \in Seq(S) /\ Len(f) = n
OBVIOUS

(***************************************************************************)
(* sendData, called once with a packet to send, leaves a sound engine,     *)
(* whether the engine is full, or the port accepts or refuses the packet.  *)
(***************************************************************************)
LEMMA SendDataSound ==
    ASSUME NEW e, NEW late \in {0, 1}, Called(e, late),
           NEW f \in sendData(e)
    PROVE  Sound(f, late)
<1> USE MaxReqsAssumption
<1>1. CASE e.flyReqs = MaxReqs
  <2>1. f = [e EXCEPT !.dmaActv = FALSE]
    BY <1>1 DEF sendData
  <2> QED
    BY <1>1, <2>1 DEF Called, Sound, Engines, CountedIn, OneSender, WillWake
<1>2. CASE e.flyReqs # MaxReqs /\ f = Refused(e)
  BY <1>2 DEF Called, Sound, Engines, CountedIn, OneSender, WillWake, Refused
<1>3. CASE e.flyReqs # MaxReqs /\ f = Sent(e)
  <2>1. /\ e \in Engines
        /\ e.packets \in Seq(Packets) /\ e.packets # <<>>
        /\ e.mem \in Seq(Packets) /\ Len(e.mem) \in Nat
    BY DEF Called, Engines
  <2>2. /\ Head(e.packets) \in Packets
        /\ Tail(e.packets) \in Seq(Packets)
        /\ Len(e.packets) > 1 <=> Tail(e.packets) # <<>>
    BY <2>1, FirstOff
  <2>3. /\ Len(Append(e.mem, Head(e.packets))) = Len(e.mem) + 1
        /\ Append(e.mem, Head(e.packets)) \in Seq(Packets)
    BY <2>1, <2>2
  <2>4. e.dmaActv = TRUE /\ e.events = 0 /\ e.flyReqs \in Nat
    BY DEF Called, Engines
  <2> DEFINE mem == Append(e.mem, Head(e.packets))
             packets == Tail(e.packets)
             fly == e.flyReqs + 1
  <2>5. mem \in Seq(Packets) /\ packets \in Seq(Packets) /\ fly \in Nat
    BY <2>2, <2>3, <2>4
  <2>6. CASE Len(e.packets) > 1
    <3>1. f = [e EXCEPT !.flyReqs = fly, !.mem = mem, !.packets = packets,
                        !.events = 1, !.dmaActv = TRUE]
      <4>1. f = [e EXCEPT !.flyReqs = fly, !.mem = mem, !.packets = packets,
                          !.events = e.events + 1, !.dmaActv = e.dmaActv]
        BY <1>3, <2>6 DEF Sent
      <4>2. e.events + 1 = 1
        BY <2>4
      <4> QED  BY <2>4, <4>1, <4>2, Zenon
    <3> HIDE DEF mem, packets, fly
    <3>2. /\ f \in Engines
          /\ f.flyReqs = fly /\ f.mem = mem /\ f.packets = packets
          /\ f.events = 1 /\ f.dmaActv = TRUE /\ f.retry = e.retry
      BY <2>1, <2>5, <3>1 DEF Engines
    <3>3. CountedIn(f, late)
      BY <1>3, <2>1, <2>3, <2>4, <3>2 DEF Called, CountedIn, mem, fly
    <3>4. OneSender(f) /\ WillWake(f)
      BY <2>2, <2>6, <3>2 DEF Called, OneSender, WillWake, packets
    <3> QED  BY <3>2, <3>3, <3>4 DEF Sound
  <2>7. CASE ~(Len(e.packets) > 1)
    <3>1. f = [e EXCEPT !.flyReqs = fly, !.mem = mem, !.packets = packets,
                        !.events = 0, !.dmaActv = FALSE]
      BY <1>3, <2>4, <2>7 DEF Sent
    <3> HIDE DEF mem, packets, fly
    <3>2. /\ f \in Engines
          /\ f.flyReqs = fly /\ f.mem = mem /\ f.packets = packets
          /\ f.events = 0 /\ f.dmaActv = FALSE /\ f.retry = e.retry
      BY <2>1, <2>5, <3>1 DEF Engines
    <3>3. CountedIn(f, late)
      BY <1>3, <2>1, <2>3, <2>4, <3>2 DEF Called, CountedIn, mem, fly
    <3>4. OneSender(f) /\ WillWake(f)
      BY <2>2, <2>7, <3>2 DEF Called, OneSender, WillWake, packets
    <3> QED  BY <3>2, <3>3, <3>4 DEF Sound
  <2> QED  BY <2>6, <2>7
<1> QED  BY <1>1, <1>2, <1>3 DEF sendData

(* The event and the retry each use up the one call that was announced. *)
LEMMA EventSound ==
    ASSUME NEW e, Sound(e, 0), e.events > 0, NEW f \in SendEvent(e)
    PROVE  Sound(f, 0)
<1>1. Called([e EXCEPT !.events = @ - 1], 0)
  BY DEF Sound, Called, Engines, CountedIn, OneSender
<1> QED  BY <1>1, SendDataSound DEF SendEvent

LEMMA RetrySound ==
    ASSUME NEW e, Sound(e, 0), e.retry, NEW f \in recvReqRetry(e)
    PROVE  Sound(f, 0)
<1>1. Called([e EXCEPT !.retry = FALSE], 0)
  BY DEF Sound, Called, Engines, CountedIn, OneSender
<1> QED  BY <1>1, SendDataSound DEF recvReqRetry

(* What accessMemory takes: the chunks of a burst, which is not empty. *)
IsBurst(c) == /\ DOMAIN c = 1 .. Len(c) /\ Len(c) \in Nat \ {0}
              /\ \A i \in DOMAIN c : c[i] \in Addrs

(* accessMemory of a burst, also from within memCallback. *)
LEMMA AccessSound ==
    ASSUME NEW e, NEW late \in {0, 1}, Sound(e, late),
           NEW write \in BOOLEAN, NEW c, IsBurst(c),
           NEW f \in accessMemory(e, write, c)
    PROVE  /\ Sound(f, late)
           /\ Len(f.requests) = Len(e.requests) + 1
<1> DEFINE q == Queued(e, write, c)
           new == [i \in DOMAIN c |-> [write |-> write, addr |-> c[i]]]
           req == [write |-> write, pending |-> Range(c)]
<1>1. /\ DOMAIN c = 1 .. Len(c) /\ Len(c) \in Nat \ {0}
      /\ \A i \in DOMAIN c : c[i] \in Addrs
  BY DEF IsBurst
<1>2. new \in Seq(Packets) /\ Len(new) \in Nat \ {0}
  BY <1>1 DEF Packets
<1>3. req \in BurstRequests
  <2>1. Range(c) \in SUBSET Addrs
    BY <1>1 DEF Range
  <2> QED  BY <2>1 DEF BurstRequests
<1>4. q = [e EXCEPT !.packets = e.packets \o new,
                    !.requests = Append(e.requests, req)]
  BY DEF Queued
<1> HIDE DEF new, req, q
<1>5. /\ e \in Engines /\ e.packets \in Seq(Packets)
      /\ e.requests \in Seq(BurstRequests)
  BY DEF Sound, Engines
<1>6. /\ e.packets \o new \in Seq(Packets) /\ e.packets \o new # <<>>
      /\ Append(e.requests, req) \in Seq(BurstRequests)
      /\ Len(Append(e.requests, req)) = Len(e.requests) + 1
  BY <1>2, <1>3, <1>5
<1>7. /\ q \in Engines /\ q.packets = e.packets \o new
      /\ q.requests = Append(e.requests, req)
      /\ q.dmaActv = e.dmaActv /\ q.flyReqs = e.flyReqs /\ q.mem = e.mem
      /\ q.events = e.events /\ q.retry = e.retry
  BY <1>4, <1>5, <1>6 DEF Engines
<1>8. CountedIn(q, late) /\ q.packets # <<>>
  BY <1>6, <1>7 DEF Sound, CountedIn
<1>9. CASE e.dmaActv
  <2>1. f = q
    BY <1>9 DEF accessMemory, q
  <2>2. OneSender(q) /\ WillWake(q)
    BY <1>7, <1>8, <1>9 DEF Sound, OneSender, WillWake
  <2> QED  BY <2>1, <2>2, <1>6, <1>7, <1>8 DEF Sound
<1>10. CASE ~e.dmaActv
  <2> DEFINE t == [q EXCEPT !.dmaActv = TRUE]
  <2>1. f \in sendData(t)
    BY <1>10 DEF accessMemory, Trigger, q
  <2>2. e.events = 0 /\ ~e.retry
    BY <1>10 DEF Sound, OneSender
  <2>3. Called(t, late) /\ t.requests = q.requests
    BY <1>7, <1>8, <2>2 DEF Called, Engines, CountedIn
  <2> HIDE DEF t
  <2>4. t \in Engines /\ f.requests = t.requests
    BY <2>1, <2>3 DEF Called, Engines, sendData, Sent, Refused
  <2> QED  BY <2>1, <2>3, <2>4, <1>6, <1>7, SendDataSound
<1> QED  BY <1>9, <1>10

(* The request that an answer completes is one of the list. *)
LEMMA CompletedInList ==
    ASSUME NEW e \in Engines, NEW pkt
    PROVE  Completed(e, pkt) \in 0 .. Len(e.requests)
<1> DEFINE S == Completing(e, pkt)
           n == Len(e.requests)
<1>1. e.requests \in Seq(BurstRequests)
  BY DEF Engines
<1>2. S \subseteq 1 .. n /\ n \in Nat
  BY <1>1 DEF Completing, Matching
<1>3. Completed(e, pkt) = IF S = {} THEN 0
                          ELSE CHOOSE r \in S : \A s \in S : r <= s
  BY DEF Completed
<1> HIDE DEF S, n
<1>4. CASE S = {}
  BY <1>2, <1>3, <1>4 DEF n
<1>5. CASE S # {}
  <2>1. S \subseteq Nat
    BY <1>2
  <2>2. PICK x \in S : \A y \in S : ~(<<y, x>> \in OpToRel(<, Nat))
    BY <1>5, <2>1, NatLessThanWellFounded, WFMin
  <2>3. \A y \in S : ~(y < x)
    <3>1. \A y \in Nat : y < x => <<y, x>> \in OpToRel(<, Nat)
      BY <2>1, Zenon DEF OpToRel
    <3> QED  BY <2>1, <2>2, <3>1
  <2>4. \A y \in S : x <= y
    BY <2>1, <2>3
  <2>5. \E r \in S : \A s \in S : r <= s
    BY <2>4
  <2>6. Completed(e, pkt) \in S
    BY <1>3, <1>5, <2>5, Zenon
  <2>7. \A k \in S : k \in 0 .. n
    BY <1>2
  <2>8. Completed(e, pkt) \in 0 .. n
    BY <2>6, <2>7, Zenon
  <2> QED  BY <2>8 DEF n
<1> QED  BY <1>4, <1>5

(* The loop of memCallback takes an answer whose packet is still counted. *)
LEMMA PoppedSound ==
    ASSUME NEW e, Sound(e, 0), NEW i \in DOMAIN e.mem
    PROVE  /\ Sound(Popped(e, i), 1)
           /\ Len(Popped(e, i).requests) = Len(e.requests)
<1> DEFINE hit == {r \in Matching(e, e.mem[i]) :
                     \/ Completed(e, e.mem[i]) = 0
                     \/ r <= Completed(e, e.mem[i])}
           left == [r \in DOMAIN e.requests |->
                     IF r \in hit
                     THEN e.requests[r].pending \ {e.mem[i].addr}
                     ELSE e.requests[r].pending]
           reqs == [r \in DOMAIN e.requests |->
                     [write |-> e.requests[r].write, pending |-> left[r]]]
           rest == RemoveAt(e.mem, i)
           p == Popped(e, i)
<1>1. /\ e \in Engines /\ e.mem \in Seq(Packets) /\ Len(e.mem) \in Nat
      /\ e.requests \in Seq(BurstRequests)
  BY DEF Sound, Engines
<1>2. rest \in Seq(Packets) /\ Len(rest) = Len(e.mem) - 1
  <2>1. i \in 1 .. Len(e.mem)
    BY <1>1
  <2> QED  BY <1>1, <2>1, OneOff
<1>3. reqs \in Seq(BurstRequests) /\ Len(reqs) = Len(e.requests)
  <2>1. ASSUME NEW r \in DOMAIN e.requests
        PROVE  [write |-> e.requests[r].write, pending |-> left[r]]
                    \in BurstRequests
    <3>1. e.requests[r] \in BurstRequests
      BY <1>1
    <3>2. e.requests[r].write \in BOOLEAN
          /\ e.requests[r].pending \subseteq Addrs
      BY <3>1 DEF BurstRequests
    <3> HIDE DEF hit
    <3>3. left[r] \subseteq Addrs
      BY <3>2
    <3> QED  BY <3>2, <3>3 DEF BurstRequests
  <2> HIDE DEF left
  <2>2. DOMAIN e.requests = 1 .. Len(e.requests) /\ Len(e.requests) \in Nat
    BY <1>1
  <2>3. reqs \in [1 .. Len(e.requests) -> BurstRequests]
    BY <2>1, <2>2
  <2> HIDE DEF reqs
  <2> QED  BY <2>2, <2>3, ListOf
<1>4. p = [e EXCEPT !.mem = rest, !.requests = reqs]
  BY DEF Popped
<1> HIDE DEF p, reqs, rest
<1>5. /\ p \in Engines /\ p.mem = rest /\ p.requests = reqs
      /\ p.packets = e.packets
      /\ p.dmaActv = e.dmaActv /\ p.flyReqs = e.flyReqs
      /\ p.events = e.events /\ p.retry = e.retry
  BY <1>1, <1>2, <1>3, <1>4 DEF Engines
<1>6. CountedIn(p, 1)
  BY <1>1, <1>2, <1>5 DEF Sound, CountedIn
<1>7. OneSender(p) /\ WillWake(p)
  BY <1>5 DEF Sound, OneSender, WillWake
<1> QED  BY <1>3, <1>5, <1>6, <1>7 DEF Sound, p

(* Taking a request off the list touches nothing the promises are about. *)
LEMMA DroppedSound ==
    ASSUME NEW e, NEW late \in {0, 1}, Sound(e, late),
           NEW r \in 0 .. Len(e.requests)
    PROVE  Sound(Dropped(e, r), late)
<1> DEFINE d == Dropped(e, r)
           reqs == IF r = 0 THEN e.requests ELSE RemoveAt(e.requests, r)
<1>1. e \in Engines /\ e.requests \in Seq(BurstRequests)
  BY DEF Sound, Engines
<1>2. reqs \in Seq(BurstRequests)
  BY <1>1 DEF RemoveAt
<1>3. d = [e EXCEPT !.requests = reqs]
  BY DEF Dropped
<1> HIDE DEF d, reqs
<1>4. /\ d \in Engines
      /\ d.mem = e.mem /\ d.packets = e.packets
      /\ d.dmaActv = e.dmaActv /\ d.flyReqs = e.flyReqs
      /\ d.events = e.events /\ d.retry = e.retry
  BY <1>1, <1>2, <1>3 DEF Engines
<1> QED  BY <1>4 DEF Sound, CountedIn, OneSender, WillWake, d

(* What counting a packet out leaves of the engine. *)
LEMMA CountedOut ==
    ASSUME NEW e \in Engines, e.flyReqs > 0,
           NEW out, out = [e EXCEPT !.flyReqs = @ - 1]
    PROVE  /\ out \in Engines /\ out.flyReqs = e.flyReqs - 1
           /\ out.mem = e.mem /\ out.packets = e.packets
           /\ out.requests = e.requests /\ out.dmaActv = e.dmaActv
           /\ out.events = e.events /\ out.retry = e.retry
<1>1. e.flyReqs - 1 \in Nat
  BY DEF Engines
<1> DEFINE fly == e.flyReqs - 1
<1>2. out = [e EXCEPT !.flyReqs = fly]
  OBVIOUS
<1>3. fly = e.flyReqs - 1 /\ fly \in Nat
  BY <1>1
<1> HIDE DEF fly
<1>4. out \in Engines
  BY <1>2, <1>3 DEF Engines
<1>5. out.flyReqs = fly
  BY <1>2 DEF Engines
<1>6. out.mem = e.mem /\ out.packets = e.packets /\ out.requests = e.requests
  BY <1>2 DEF Engines
<1>7. out.dmaActv = e.dmaActv /\ out.events = e.events /\ out.retry = e.retry
  BY <1>2 DEF Engines
<1> QED  BY <1>3, <1>4, <1>5, <1>6, <1>7

(* The end of memCallback counts the packet out and wakes the engine. *)
LEMMA FinishedSound ==
    ASSUME NEW e, Sound(e, 1), NEW f \in Finished(e)
    PROVE  Sound(f, 0)
<1> DEFINE out == [e EXCEPT !.flyReqs = @ - 1]
<1>1. /\ e \in Engines /\ Len(e.mem) \in Nat
      /\ e.flyReqs = Len(e.mem) + 1 /\ e.flyReqs <= MaxReqs
  BY DEF Sound, Engines, CountedIn
<1>2. /\ out \in Engines /\ out.flyReqs = e.flyReqs - 1
      /\ out.mem = e.mem /\ out.packets = e.packets
      /\ out.dmaActv = e.dmaActv /\ out.events = e.events
      /\ out.retry = e.retry
  BY <1>1, CountedOut
<1>3. f \in IF ~out.dmaActv /\ out.packets # <<>> THEN Trigger(out) ELSE {out}
  BY DEF Finished
<1> HIDE DEF out
<1>4. CountedIn(out, 0)
  BY <1>1, <1>2, MaxReqsAssumption DEF CountedIn
<1>5. OneSender(out)
  BY <1>2 DEF Sound, OneSender
<1>6. CASE ~out.dmaActv /\ out.packets # <<>>
  <2>1. Called([out EXCEPT !.dmaActv = TRUE], 0)
    BY <1>2, <1>4, <1>5, <1>6 DEF Called, Engines, CountedIn, OneSender
  <2> QED  BY <1>3, <1>6, <2>1, SendDataSound DEF Trigger
<1>7. CASE ~(~out.dmaActv /\ out.packets # <<>>)
  BY <1>2, <1>3, <1>4, <1>5, <1>7 DEF Sound, WillWake
<1> QED  BY <1>6, <1>7

-----------------------------------------------------------------------------
(***************************************************************************)
(* The engine under a device that asks for one burst at a time: each chunk *)
(* that the request waits for has one packet, and no packet is without its *)
(* chunk.  Again a lemma per method, on how it moves the packets.          *)
(***************************************************************************)

(* The chunks of a list of packets, each of them once. *)
ChunksOf(s) == {s[i].addr : i \in DOMAIN s}

NoRepeat(s) == \A i, j \in DOMAIN s : s[i].addr = s[j].addr => i = j

AllWrite(s, w) == \A i \in DOMAIN s : s[i].write = w

(* Engine e has a packet of kind w for each chunk of S, and no other. *)
Exact(e, w, S) ==
    /\ NoRepeat(e.packets) /\ NoRepeat(e.mem)
    /\ ChunksOf(e.packets) \cap ChunksOf(e.mem) = {}
    /\ ChunksOf(e.packets) \cup ChunksOf(e.mem) = S
    /\ AllWrite(e.packets, w) /\ AllWrite(e.mem, w)

-----------------------------------------------------------------------------
(* The front of a list taken off. *)
LEMMA TailChunks ==
    ASSUME NEW s \in Seq(Packets), s # <<>>, NoRepeat(s), NEW w, AllWrite(s, w)
    PROVE  /\ Head(s).addr \in ChunksOf(s) /\ Head(s).write = w
           /\ ChunksOf(Tail(s)) = ChunksOf(s) \ {Head(s).addr}
           /\ NoRepeat(Tail(s)) /\ AllWrite(Tail(s), w)
<1>1. /\ Len(s) \in Nat \ {0} /\ DOMAIN s = 1 .. Len(s)
      /\ Head(s) = s[1]
  BY EmptySeq
<1>2. /\ DOMAIN Tail(s) = 1 .. (Len(s) - 1)
      /\ \A i \in DOMAIN Tail(s) : Tail(s)[i] = s[i + 1]
  BY <1>1, HeadTailProperties
<1> DEFINE t == Tail(s)
<1> HIDE DEF t
<1>3. /\ DOMAIN t = 1 .. (Len(s) - 1)
      /\ \A i \in DOMAIN t : i + 1 \in DOMAIN s /\ t[i] = s[i + 1]
  BY <1>1, <1>2 DEF t
<1>4. 1 \in DOMAIN s /\ \A i \in DOMAIN s : i = 1 \/ i - 1 \in DOMAIN t
  BY <1>1, <1>3
<1>5. NoRepeat(t) /\ AllWrite(t, w) /\ Head(s).write = w
  BY <1>1, <1>3, <1>4 DEF NoRepeat, AllWrite
<1>6. Head(s).addr \in ChunksOf(s)
  BY <1>1, <1>4 DEF ChunksOf
<1>7. ASSUME NEW a \in ChunksOf(t) PROVE a \in ChunksOf(s) \ {Head(s).addr}
  <2>1. PICK i \in DOMAIN t : t[i].addr = a
    BY DEF ChunksOf
  <2>2. i + 1 \in DOMAIN s /\ s[i + 1].addr = a /\ i + 1 # 1
    BY <1>3, <2>1
  <2> QED  BY <1>1, <1>4, <2>2 DEF ChunksOf, NoRepeat
<1>8. ASSUME NEW a \in ChunksOf(s) \ {Head(s).addr} PROVE a \in ChunksOf(t)
  <2>1. PICK i \in DOMAIN s : s[i].addr = a
    BY DEF ChunksOf
  <2>2. i # 1
    BY <1>1, <2>1
  <2>3. i - 1 \in DOMAIN t /\ t[i - 1] = s[i]
    BY <1>1, <1>3, <1>4, <2>2
  <2> QED  BY <2>1, <2>3 DEF ChunksOf
<1> QED  BY <1>5, <1>6, <1>7, <1>8 DEF t

(* A packet put at the end of a list. *)
LEMMA AppendChunks ==
    ASSUME NEW s \in Seq(Packets), NoRepeat(s), NEW w, AllWrite(s, w),
           NEW p \in Packets, p.write = w, p.addr \notin ChunksOf(s)
    PROVE  /\ ChunksOf(Append(s, p)) = ChunksOf(s) \cup {p.addr}
           /\ NoRepeat(Append(s, p)) /\ AllWrite(Append(s, p), w)
<1> DEFINE n == Len(s)
           t == Append(s, p)
<1>1. n \in Nat /\ DOMAIN s = 1 .. n
  OBVIOUS
<1>2. /\ DOMAIN t = 1 .. n + 1 /\ t[n + 1] = p
      /\ \A i \in 1 .. n : t[i] = s[i]
  OBVIOUS
<1> HIDE DEF n, t
<1>3. \A i \in DOMAIN t : i = n + 1 \/ i \in DOMAIN s
  BY <1>1, <1>2
<1>4. n + 1 \in DOMAIN t /\ \A i \in DOMAIN s : i \in DOMAIN t /\ t[i] = s[i]
  BY <1>1, <1>2
<1>5. \A i \in DOMAIN s : s[i].addr # p.addr
  BY DEF ChunksOf
<1>6. NoRepeat(t)
  BY <1>2, <1>3, <1>4, <1>5 DEF NoRepeat
<1>7. AllWrite(t, w)
  BY <1>2, <1>3, <1>4 DEF AllWrite
<1>8. ChunksOf(t) = ChunksOf(s) \cup {p.addr}
  <2>1. ASSUME NEW a \in ChunksOf(t) PROVE a \in ChunksOf(s) \cup {p.addr}
    BY <1>2, <1>3, <1>4 DEF ChunksOf
  <2>2. ASSUME NEW a \in ChunksOf(s) \cup {p.addr} PROVE a \in ChunksOf(t)
    BY <1>2, <1>3, <1>4 DEF ChunksOf
  <2> QED  BY <2>1, <2>2
<1> QED  BY <1>6, <1>7, <1>8 DEF t

(* A packet taken out of a list. *)
LEMMA RemoveChunks ==
    ASSUME NEW s \in Seq(Packets), NoRepeat(s), NEW w, AllWrite(s, w),
           NEW k \in DOMAIN s
    PROVE  /\ ChunksOf(RemoveAt(s, k)) = ChunksOf(s) \ {s[k].addr}
           /\ NoRepeat(RemoveAt(s, k)) /\ AllWrite(RemoveAt(s, k), w)
<1> DEFINE n == Len(s)
           t == RemoveAt(s, k)
           l == SubSeq(s, 1, k - 1)
           r == SubSeq(s, k + 1, Len(s))
<1>1. n \in Nat /\ DOMAIN s = 1 .. n /\ k \in 1 .. n
  OBVIOUS
<1>2. /\ l \in Seq(Packets) /\ Len(l) = k - 1
      /\ \A i \in 1 .. k - 1 : l[i] = s[i]
  BY <1>1, SubSeqProperties
<1>3. /\ r \in Seq(Packets) /\ Len(r) = n - k
      /\ \A i \in 1 .. n - k : r[i] = s[k + i]
  BY <1>1, SubSeqProperties
<1>4. t = l \o r
  BY DEF RemoveAt
<1> HIDE DEF n, t, l, r
<1>5. /\ Len(t) = n - 1 /\ t \in Seq(Packets)
      /\ \A i \in 1 .. n - 1 : t[i] = IF i <= k - 1 THEN l[i] ELSE r[i - (k - 1)]
  <2>1. /\ l \o r \in Seq(Packets) /\ Len(l \o r) = Len(l) + Len(r)
        /\ \A i \in 1 .. Len(l) + Len(r) :
            (l \o r)[i] = IF i <= Len(l) THEN l[i] ELSE r[i - Len(l)]
    BY <1>2, <1>3, ConcatProperties
  <2>2. Len(l) + Len(r) = n - 1
    BY <1>1, <1>2, <1>3
  <2> QED  BY <1>2, <1>4, <2>1, <2>2
<1>6. DOMAIN t = 1 .. n - 1
  BY <1>5
<1>7. \A i \in 1 .. n - 1 : i < k => t[i] = s[i]
  BY <1>1, <1>2, <1>5
<1>8. \A i \in 1 .. n - 1 : i >= k => t[i] = s[i + 1]
  <2> TAKE i \in 1 .. n - 1
  <2> HAVE i >= k
  <2>1. t[i] = r[i - (k - 1)] /\ i - (k - 1) \in 1 .. n - k
    BY <1>1, <1>5
  <2>2. r[i - (k - 1)] = s[k + (i - (k - 1))]
    BY <1>3, <2>1
  <2>3. k + (i - (k - 1)) = i + 1
    BY <1>1
  <2> QED  BY <2>1, <2>2, <2>3
<1> DEFINE from(i) == IF i < k THEN i ELSE i + 1
<1>9. \A i \in DOMAIN t : from(i) \in DOMAIN s /\ from(i) # k /\ t[i] = s[from(i)]
  BY <1>1, <1>6, <1>7, <1>8
<1>10. \A i, j \in DOMAIN t : from(i) = from(j) => i = j
  BY <1>1, <1>6
<1>11. \A j \in DOMAIN s : j # k => \E i \in DOMAIN t : from(i) = j
  <2> TAKE j \in DOMAIN s
  <2> HAVE j # k
  <2>1. CASE j < k
    <3>1. j \in DOMAIN t /\ from(j) = j
      BY <1>1, <1>6, <2>1
    <3> QED  BY <3>1
  <2>2. CASE j > k
    <3>1. j - 1 \in DOMAIN t /\ from(j - 1) = j
      BY <1>1, <1>6, <2>2
    <3> QED  BY <3>1
  <2> QED  BY <1>1, <2>1, <2>2
<1> HIDE DEF from
<1>12. NoRepeat(t)
  BY <1>9, <1>10 DEF NoRepeat
<1>13. AllWrite(t, w)
  BY <1>9 DEF AllWrite
<1>14. ChunksOf(t) = ChunksOf(s) \ {s[k].addr}
  <2>1. ASSUME NEW a \in ChunksOf(t) PROVE a \in ChunksOf(s) \ {s[k].addr}
    <3>1. PICK i \in DOMAIN t : t[i].addr = a
      BY DEF ChunksOf
    <3> QED  BY <1>9, <3>1 DEF ChunksOf, NoRepeat
  <2>2. ASSUME NEW a \in ChunksOf(s) \ {s[k].addr} PROVE a \in ChunksOf(t)
    <3>1. PICK j \in DOMAIN s : s[j].addr = a
      BY DEF ChunksOf
    <3>2. PICK i \in DOMAIN t : from(i) = j
      BY <1>11, <3>1
    <3> QED  BY <1>9, <3>1, <3>2 DEF ChunksOf
  <2> QED  BY <2>1, <2>2
<1> QED  BY <1>12, <1>13, <1>14 DEF t

-----------------------------------------------------------------------------
(* sendData moves a packet from the list to the memory, or nothing. *)
LEMMA SendExact ==
    ASSUME NEW e, NEW late \in {0, 1}, Called(e, late),
           NEW w, NEW S, Exact(e, w, S), NEW f \in sendData(e)
    PROVE  Exact(f, w, S) /\ f.requests = e.requests
<1>1. /\ e \in Engines /\ e.packets \in Seq(Packets) /\ e.packets # <<>>
      /\ e.mem \in Seq(Packets)
  BY DEF Called, Engines
<1>2. CASE f.packets = e.packets /\ f.mem = e.mem /\ f.requests = e.requests
  BY <1>2 DEF Exact
<1>3. CASE f = Sent(e)
  <2> DEFINE h == Head(e.packets)
             packets == Tail(e.packets)
             mem == Append(e.mem, h)
  <2>1. h \in Packets
    BY <1>1, FirstOff
  <2>2. /\ h.addr \in ChunksOf(e.packets) /\ h.write = w
        /\ ChunksOf(packets) = ChunksOf(e.packets) \ {h.addr}
        /\ NoRepeat(packets) /\ AllWrite(packets, w)
    BY <1>1, TailChunks DEF Exact
  <2>3. h.addr \notin ChunksOf(e.mem)
    BY <2>2 DEF Exact
  <2>4. /\ ChunksOf(mem) = ChunksOf(e.mem) \cup {h.addr}
        /\ NoRepeat(mem) /\ AllWrite(mem, w)
    BY <1>1, <2>1, <2>2, <2>3, AppendChunks DEF Exact
  <2>5. f.packets = packets /\ f.mem = mem /\ f.requests = e.requests
    BY <1>1, <1>3 DEF Sent, Engines
  <2> HIDE DEF packets, mem, h
  <2>6. /\ ChunksOf(packets) \cap ChunksOf(mem) = {}
        /\ ChunksOf(packets) \cup ChunksOf(mem) = S
    BY <2>2, <2>3, <2>4 DEF Exact
  <2> QED  BY <2>2, <2>4, <2>5, <2>6 DEF Exact
<1>4. CASE f = Refused(e) \/ f = [e EXCEPT !.dmaActv = FALSE]
  <2>1. f.packets = e.packets /\ f.mem = e.mem /\ f.requests = e.requests
    BY <1>1, <1>4 DEF Refused, Engines
  <2> QED  BY <1>2, <2>1
<1> QED  BY <1>3, <1>4 DEF sendData

(* The event and the retry. *)
LEMMA EventExact ==
    ASSUME NEW e, Sound(e, 0), e.events > 0, NEW w, NEW S, Exact(e, w, S),
           NEW f \in SendEvent(e)
    PROVE  Exact(f, w, S) /\ f.requests = e.requests
<1> DEFINE c == [e EXCEPT !.events = @ - 1]
<1>1. /\ Called(c, 0) /\ c.packets = e.packets /\ c.mem = e.mem
      /\ c.requests = e.requests
  BY DEF Sound, Called, Engines, CountedIn, OneSender
<1>2. f \in sendData(c)
  BY DEF SendEvent
<1> HIDE DEF c
<1>3. Exact(c, w, S)
  BY <1>1 DEF Exact
<1> QED  BY <1>1, <1>2, <1>3, SendExact

LEMMA RetryExact ==
    ASSUME NEW e, Sound(e, 0), e.retry, NEW w, NEW S, Exact(e, w, S),
           NEW f \in recvReqRetry(e)
    PROVE  Exact(f, w, S) /\ f.requests = e.requests
<1> DEFINE c == [e EXCEPT !.retry = FALSE]
<1>1. /\ Called(c, 0) /\ c.packets = e.packets /\ c.mem = e.mem
      /\ c.requests = e.requests
  BY DEF Sound, Called, Engines, CountedIn, OneSender
<1>2. f \in sendData(c)
  BY DEF recvReqRetry
<1> HIDE DEF c
<1>3. Exact(c, w, S)
  BY <1>1 DEF Exact
<1> QED  BY <1>1, <1>2, <1>3, SendExact

(* A burst asked of an engine without packets. *)
LEMMA AccessExact ==
    ASSUME NEW e, NEW late \in {0, 1}, Sound(e, late),
           e.packets = <<>>, e.mem = <<>>,
           NEW w \in BOOLEAN, NEW c, IsBurst(c), IsInjective(c),
           NEW f \in accessMemory(e, w, c)
    PROVE  /\ Exact(f, w, Range(c))
           /\ f.requests = Append(e.requests, [write |-> w, pending |-> Range(c)])
<1> DEFINE q == Queued(e, w, c)
           new == [i \in DOMAIN c |-> [write |-> w, addr |-> c[i]]]
           req == [write |-> w, pending |-> Range(c)]
<1>1. /\ DOMAIN c = 1 .. Len(c) /\ Len(c) \in Nat \ {0}
      /\ \A i \in DOMAIN c : c[i] \in Addrs
  BY DEF IsBurst
<1>2. new \in Seq(Packets) /\ new # <<>>
  <2>1. new \in [1 .. Len(c) -> Packets]
    BY <1>1 DEF Packets
  <2> HIDE DEF new
  <2>2. new \in Seq(Packets) /\ Len(new) = Len(c)
    BY <1>1, <2>1, ListOf
  <2> QED  BY <1>1, <2>2
<1>3. NoRepeat(new)
  BY DEF NoRepeat, IsInjective
<1>4. AllWrite(new, w)
  BY DEF AllWrite
<1>5. ChunksOf(new) = Range(c)
  BY DEF ChunksOf, Range
<1>6. req \in BurstRequests
  <2>1. Range(c) \in SUBSET Addrs
    BY <1>1 DEF Range
  <2> QED  BY <2>1 DEF BurstRequests
<1>7. e.packets \o new = new
  BY <1>2
<1>8. q = [e EXCEPT !.packets = new, !.requests = Append(e.requests, req)]
  <2>1. q = [e EXCEPT !.packets = e.packets \o new,
                      !.requests = Append(e.requests, req)]
    BY DEF Queued
  <2> QED  BY <1>7, <2>1
<1> HIDE DEF new, req, q
<1>9. e \in Engines /\ Append(e.requests, req) \in Seq(BurstRequests)
  BY <1>6 DEF Sound, Engines
<1>10. /\ q \in Engines /\ q.packets = new /\ q.mem = <<>>
       /\ q.requests = Append(e.requests, req)
       /\ q.dmaActv = e.dmaActv /\ q.flyReqs = e.flyReqs
       /\ q.events = e.events /\ q.retry = e.retry
  BY <1>2, <1>8, <1>9 DEF Engines
<1>11. ChunksOf(<<>>) = {} /\ NoRepeat(<<>>) /\ AllWrite(<<>>, w)
  BY DEF ChunksOf, NoRepeat, AllWrite
<1>12. Exact(q, w, Range(c))
  BY <1>3, <1>4, <1>5, <1>10, <1>11 DEF Exact
<1>13. CASE e.dmaActv
  BY <1>10, <1>12, <1>13 DEF accessMemory, q, req
<1>14. CASE ~e.dmaActv
  <2> DEFINE t == [q EXCEPT !.dmaActv = TRUE]
  <2>1. f \in sendData(t)
    BY <1>14 DEF accessMemory, Trigger, q
  <2>2. e.events = 0 /\ ~e.retry
    BY <1>14 DEF Sound, OneSender
  <2>3. /\ Called(t, late) /\ t.requests = q.requests /\ t.packets = q.packets
        /\ t.mem = q.mem
    BY <1>2, <1>10, <2>2 DEF Sound, Called, Engines, CountedIn
  <2> HIDE DEF t
  <2>4. Exact(t, w, Range(c))
    BY <1>12, <2>3 DEF Exact
  <2> QED  BY <1>10, <2>1, <2>3, <2>4, SendExact DEF req
<1> QED  BY <1>13, <1>14

(* Engine e works on one request, of kind w, which waits for S. *)
OneBurst(e, w, S) ==
    Exact(e, w, S) /\ e.requests = <<[write |-> w, pending |-> S]>>

(* Answer i takes its chunk off S, and completes the request if it is the  *)
(* last one.                                                               *)
Answers(e, i, w, S) ==
    /\ e.mem[i].addr \in S /\ e.mem[i].write = w
    /\ OneBurst(Popped(e, i), w, S \ {e.mem[i].addr})
    /\ Completed(e, e.mem[i]) = IF S = {e.mem[i].addr} THEN 1 ELSE 0

(* The loop of memCallback on the one request of the engine. *)
LEMMA PoppedExact ==
    ASSUME NEW e, Sound(e, 0), NEW w, NEW S, OneBurst(e, w, S),
           NEW i \in DOMAIN e.mem
    PROVE  Answers(e, i, w, S)
<1> USE DEF OneBurst
<1> DEFINE a == e.mem[i].addr
           rest == RemoveAt(e.mem, i)
           pkt == e.mem[i]
<1>1. /\ e \in Engines /\ e.mem \in Seq(Packets)
      /\ DOMAIN e.requests = {1}
      /\ e.requests[1] = [write |-> w, pending |-> S]
      /\ e.requests[1].write = w /\ e.requests[1].pending = S
  BY DEF Sound, Engines
<1>2. a \in ChunksOf(e.mem) /\ pkt.write = w
  BY DEF ChunksOf, Exact, AllWrite
<1>3. a \in S /\ a \notin ChunksOf(e.packets)
  BY <1>2 DEF Exact
<1>4. Matching(e, pkt) = {1}
  BY <1>1, <1>2, <1>3 DEF Matching
<1>5. Completing(e, pkt) = IF S = {a} THEN {1} ELSE {}
  BY <1>1, <1>4 DEF Completing
<1>6. Completed(e, pkt) = IF S = {a} THEN 1 ELSE 0
  <2>1. CASE S = {a}
    <3>1. Completing(e, pkt) = {1}
      BY <1>5, <2>1
    <3>2. \A r \in {1} : \A s \in {1} : r <= s
      OBVIOUS
    <3>3. Completed(e, pkt) \in {1}
      BY <3>1, <3>2, Zenon DEF Completed
    <3> QED  BY <2>1, <3>3
  <2>2. CASE S # {a}
    BY <1>5, <2>2 DEF Completed
  <2> QED  BY <2>1, <2>2
<1> DEFINE hit == {r \in Matching(e, pkt) : \/ Completed(e, pkt) = 0
                                           \/ r <= Completed(e, pkt)}
           left == [r \in DOMAIN e.requests |->
                     IF r \in hit THEN e.requests[r].pending \ {a}
                     ELSE e.requests[r].pending]
           reqs == [r \in DOMAIN e.requests |->
                     [write |-> e.requests[r].write, pending |-> left[r]]]
<1>7. Popped(e, i) = [e EXCEPT !.mem = rest, !.requests = reqs]
  BY DEF Popped
<1>8. hit = {1}
  BY <1>4, <1>6
<1> HIDE DEF hit
<1>9. left = [r \in {1} |-> S \ {a}]
  BY <1>1, <1>8
<1> HIDE DEF left
<1>10. reqs = <<[write |-> w, pending |-> S \ {a}]>>
  <2>1. reqs = [r \in {1} |-> [write |-> w, pending |-> S \ {a}]]
    BY <1>1, <1>9
  <2> QED  BY <2>1
<1> HIDE DEF reqs
<1>11. /\ Popped(e, i).mem = rest /\ Popped(e, i).requests = reqs
       /\ Popped(e, i).packets = e.packets
  BY <1>1, <1>7 DEF Engines
<1>12. /\ ChunksOf(rest) = ChunksOf(e.mem) \ {a}
       /\ NoRepeat(rest) /\ AllWrite(rest, w)
  BY <1>1, RemoveChunks DEF Exact
<1> HIDE DEF rest
<1>13. /\ ChunksOf(e.packets) \cap ChunksOf(rest) = {}
       /\ ChunksOf(e.packets) \cup ChunksOf(rest) = S \ {a}
  BY <1>3, <1>12 DEF Exact
<1>14. Exact(Popped(e, i), w, S \ {a})
  BY <1>11, <1>12, <1>13 DEF Exact
<1> QED  BY <1>2, <1>3, <1>6, <1>10, <1>11, <1>14 DEF Answers

(* The end of memCallback. *)
LEMMA FinishedExact ==
    ASSUME NEW e, Sound(e, 1), NEW w, NEW S, Exact(e, w, S),
           NEW f \in Finished(e)
    PROVE  Exact(f, w, S) /\ f.requests = e.requests
<1> DEFINE out == [e EXCEPT !.flyReqs = @ - 1]
<1>1. /\ e \in Engines /\ Len(e.mem) \in Nat
      /\ e.flyReqs = Len(e.mem) + 1 /\ e.flyReqs <= MaxReqs
  BY DEF Sound, Engines, CountedIn
<1>2. /\ out \in Engines /\ out.flyReqs = e.flyReqs - 1
      /\ out.mem = e.mem /\ out.packets = e.packets
      /\ out.requests = e.requests
      /\ out.dmaActv = e.dmaActv /\ out.events = e.events
      /\ out.retry = e.retry
  BY <1>1, CountedOut
<1>3. f \in IF ~out.dmaActv /\ out.packets # <<>> THEN Trigger(out) ELSE {out}
  BY DEF Finished
<1> HIDE DEF out
<1>4. Exact(out, w, S)
  BY <1>2 DEF Exact
<1>5. CASE ~out.dmaActv /\ out.packets # <<>>
  <2> DEFINE t == [out EXCEPT !.dmaActv = TRUE]
  <2>1. /\ t \in Engines /\ t.packets = out.packets /\ t.mem = out.mem
        /\ t.requests = out.requests /\ t.flyReqs = out.flyReqs
        /\ t.events = out.events /\ t.retry = out.retry /\ t.dmaActv
    BY <1>2 DEF Engines
  <2>2. f \in sendData(t)
    BY <1>3, <1>5 DEF Trigger
  <2> HIDE DEF t
  <2>3. Exact(t, w, S)
    BY <1>4, <2>1 DEF Exact
  <2>4. CountedIn(t, 0)
    BY <1>1, <1>2, <2>1, MaxReqsAssumption DEF CountedIn
  <2>5. e.events = 0 /\ ~e.retry
    BY <1>2, <1>5 DEF Sound, OneSender
  <2>6. Called(t, 0)
    BY <1>2, <1>5, <2>1, <2>4, <2>5 DEF Called
  <2> QED  BY <1>2, <2>1, <2>2, <2>3, <2>6, SendExact
<1>6. CASE ~(~out.dmaActv /\ out.packets # <<>>)
  BY <1>2, <1>3, <1>4, <1>6
<1> QED  BY <1>5, <1>6

(* An engine that is exact about no chunk has no packet. *)
LEMMA NothingExact ==
    ASSUME NEW e \in Engines, NEW w, Exact(e, w, {})
    PROVE  e.packets = <<>> /\ e.mem = <<>>
<1>1. ASSUME NEW s \in Seq(Packets), ChunksOf(s) = {} PROVE s = <<>>
  <2>1. Len(s) \in Nat /\ DOMAIN s = 1 .. Len(s)
    OBVIOUS
  <2>2. DOMAIN s = {}
    BY <1>1, Zenon DEF ChunksOf
  <2>3. Len(s) = 0
    BY <2>1, <2>2
  <2> QED  BY <2>3, EmptySeq
<1>2. e.packets \in Seq(Packets) /\ e.mem \in Seq(Packets)
  BY DEF Engines
<1>3. ChunksOf(e.packets) = {} /\ ChunksOf(e.mem) = {}
  BY DEF Exact
<1> QED  BY <1>1, <1>2, <1>3
=============================================================================
