-------------------------------- MODULE NDP --------------------------------
(***************************************************************************)
(* The DMA engine of the near-data-processing devices (ndp/ndp.cc), which  *)
(* GemminiDevA and NDPDevA inherit.                                        *)
(*                                                                         *)
(* The engine is a record, and a method is an operator from an engine to   *)
(* the set of engines it may leave: the only choice is whether the memory  *)
(* port accepts a packet.  A device's handler chains them, because         *)
(* memCallback calls the device's recvData, which calls accessMemory, all  *)
(* before memCallback has counted the packet out.                          *)
(*                                                                         *)
(* An address stands for a chunk of maxRSze bytes; a burst is the sequence *)
(* of chunks that accessMemory splits it into.                             *)
(***************************************************************************)
EXTENDS Integers, SequencesExt

CONSTANTS
    Addrs,    \* the chunk addresses
    MaxReqs   \* NDP::maxReqs

ASSUME MaxReqsAssumption == MaxReqs \in Nat \ {0}
ASSUME AddrAssumption == Addrs \subseteq Nat

Packets == [write : BOOLEAN, addr : Addrs]

(* A BurstRequest: the chunks of its pending subrequests. *)
BurstRequests == [write : BOOLEAN, pending : SUBSET Addrs]

(***************************************************************************)
(* packets and requests are the lists pendingReqPackets and                *)
(* pendingRequests, events the number of sendData events scheduled, retry  *)
(* that the port has refused a packet and owes a recvReqRetry, and mem the *)
(* packets that the memory has accepted and not answered.                  *)
(***************************************************************************)
Engines == [dmaActv : BOOLEAN, flyReqs : Nat, packets : Seq(Packets),
            requests : Seq(BurstRequests), events : Nat, retry : BOOLEAN,
            mem : Seq(Packets)]

NewEngine == [dmaActv |-> FALSE, flyReqs |-> 0, packets |-> <<>>,
              requests |-> <<>>, events |-> 0, retry |-> FALSE, mem |-> <<>>]

-----------------------------------------------------------------------------
(* sendData: the port accepts the oldest packet, or refuses it. *)
Sent(e) ==
    [e EXCEPT !.flyReqs = @ + 1,
              !.mem     = Append(@, Head(e.packets)),
              !.packets = Tail(@),
              !.events  = IF Len(e.packets) > 1 THEN @ + 1 ELSE @,
              !.dmaActv = IF Len(e.packets) > 1 THEN @ ELSE FALSE]

Refused(e) == [e EXCEPT !.retry = TRUE]

sendData(e) ==
    IF e.flyReqs = MaxReqs
    THEN {[e EXCEPT !.dmaActv = FALSE]}
    ELSE {Sent(e), Refused(e)}

(* The end of accessMemory and of memCallback: wake a sleeping engine. *)
Trigger(e) == sendData([e EXCEPT !.dmaActv = TRUE])

(* accessMemory of a burst, as the sequence of its chunks. *)
Queued(e, write, chunks) ==
    [e EXCEPT !.packets  = @ \o [i \in DOMAIN chunks |->
                                    [write |-> write, addr |-> chunks[i]]],
              !.requests = Append(@, [write |-> write,
                                      pending |-> Range(chunks)])]

(* Mutant: the engine is triggered although it is active. *)
accessMemory_AlwaysTriggers(e, write, chunks) ==
    Trigger(Queued(e, write, chunks))

accessMemory(e, write, chunks) ==
    IF e.dmaActv THEN {Queued(e, write, chunks)}
    ELSE Trigger(Queued(e, write, chunks))

(* The event that sendData scheduled. *)
SendEvent(e) == sendData([e EXCEPT !.events = @ - 1])

(* recvReqRetry of the DMA port. *)
recvReqRetry(e) == sendData([e EXCEPT !.retry = FALSE])

-----------------------------------------------------------------------------
(* Mutant: the answer is matched with reads only. *)
Matching_ReadsOnly(e, pkt) ==
    {r \in DOMAIN e.requests : /\ ~e.requests[r].write
                               /\ pkt.addr \in e.requests[r].pending}

(***************************************************************************)
(* memCallback for the packet in place i of mem.  The loop takes the chunk *)
(* off every request of the packet's kind that has it pending, and stops   *)
(* at the first one that this completes: only a request that completes     *)
(* ends the loop.                                                          *)
(***************************************************************************)
Matching(e, pkt) ==
    {r \in DOMAIN e.requests : /\ e.requests[r].write = pkt.write
                               /\ pkt.addr \in e.requests[r].pending}

(* Mutant: any answer completes its request. *)
Completing_AnyChunk(e, pkt) == Matching(e, pkt)

Completing(e, pkt) ==
    {r \in Matching(e, pkt) : e.requests[r].pending = {pkt.addr}}

(* The request that the packet completes, or 0. *)
Completed(e, pkt) ==
    IF Completing(e, pkt) = {} THEN 0
    ELSE CHOOSE r \in Completing(e, pkt) :
            \A s \in Completing(e, pkt) : r <= s

(* The engine when the loop stops, before recvData. *)
Popped(e, i) ==
    LET pkt  == e.mem[i]
        last == Completed(e, pkt)
        hit  == {r \in Matching(e, pkt) : last = 0 \/ r <= last}
        left == [r \in DOMAIN e.requests |->
                    IF r \in hit THEN e.requests[r].pending \ {pkt.addr}
                    ELSE e.requests[r].pending]
    IN  [e EXCEPT
            !.mem      = RemoveAt(@, i),
            !.requests = [r \in DOMAIN @ |->
                            [write |-> e.requests[r].write,
                             pending |-> left[r]]]]

(* The completed request leaves the list, after recvData. *)
Dropped(e, r) ==
    [e EXCEPT !.requests = IF r = 0 THEN @ ELSE RemoveAt(@, r)]

(* The end of memCallback: the packet is counted out, the engine woken. *)
Finished(e) ==
    LET out == [e EXCEPT !.flyReqs = @ - 1]
    IN  IF ~out.dmaActv /\ out.packets # <<>> THEN Trigger(out) ELSE {out}

-----------------------------------------------------------------------------
(***************************************************************************)
(* The engine's promises, for an engine in which `late' packets have been  *)
(* answered and not yet counted out: 1 inside memCallback, else 0.         *)
(***************************************************************************)

(* flyReqs counts the packets in memory and keeps to the limit. *)
CountedIn(e, late) == e.flyReqs = Len(e.mem) + late /\ e.flyReqs <= MaxReqs

(***************************************************************************)
(* dmaActv is a token: while it is set, exactly one of a scheduled event   *)
(* and an owed retry will call sendData, with a packet to send; while it   *)
(* is clear, neither will.                                                 *)
(***************************************************************************)
OneSender(e) ==
    /\ e.dmaActv => \/ e.events = 1 /\ ~e.retry
                    \/ e.events = 0 /\ e.retry
    /\ ~e.dmaActv => e.events = 0 /\ ~e.retry
    /\ e.dmaActv => e.packets # <<>>

(***************************************************************************)
(* A packet that waits in a sleeping engine is waited for: the memory owes *)
(* an answer, whose callback wakes the engine.                             *)
(***************************************************************************)
WillWake(e) == e.packets # <<>> /\ ~e.dmaActv => e.flyReqs = MaxReqs
=============================================================================
