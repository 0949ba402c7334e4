--------------------------- MODULE NDPAnyDevice ---------------------------
(***************************************************************************)
(* The DMA engine of module NDP under any device: one that asks for bursts *)
(* whenever it likes, inside recvData included, and has up to MaxBursts of *)
(* them outstanding.  It is what the engine promises to every subclass of  *)
(* class NDP, and what GemminiDevA and NDPDevA are shown to implement.     *)
(***************************************************************************)
EXTENDS NDP

CONSTANTS
    Bursts,     \* the bursts a device asks for, none of them empty
    MaxBursts,  \* bound on the bursts outstanding at a time
    MaxPackets  \* bound on the packets outstanding when a burst is asked for

ASSUME BurstAssumption ==
    \A c \in Bursts : /\ DOMAIN c = 1 .. Len(c) /\ Len(c) \in Nat \ {0}
                      /\ \A i \in DOMAIN c : c[i] \in Addrs

VARIABLE engine

Init == engine = NewEngine

(* The packets the engine has to send or to hear of. *)
Outstanding(e) == Len(e.packets) + Len(e.mem)

(* accessMemory, called by the device outside recvData. *)
Access ==
    /\ Len(engine.requests) < MaxBursts
    /\ Outstanding(engine) < MaxPackets
    /\ \E write \in BOOLEAN, c \in Bursts :
            engine' \in accessMemory(engine, write, c)

(* The sendData event, and recvReqRetry of the port. *)
SendNext == engine.events > 0 /\ engine' \in SendEvent(engine)
Retry == engine.retry /\ engine' \in recvReqRetry(engine)

(* memCallback whose recvData, if any, asks for nothing. *)
Answer(i) ==
    LET r == Completed(engine, engine.mem[i])
    IN  engine' \in Finished(Dropped(Popped(engine, i), r))

(* memCallback whose recvData asks for the next burst. *)
AnswerAndAccess(i) ==
    LET r == Completed(engine, engine.mem[i])
    IN  /\ r # 0 /\ Len(engine.requests) <= MaxBursts
        /\ Outstanding(Popped(engine, i)) < MaxPackets
        /\ \E write \in BOOLEAN, c \in Bursts :
            \E e \in accessMemory(Popped(engine, i), write, c) :
                engine' \in Finished(Dropped(e, r))

Next ==
    \/ Access \/ SendNext \/ Retry
    \/ \E i \in DOMAIN engine.mem : Answer(i) \/ AnswerAndAccess(i)

Spec == Init /\ [][Next]_engine
-----------------------------------------------------------------------------
(* The packets in memory are counted, and never more than maxReqs. *)
FlyCounted == CountedIn(engine, 0)

(***************************************************************************)
(* While the engine is active exactly one future call of sendData exists,  *)
(* and it finds a packet to send: front() of the empty list is never read, *)
(* and no packet is sent twice by an event and a retry.                    *)
(***************************************************************************)
SingleSender == OneSender(engine)

(* A packet that waits in a sleeping engine will be sent. *)
SleeperWakes == WillWake(engine)

(***************************************************************************)
(* Every pending subrequest has a packet that will answer it, also when    *)
(* memCallback takes one answer for several requests of the same chunk:    *)
(* no request waits for an answer that never comes.                        *)
(***************************************************************************)
RequestsBacked ==
    \A r \in Range(engine.requests) :
        /\ r.pending # {}
        /\ \A a \in r.pending :
            \E p \in Range(engine.packets) \cup Range(engine.mem) :
                p.addr = a /\ p.write = r.write
=============================================================================
