---------------------------- MODULE GemminiDevA ----------------------------
(***************************************************************************)
(* The Gemmini device (gemmini_dev_a/gemmini_dev_a.cc) on the DMA engine   *)
(* of module NDP: a job reads the operand m, then the operand k if the     *)
(* opcode has one, computes, and writes the result o.                      *)
(*                                                                         *)
(* A job is where its matrices lie, as sequences of chunks; what is        *)
(* computed is left out.  The guest follows the protocol of the            *)
(* repository's own programs: it writes the registers, starts the job and  *)
(* polls the status register until it is set again.                        *)
(***************************************************************************)
EXTENDS NDP

CONSTANT Jobs   \* the jobs a guest may start

ASSUME JobAssumption ==
    \A job \in Jobs :
        /\ job \in [m : Seq(Addrs), k : Seq(Addrs), o : Seq(Addrs)]
        /\ IsInjective(job.m) /\ IsInjective(job.k) /\ IsInjective(job.o)
        /\ job.m # <<>> /\ job.o # <<>>

(* The registers before the first job. *)
NoJob == [m |-> <<>>, k |-> <<>>, o |-> <<>>]

VARIABLES
    engine,        \* the inherited DMA engine
    pi_status,     \* 1: idle or finished, 0: a job is in progress
    has_operands,  \* GemminiDevA::has_operands
    regs,          \* the job in the PI registers
    written        \* history: the chunks of memory the job has written

vars == <<engine, pi_status, has_operands, regs, written>>

TypeOK ==
    /\ engine.dmaActv \in BOOLEAN /\ engine.retry \in BOOLEAN
    /\ engine.flyReqs \in Nat /\ engine.events \in Nat
    /\ Range(engine.packets) \subseteq Packets
    /\ Range(engine.mem) \subseteq Packets
    /\ Range(engine.requests) \subseteq BurstRequests
    /\ pi_status \in {0, 1}
    /\ has_operands \in 0 .. 2
    /\ regs \in Jobs \cup {NoJob}
    /\ written \subseteq Addrs

Init ==
    /\ engine = NewEngine
    /\ pi_status = 1 /\ has_operands = 0
    /\ regs = NoJob
    /\ written = {}

-----------------------------------------------------------------------------
(* process_fsm with has_operands = operands: the next burst. *)
process_fsm(job, operands, e) ==
    IF operands = 0 THEN accessMemory(e, FALSE, job.m)
    ELSE IF operands = 1 /\ job.k # <<>> THEN accessMemory(e, FALSE, job.k)
    ELSE accessMemory(e, TRUE, job.o)

(* writePI of the registers and of the start register, by an idle guest. *)
writePI(job) ==
    /\ pi_status = 1
    /\ pi_status' = 0
    /\ regs' = job
    /\ written' = {}
    /\ engine' \in process_fsm(job, has_operands, engine)
    /\ UNCHANGED has_operands

sendDataEvent ==
    /\ engine.events > 0
    /\ engine' \in SendEvent(engine)
    /\ UNCHANGED <<pi_status, has_operands, regs, written>>

retryPort ==
    /\ engine.retry
    /\ engine' \in recvReqRetry(engine)
    /\ UNCHANGED <<pi_status, has_operands, regs, written>>

-----------------------------------------------------------------------------
(* The memory performs a packet and the engine's memCallback runs. *)
ChunkDone(i, r) ==
    /\ r = 0
    /\ engine' \in Finished(Popped(engine, i))
    /\ UNCHANGED <<pi_status, has_operands>>

(* recvData with data: one more operand, and the next burst. *)
OperandDone(i, r) ==
    /\ r # 0 /\ ~engine.mem[i].write
    /\ has_operands' = has_operands + 1
    /\ \E e \in process_fsm(regs, has_operands + 1, Popped(engine, i)) :
            engine' \in Finished(Dropped(e, r))
    /\ UNCHANGED pi_status

(* recvData without data: the result is in memory. *)
ResultDone(i, r) ==
    /\ r # 0 /\ engine.mem[i].write
    /\ pi_status' = 1 /\ has_operands' = 0
    /\ engine' \in Finished(Dropped(Popped(engine, i), r))

memCallback(i) ==
    LET pkt == engine.mem[i]
        r   == Completed(engine, pkt)
    IN  /\ written' = IF pkt.write THEN written \cup {pkt.addr} ELSE written
        /\ ChunkDone(i, r) \/ OperandDone(i, r) \/ ResultDone(i, r)
        /\ UNCHANGED regs

response == \E i \in DOMAIN engine.mem : memCallback(i)

Next ==
    \/ \E job \in Jobs : writePI(job)
    \/ sendDataEvent
    \/ retryPort
    \/ response

Spec == Init /\ [][Next]_vars

(***************************************************************************)
(* gem5 runs its events, the memory answers what it has accepted and       *)
(* grants a refused packet when it has asked for it again often enough.    *)
(***************************************************************************)
FairSpec ==
    /\ Spec
    /\ WF_vars(sendDataEvent) /\ WF_vars(retryPort) /\ WF_vars(response)
    /\ SF_vars(retryPort /\ ~engine'.retry)
-----------------------------------------------------------------------------
(* The packets the engine still has to send or to hear of. *)
Outstanding == Range(engine.packets) \cup Range(engine.mem)

(***************************************************************************)
(* When the guest sees the status register set, the job is over: the whole *)
(* result is in memory, and no packet or request of it is left in the      *)
(* engine to touch memory or the freed buffers later.                      *)
(***************************************************************************)
StatusTruthful ==
    pi_status = 1 => /\ Outstanding = {} /\ engine.requests = <<>>
                     /\ has_operands = 0
                     /\ written = Range(regs.o)

(***************************************************************************)
(* The result may overwrite the operands in place: nothing is read after   *)
(* the first chunk of the result is written.                               *)
(***************************************************************************)
ReadsBeforeWrites ==
    written # {} \/ (\E p \in Outstanding : p.write)
        => \A p \in Outstanding : p.write

(* Both operands are in the device before the result is sent. *)
OperandsRead ==
    (\E p \in Outstanding : p.write)
        => has_operands = IF regs.k = <<>> THEN 1 ELSE 2
=============================================================================
