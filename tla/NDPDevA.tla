------------------------------ MODULE NDPDevA ------------------------------
(***************************************************************************)
(* The search device (ndp_dev_a/ndp_dev_a.cc) on the DMA engine of module  *)
(* NDP: a job reads a vector, scans it and shows the result when the scan  *)
(* would have ended.  The guest follows the protocol of the repository's   *)
(* benchmark: it starts a job and polls the status register until it is    *)
(* set again.  A chunk holds one element.                                  *)
(***************************************************************************)
EXTENDS NDP, FiniteSetsExt

CONSTANTS
    Memory,     \* the element in each chunk
    Keys,       \* the values of pi_data_skey
    Commands,   \* the values of pi_cmmd_code: 0 hit, 1 count, 2 max
    MaxSize     \* bound on pi_data_size

ASSUME SearchAssumption ==
    /\ Commands \subseteq {0, 1, 2} /\ MaxSize \in Nat \ {0}
    /\ Addrs = 0 .. MaxSize

(* The registers of a job: pi_addr_data, pi_data_size, skey and command. *)
Jobs == [addr : {0, 1}, size : 1 .. MaxSize, skey : Keys, cmmd : Commands]

(* The registers before the first job. *)
NoJob == [addr |-> 0, size |-> 0, skey |-> 0, cmmd |-> 0]

Chunks(job) == [i \in 1 .. job.size |-> job.addr + i - 1]

VARIABLES
    engine,        \* the inherited DMA engine
    pi_stat_rgst,  \* 1: idle or finished, 0: a job is in progress
    pi_last_rslt,
    regs,          \* the job in the PI registers
    has_operands,
    operands,      \* the operand buffer, 0 where nothing has arrived
    scanning       \* the event that ends the scan is scheduled

vars == <<engine, pi_stat_rgst, pi_last_rslt, regs, has_operands,
          operands, scanning>>

(* The jobs that fit the memory of the instance. *)
Fits(job) == job.addr + job.size <= MaxSize + 1

TypeOK ==
    /\ engine.dmaActv \in BOOLEAN /\ engine.retry \in BOOLEAN
    /\ engine.flyReqs \in Nat /\ engine.events \in Nat
    /\ Range(engine.packets) \subseteq Packets
    /\ Range(engine.mem) \subseteq Packets
    /\ Range(engine.requests) \subseteq BurstRequests
    /\ pi_stat_rgst \in {0, 1} /\ pi_last_rslt \in Nat
    /\ regs \in Jobs \cup {NoJob}
    /\ has_operands \in BOOLEAN
    /\ scanning \in BOOLEAN
    /\ DOMAIN operands \subseteq 1 .. MaxSize

Init ==
    /\ engine = NewEngine
    /\ pi_stat_rgst = 1 /\ pi_last_rslt = 0
    /\ regs = NoJob
    /\ has_operands = FALSE /\ operands = <<>> /\ scanning = FALSE

-----------------------------------------------------------------------------
Occurrences(data, v) == Cardinality({i \in DOMAIN data : data[i] = v})

(* compare_n_hit, compare_n_count and compare_n_max: the new result. *)
compare(cmmd, data, skey, last) ==
    CASE cmmd = 0 -> IF Occurrences(data, skey) > 0 THEN 1 ELSE last
      [] cmmd = 1 -> Occurrences(data, skey)
      [] cmmd = 2 -> Max(Range(data))

(* Mutant: a start is accepted while a job is in progress. *)
writePI_Unchecked(job) ==
    /\ Fits(job)
    /\ pi_stat_rgst' = 0
    /\ regs' = job
    /\ operands' = [i \in 1 .. job.size |-> 0]
    /\ engine' \in accessMemory(engine, FALSE, Chunks(job))
    /\ UNCHANGED <<has_operands, scanning, pi_last_rslt>>

(* writePI of the registers and of the start register, by an idle guest. *)
writePI(job) ==
    /\ pi_stat_rgst = 1 /\ Fits(job)
    /\ pi_stat_rgst' = 0
    /\ regs' = job
    /\ operands' = [i \in 1 .. job.size |-> 0]
    /\ IF has_operands
       THEN /\ scanning' = TRUE
            /\ pi_last_rslt' = compare(job.cmmd, operands', job.skey,
                                       pi_last_rslt)
            /\ UNCHANGED engine
       ELSE /\ engine' \in accessMemory(engine, FALSE, Chunks(job))
            /\ UNCHANGED <<scanning, pi_last_rslt>>
    /\ UNCHANGED has_operands

sendDataEvent ==
    /\ engine.events > 0
    /\ engine' \in SendEvent(engine)
    /\ UNCHANGED <<pi_stat_rgst, pi_last_rslt, regs, has_operands,
                   operands, scanning>>

retryPort ==
    /\ engine.retry
    /\ engine' \in recvReqRetry(engine)
    /\ UNCHANGED <<pi_stat_rgst, pi_last_rslt, regs, has_operands,
                   operands, scanning>>

-----------------------------------------------------------------------------
(* Mutant: the element is copied to the start of the buffer. *)
Filled_NoOffset(pkt) == [operands EXCEPT ![1] = Memory[pkt.addr]]

(* writeDataToBlock: the element goes where its chunk lies in the burst. *)
Filled(pkt) == [operands EXCEPT ![pkt.addr - regs.addr + 1] = Memory[pkt.addr]]

(* Mutant: the operands are not marked as there, and read again. *)
memCallback_NoFlag(i) ==
    LET pkt == engine.mem[i]
        r   == Completed(engine, pkt)
    IN  /\ operands' = Filled(pkt)
        /\ \/ /\ r = 0
              /\ engine' \in Finished(Popped(engine, i))
           \/ /\ r # 0
              /\ \E e \in accessMemory(Popped(engine, i), FALSE, Chunks(regs)) :
                    engine' \in Finished(Dropped(e, r))
        /\ UNCHANGED <<pi_stat_rgst, regs, has_operands, scanning,
                       pi_last_rslt>>

(***************************************************************************)
(* memCallback; when the burst is complete recvData runs process_fsm,      *)
(* which computes the result at once and schedules the end of the scan.    *)
(***************************************************************************)
memCallback(i) ==
    LET pkt == engine.mem[i]
        r   == Completed(engine, pkt)
    IN  /\ operands' = Filled(pkt)
        /\ \/ /\ r = 0
              /\ UNCHANGED <<has_operands, scanning, pi_last_rslt>>
           \/ /\ r # 0
              /\ has_operands' = TRUE /\ scanning' = TRUE
              /\ pi_last_rslt' = compare(regs.cmmd, operands', regs.skey,
                                         pi_last_rslt)
        /\ engine' \in Finished(Dropped(Popped(engine, i), r))
        /\ UNCHANGED <<pi_stat_rgst, regs>>

response == \E i \in DOMAIN engine.mem : memCallback(i)

(* The event writeBackResultsEvent. *)
writeBackResults ==
    /\ scanning
    /\ pi_stat_rgst' = 1 /\ has_operands' = FALSE /\ scanning' = FALSE
    /\ operands' = <<>>
    /\ UNCHANGED <<engine, pi_last_rslt, regs>>

Next ==
    \/ \E job \in Jobs : writePI(job)
    \/ sendDataEvent
    \/ retryPort
    \/ response
    \/ writeBackResults

Spec == Init /\ [][Next]_vars

(* As for GemminiDevA. *)
FairSpec ==
    /\ Spec
    /\ WF_vars(sendDataEvent) /\ WF_vars(retryPort) /\ WF_vars(response)
    /\ WF_vars(writeBackResults)
    /\ SF_vars(retryPort /\ ~engine'.retry)
-----------------------------------------------------------------------------
(* What the benchmark's software baseline computes for a job. *)
Vector(job) == [i \in 1 .. job.size |-> Memory[job.addr + i - 1]]

baseline(job) ==
    CASE job.cmmd = 0 -> IF \E i \in 1 .. job.size : Vector(job)[i] = job.skey
                         THEN 1 ELSE 0
      [] job.cmmd = 1 -> Cardinality({i \in 1 .. job.size :
                                        Vector(job)[i] = job.skey})
      [] job.cmmd = 2 -> CHOOSE v \in Range(Vector(job)) :
                            \A w \in Range(Vector(job)) : v >= w

(***************************************************************************)
(* When the status register is set after a job, the result register holds  *)
(* what the benchmark's software baseline computes, whatever order the     *)
(* memory answered in and whatever the job before left there.              *)
(***************************************************************************)
ResultMatchesBaseline ==
    regs # NoJob /\ pi_stat_rgst = 1 => pi_last_rslt = baseline(regs)

(***************************************************************************)
(* The device uses the engine as any device may, with one burst at a time. *)
(***************************************************************************)
AnyDevice == INSTANCE NDPAnyDevice
    WITH Bursts <- {Chunks(job) : job \in {j \in Jobs : Fits(j)}},
         MaxBursts <- 1,
         MaxPackets <- 1

(* NDPDevA implements NDPAnyDevice. *)
UsesEngine == AnyDevice!Spec

(* Every job finishes. *)
JobFinishes == (pi_stat_rgst = 0) ~> (pi_stat_rgst = 1)
=============================================================================
