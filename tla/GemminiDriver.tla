--------------------------- MODULE GemminiDriver ---------------------------
(***************************************************************************)
(* The Gemmini Linux driver (gemmini_dev_a_drv.c) on the device of module  *)
(* GemminiDevA.  Processes call its ioctl, which allocates DMA buffers     *)
(* under a mutex, copies the operands in, starts the device, polls it for  *)
(* five seconds, copies the result out and frees the buffers.              *)
(*                                                                         *)
(* guest says who uses the device: the driver, or a program that writes    *)
(* its registers itself, as the repository's benchmarks do.                *)
(*                                                                         *)
(* A matrix element is a number of ElementSize bytes, a u64 a number below *)
(* Mod, and a buffer a run of chunks of the DMA pool.  What a chunk holds  *)
(* is told apart by whose it is.                                           *)
(***************************************************************************)
EXTENDS GemminiDevA

CONSTANTS
    Callers,
    Requests,     \* what they may ask for: [op, m, k]
    DirectJobs,   \* the jobs of a guest that uses the registers itself
    Pool,         \* the chunks that dma_alloc_coherent gives out
    ChunkBytes,   \* NDP::maxRSze
    ElementSize,  \* sizeof(float)
    Mod,          \* 2^64 in the code
    MaxTimeouts   \* bound on the calls that time out

ASSUME DriverAssumption ==
    /\ DirectJobs \subseteq Jobs
    /\ Pool \subseteq Addrs
    /\ {ChunkBytes, ElementSize, Mod} \subseteq Nat \ {0}
    /\ MaxTimeouts \in Nat

None == "none"

ASSUME CallersAssumption == None \notin Callers

Opcodes == {"conv2d", "conv2d_gemm", "conv3d", "conv3d_gemm", "maxpool",
            "maxpool_gemm", "relu", "mm", "mm_gemm"}

(***************************************************************************)
(* The repository's programs pool with a window of two (P_SIZE of          *)
(* gemmini-apps/main.cpp), which the kernel of maxpool_gemm needs: it      *)
(* takes the result's rows for m_size / 2 elements long.                   *)
(***************************************************************************)
ASSUME RequestsAssumption ==
    \A r \in Requests : /\ r \in [op : Opcodes, m : Nat, k : Nat]
                        /\ r.op = "maxpool_gemm" => r.k = 2

VARIABLES
    guest,     \* "driver" or "direct": never changes
    panicked,  \* gem5 has stopped
    lock,      \* gemmini_dev_a_dev::lock: its owner, or None
    pc,        \* where each caller is in the ioctl
    req,       \* its request
    bufs,      \* its buffers m, k and o, <<>> for one it has not
    content,   \* whose data a chunk of the pool holds
    latched,   \* whose data the job in the device has read
    last,      \* history: the last return, until the mutex is taken again
    gaveUp     \* history: how many calls have timed out

driverVars == <<guest, panicked, lock, pc, req, bufs, content, latched, last,
                gaveUp>>

allVars == <<vars, driverVars>>

NoRequest == [op |-> "none", m |-> 0, k |-> 0]

NoReturn == [by |-> None, ret |-> "none", result |-> {}]

NoBufs == [m |-> <<>>, k |-> <<>>, o |-> <<>>]

(* Data of caller c: what it copied in, and what was computed from it. *)
In(c) == <<"in", c>>
Out(c) == <<"out", c>>
Zero == <<"zero", None>>
Junk == <<"junk", None>>

DInit ==
    /\ Init
    /\ guest \in {"driver", "direct"}
    /\ panicked = FALSE /\ lock = None /\ gaveUp = 0
    /\ pc = [c \in Callers |-> "out"]
    /\ req = [c \in Callers |-> NoRequest]
    /\ bufs = [c \in Callers |-> NoBufs]
    /\ last = NoReturn
    /\ content = [a \in Addrs |-> Junk]
    /\ latched = {}

-----------------------------------------------------------------------------
(* gemmini_calc_sizes: the products it forms, in elements.  It fails where *)
(* one does not fit, that is if it is Mod or more, or k does not divide m. *)
Square(n) == n * n
Cube(n) == n * n * n

(* Mutant: a GEMM convolution has the operand of a plain one. *)
DriverElems_NoGemm(r) ==
    CASE r.op \in {"conv2d", "conv2d_gemm"} ->
            [m |-> Square(r.m), k |-> Square(r.k), o |-> Square(r.m)]
      [] r.op = "conv3d" -> [m |-> Cube(r.m), k |-> Cube(r.k), o |-> Cube(r.m)]
      [] r.op = "conv3d_gemm" -> [m |-> Cube(r.m) * Cube(r.k), k |-> Cube(r.k),
                                  o |-> Cube(r.m)]
      [] r.op \in {"maxpool", "maxpool_gemm"} ->
            [m |-> Square(r.m), k |-> 0, o |-> Square(r.m \div r.k)]
      [] r.op = "relu" -> [m |-> Square(r.m), k |-> 0, o |-> Square(r.m)]
      [] r.op \in {"mm", "mm_gemm"} -> [m |-> Square(r.m), k |-> Square(r.m),
                                        o |-> Square(r.m)]

DriverElems(r) ==
    CASE r.op = "conv2d" -> [m |-> Square(r.m), k |-> Square(r.k),
                             o |-> Square(r.m)]
      [] r.op = "conv2d_gemm" -> [m |-> Square(r.m) * Square(r.k),
                                  k |-> Square(r.k), o |-> Square(r.m)]
      [] r.op = "conv3d" -> [m |-> Cube(r.m), k |-> Cube(r.k), o |-> Cube(r.m)]
      [] r.op = "conv3d_gemm" -> [m |-> Cube(r.m) * Cube(r.k), k |-> Cube(r.k),
                                  o |-> Cube(r.m)]
      [] r.op \in {"maxpool", "maxpool_gemm"} ->
            [m |-> Square(r.m), k |-> 0, o |-> Square(r.m \div r.k)]
      [] r.op = "relu" -> [m |-> Square(r.m), k |-> 0, o |-> Square(r.m)]
      [] r.op \in {"mm", "mm_gemm"} -> [m |-> Square(r.m), k |-> Square(r.m),
                                        o |-> Square(r.m)]

UsesK(r) == r.op \notin {"relu", "mm", "mm_gemm"}

Accepted(r) ==
    /\ r.m # 0 /\ (UsesK(r) => r.k # 0)
    /\ r.op \in {"maxpool", "maxpool_gemm"} => r.m % r.k = 0
    /\ DriverElems(r).m * ElementSize < Mod
    /\ DriverElems(r).k * ElementSize < Mod
    /\ DriverElems(r).o * ElementSize < Mod

(* The bytes of n elements per matrix, and the chunks they lie in. *)
Bytes(n) == [m |-> (n.m * ElementSize) % Mod, k |-> (n.k * ElementSize) % Mod,
             o |-> (n.o * ElementSize) % Mod]

Chunks(n) == (n + ChunkBytes - 1) \div ChunkBytes

ChunksIn(n) == [m |-> Chunks(n.m), k |-> Chunks(n.k), o |-> Chunks(n.o)]

DriverChunks == [r \in {q \in Requests : Accepted(q)} |-> ChunksIn(Bytes(DriverElems(r)))]

-----------------------------------------------------------------------------
(* What writePI computes from the registers when the job is started, in    *)
(* elements and before it wraps, and the bytes after.                      *)
DeviceElems(r) ==
    CASE r.op = "conv2d" -> [m |-> Square(r.m), k |-> Square(r.k),
                             o |-> Square(r.m)]
      [] r.op = "conv2d_gemm" -> [m |-> r.m * r.m * r.k * r.k,
                                  k |-> Square(r.k), o |-> Square(r.m)]
      [] r.op = "conv3d" -> [m |-> Cube(r.m), k |-> Cube(r.k), o |-> Cube(r.m)]
      [] r.op = "conv3d_gemm" -> [m |-> Cube(r.m) * r.k * r.k * r.k,
                                  k |-> Cube(r.k), o |-> Cube(r.m)]
      [] r.op \in {"maxpool", "maxpool_gemm"} ->
            [m |-> Square(r.m), k |-> 0,
             o |-> ((Square(r.m) % Mod) \div r.k) \div r.k]
      [] r.op = "relu" -> [m |-> Square(r.m), k |-> 0, o |-> Square(r.m)]
      [] r.op \in {"mm", "mm_gemm"} -> [m |-> Square(r.m), k |-> Square(r.m),
                                        o |-> Square(r.m)]

DeviceBytes(r) == Bytes(DeviceElems(r))

(* The elements that the kernel of an opcode touches: what its loops run   *)
(* over, whatever the sizes above have wrapped to.                         *)
KernelElems(r) ==
    CASE r.op = "maxpool" -> [DeviceElems(r) EXCEPT !.o = Square(r.m \div r.k)]
      [] r.op = "maxpool_gemm" ->
            LET top == r.m \div r.k - 1
            IN  [DeviceElems(r) EXCEPT !.o = (top * r.m) \div 2 + top + 1]
      [] OTHER -> DeviceElems(r)

DeviceChunks == [r \in DOMAIN DriverChunks |-> ChunksIn(DeviceBytes(r))]

(* The run of n chunks from a on. *)
Run(a, n) == [i \in 1 .. n |-> a + i - 1]

(* The job the device performs for request r with buffers b: its sizes are *)
(* the device's own.                                                       *)
JobOf(r, b) ==
    LET n == DeviceChunks[r]
    IN  [m |-> Run(Head(b.m), n.m),
         k |-> IF n.k = 0 THEN <<>> ELSE Run(Head(b.k), n.k),
         o |-> Run(Head(b.o), n.o)]

-----------------------------------------------------------------------------
UsedBy(c) == Range(bufs[c].m) \cup Range(bufs[c].k) \cup Range(bufs[c].o)

Allocated == UNION {UsedBy(c) : c \in Callers}

(* dma_alloc_coherent (external) of n chunks: the first run that is free,  *)
(* so that a buffer is used again as soon as it is freed.                  *)
Runs(n, used) ==
    LET free == {a \in Pool : Range(Run(a, n)) \subseteq Pool \ used}
    IN  IF free = {} THEN {} ELSE {Run(Min(free), n)}

(* The buffers for m, for k if there is one, and for o. *)
Allocations(r) ==
    LET n == DriverChunks[r]
    IN  UNION {UNION {{[m |-> m, k |-> k, o |-> o] :
                           o \in Runs(n.o, Allocated \cup Range(m) \cup Range(k))} :
                      k \in IF n.k = 0 THEN {<<>>}
                            ELSE Runs(n.k, Allocated \cup Range(m))} :
               m \in Runs(n.m, Allocated)}

Goto(c, label) == pc' = [pc EXCEPT ![c] = label]

(* The label out of the ioctl, with the return value r and what has been   *)
(* copied out.  What a freed chunk holds no longer matters.                *)
Leave(c, r, out) ==
    /\ bufs' = [bufs EXCEPT ![c] = NoBufs]
    /\ lock' = None
    /\ Goto(c, "out")
    /\ last' = [by |-> c, ret |-> r, result |-> out]
    /\ req' = [req EXCEPT ![c] = NoRequest]
    /\ content' = [a \in Addrs |-> IF a \in UsedBy(c) THEN Junk ELSE content[a]]

deviceVars == <<vars, latched>>

(* The ioctl up to mutex_lock; a request that is refused changes nothing. *)
Ioctl(c) ==
    /\ pc[c] = "out"
    /\ \E r \in Requests :
         /\ Accepted(r)
         /\ Goto(c, "lock") /\ req' = [req EXCEPT ![c] = r]
    /\ UNCHANGED <<deviceVars, guest, panicked, lock, bufs, content, last, gaveUp>>

(* Mutant: the ioctl does not take the mutex. *)
Lock_Skipped(c) ==
    /\ pc[c] = "lock"
    /\ last' = NoReturn
    /\ Goto(c, "alloc")
    /\ UNCHANGED <<deviceVars, guest, panicked, lock, req, bufs, content, gaveUp>>

Lock(c) ==
    /\ pc[c] = "lock" /\ lock = None
    /\ lock' = c /\ last' = NoReturn
    /\ Goto(c, "alloc")
    /\ UNCHANGED <<deviceVars, guest, panicked, req, bufs, content, gaveUp>>

(* The allocations; any of them may fail. *)
Alloc(c) ==
    /\ pc[c] = "alloc"
    /\ \/ /\ \E b \in Allocations(req[c]) : bufs' = [bufs EXCEPT ![c] = b]
          /\ Goto(c, "copy")
          /\ UNCHANGED <<lock, req, content, last>>
       \/ Leave(c, "ENOMEM", {})
    /\ UNCHANGED <<deviceVars, guest, panicked, gaveUp>>

(* Mutant: an ioctl that cannot copy its operands begins again. *)
Copy_Retried(c) ==
    /\ pc[c] = "copy"
    /\ \/ /\ content' = [a \in Addrs |->
                            IF a \in Range(bufs[c].m) \cup Range(bufs[c].k) THEN In(c)
                            ELSE IF a \in Range(bufs[c].o) THEN Zero
                            ELSE content[a]]
          /\ Goto(c, "start")
          /\ UNCHANGED bufs
       \/ /\ Goto(c, "alloc")
          /\ bufs' = [bufs EXCEPT ![c] = NoBufs]
          /\ UNCHANGED content
    /\ UNCHANGED <<deviceVars, guest, panicked, lock, req, last, gaveUp>>

(* The operands are copied in and the result is cleared; any copy may      *)
(* fail.                                                                   *)
Copy(c) ==
    /\ pc[c] = "copy"
    /\ \/ /\ content' = [a \in Addrs |->
                            IF a \in Range(bufs[c].m) \cup Range(bufs[c].k) THEN In(c)
                            ELSE IF a \in Range(bufs[c].o) THEN Zero
                            ELSE content[a]]
          /\ Goto(c, "start")
          /\ UNCHANGED <<lock, req, bufs, last>>
       \/ Leave(c, "EFAULT", {})
    /\ UNCHANGED <<deviceVars, guest, panicked, gaveUp>>

(* The writes of the seven registers.  Any write to a device that has a    *)
(* job in progress is a panic.                                             *)
Start(c) ==
    /\ pc[c] = "start"
    /\ \/ /\ writePI(JobOf(req[c], bufs[c]))
          /\ latched' = {}
          /\ Goto(c, "wait")
          /\ UNCHANGED panicked
       \/ /\ pi_status = 0
          /\ panicked' = TRUE
          /\ UNCHANGED <<deviceVars, pc>>
    /\ UNCHANGED <<guest, lock, req, bufs, content, last, gaveUp>>

(* Mutant: the status register is not waited for. *)
Done_TooEarly(c) ==
    /\ pc[c] = "wait"
    /\ \/ Leave(c, "ok", {content[a] : a \in Range(bufs[c].o)})
       \/ Leave(c, "EFAULT", {})
    /\ UNCHANGED <<deviceVars, guest, panicked, gaveUp>>

(* gemmini_wait_done has seen the status register set: the result is       *)
(* copied out, which may fail.                                             *)
Done(c) ==
    /\ pc[c] = "wait" /\ pi_status = 1
    /\ \/ Leave(c, "ok", {content[a] : a \in Range(bufs[c].o)})
       \/ Leave(c, "EFAULT", {})
    /\ UNCHANGED <<deviceVars, guest, panicked, gaveUp>>

(* Five seconds are over: the buffers are freed under the job. *)
GiveUp(c) ==
    /\ pc[c] = "wait" /\ pi_status = 0
    /\ gaveUp < MaxTimeouts
    /\ gaveUp' = gaveUp + 1
    /\ Leave(c, "ETIMEDOUT", {})
    /\ UNCHANGED <<deviceVars, guest, panicked>>

Driver(c) == Lock(c) \/ Alloc(c) \/ Copy(c) \/ Start(c) \/ Done(c)

-----------------------------------------------------------------------------
(* What the kernels compute from the operands that were read. *)
Computed ==
    IF \E c \in Callers : latched = {In(c)}
    THEN Out(CHOOSE c \in Callers : latched = {In(c)}) ELSE Junk

(* The memory performs a packet, and the device's handler runs. *)
Response(i) ==
    LET pkt == engine.mem[i]
    IN  /\ memCallback(i)
        /\ IF guest = "direct" THEN UNCHANGED <<content, latched>>
           ELSE IF pkt.write
           THEN /\ content' = [content EXCEPT ![pkt.addr] = Computed]
                /\ UNCHANGED latched
           ELSE /\ latched' = latched \cup {content[pkt.addr]}
                /\ UNCHANGED content
        /\ UNCHANGED <<guest, panicked, lock, pc, req, bufs, last, gaveUp>>

Responses == \E i \in DOMAIN engine.mem : Response(i)

Engine == (sendDataEvent \/ retryPort) /\ UNCHANGED driverVars

(* A program that uses the registers itself. *)
Direct ==
    /\ guest = "direct"
    /\ \E job \in DirectJobs : writePI(job)
    /\ UNCHANGED driverVars

(* gem5 has stopped. *)
Ended == panicked /\ UNCHANGED allVars

DNext ==
    \/ /\ ~panicked
       /\ \/ /\ guest = "driver"
             /\ \E c \in Callers : Ioctl(c) \/ Driver(c) \/ GiveUp(c)
          \/ Direct
          \/ Engine
          \/ Responses
    \/ Ended

DSpec == DInit /\ [][DNext]_allVars

(***************************************************************************)
(* Fairness.  The device's as in GemminiDevA; the kernel runs a process    *)
(* that is in the ioctl, and the mutex does not starve a waiter.  Nothing  *)
(* is assumed of the timeout.                                              *)
(***************************************************************************)
Live(A) == ~panicked /\ A

DFairSpec ==
    /\ DSpec
    /\ WF_allVars(Live(sendDataEvent /\ UNCHANGED driverVars))
    /\ WF_allVars(Live(retryPort /\ UNCHANGED driverVars))
    /\ SF_allVars(Live(retryPort /\ ~engine'.retry /\ UNCHANGED driverVars))
    /\ WF_allVars(Live(Responses))
    /\ \A c \in Callers : /\ SF_allVars(Live(Lock(c)))
                          /\ WF_allVars(Live(Driver(c)))

-----------------------------------------------------------------------------
Holders == {c \in Callers : pc[c] \in {"alloc", "copy", "start", "wait"}}

DTypeOK ==
    /\ TypeOK
    /\ lock \in Callers \cup {None}
    /\ latched \subseteq {In(c) : c \in Callers} \cup {Out(c) : c \in Callers}
                          \cup {Zero, Junk}

(***************************************************************************)
(* The device panics on a write of any register during a job.  The mutex   *)
(* and the poll keep the driver from it, unless a call has timed out.      *)
(***************************************************************************)
NoPanic == panicked => gaveUp > 0

(***************************************************************************)
(* The device, which computes the sizes of its bursts by itself, reads     *)
(* only the operands and writes only the result of the call in progress:   *)
(* its arithmetic agrees with gemmini_calc_sizes and no buffer is freed    *)
(* under it, unless a call has timed out.                                  *)
(***************************************************************************)
DmaInBuffers ==
    guest = "driver" /\ gaveUp = 0 =>
        \A p \in Outstanding :
            \E c \in Holders :
                p.addr \in IF p.write THEN Range(bufs[c].o)
                           ELSE Range(bufs[c].m) \cup Range(bufs[c].k)

(***************************************************************************)
(* The matrices that the kernel will run over fit the memory that the      *)
(* device allocates for them, although its sizes wrap around at 2^64.      *)
(***************************************************************************)
KernelInBounds ==
    \A c \in Callers : pc[c] = "wait" =>
        /\ KernelElems(req[c]).m * ElementSize <= DeviceBytes(req[c]).m
        /\ KernelElems(req[c]).k * ElementSize <= DeviceBytes(req[c]).k
        /\ KernelElems(req[c]).o * ElementSize <= DeviceBytes(req[c]).o

(* A call that succeeds returns the result of its own operands, all of it. *)
ResultIsOwn ==
    gaveUp = 0 /\ last.ret = "ok" => last.result = {Out(last.by)}

(* No path out of the ioctl leaves a buffer behind. *)
NothingLeaked == Allocated \subseteq UNION {UsedBy(c) : c \in Holders}

(* A call returns, also if it never times out. *)
CallReturns == \A c \in Callers : pc[c] = "lock" ~> (pc[c] = "out" \/ panicked)
=============================================================================
