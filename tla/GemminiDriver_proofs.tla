------------------------ MODULE GemminiDriver_proofs ------------------------
(***************************************************************************)
(* The Gemmini driver on its device, for every set of callers, every       *)
(* request, word width, chunk and pool.  As long as no call has timed out  *)
(* the driver keeps the device from a panic, its DMA in the buffers and    *)
(* the results with the callers they belong to.                            *)
(***************************************************************************)
EXTENDS GemminiDriver, GemminiDevA_proofs

-----------------------------------------------------------------------------
(* The arithmetic of driver, device and kernels. *)

LEMMA Divides ==
    ASSUME NEW m \in Nat, NEW k \in Nat \ {0}, m % k = 0
    PROVE  /\ m \div k \in Nat /\ m = k * (m \div k)
           /\ ((m * m) \div k) \div k = (m \div k) * (m \div k)
<1> DEFINE q == m \div k
<1>1. q \in Nat /\ m = k * q
  BY Z3
<1> HIDE DEF q
<1>2. \A x \in Nat : (k * x) \div k = x
  BY Z3
<1>3. m * m = k * (k * (q * q)) /\ k * (q * q) \in Nat /\ q * q \in Nat
  BY <1>1, Z3
<1>4. ((m * m) \div k) \div k = q * q
  BY <1>2, <1>3
<1> QED  BY <1>1, <1>4 DEF q

(* The device computes the sizes of the driver, although it groups the     *)
(* products in another way and does not check them.                        *)
LEMMA ElementsAgree ==
    ASSUME NEW r \in Requests, Accepted(r)
    PROVE  /\ DeviceElems(r) = DriverElems(r)
           /\ DriverElems(r) \in [m : Nat \ {0}, k : Nat, o : Nat \ {0}]
           /\ KernelElems(r) = DriverElems(r)
<1>1. /\ r.op \in Opcodes /\ r.m \in Nat /\ r.k \in Nat
      /\ r.op = "maxpool_gemm" => r.k = 2
  BY RequestsAssumption
<1>2. r.m # 0 /\ (UsesK(r) => r.k # 0) /\ ElementSize \in Nat \ {0} /\ Mod \in Nat \ {0}
  BY DriverAssumption DEF Accepted
<1>3. ASSUME NEW x \in Nat \ {0}, NEW y \in Nat \ {0}
      PROVE  /\ x * y \in Nat \ {0} /\ x * y * x * y = x * x * (y * y)
             /\ x * x * y * y = x * x * (y * y)
             /\ x * x * x * y * y * y = x * x * x * (y * y * y)
  BY Z3
<1>4. CASE r.op \in {"maxpool", "maxpool_gemm"}
  <2> DEFINE q == r.m \div r.k
  <2>1. r.k \in Nat \ {0} /\ r.m % r.k = 0
    BY <1>1, <1>2, <1>4 DEF UsesK, Accepted
  <2>2. q \in Nat /\ r.m = r.k * q /\ ((r.m * r.m) \div r.k) \div r.k = q * q
    BY <1>1, <2>1, Divides
  <2>3. q # 0
    BY <1>2, <2>1, <2>2
  <2>4. DriverElems(r) = [m |-> r.m * r.m, k |-> 0, o |-> q * q]
    BY <1>4 DEF DriverElems, Square
  <2>5. r.m * r.m \in Nat \ {0} /\ q * q \in Nat \ {0}
    BY <1>1, <1>2, <1>3, <2>2, <2>3
  <2>6. (r.m * r.m) % Mod = r.m * r.m
    <3>1. (r.m * r.m) * ElementSize < Mod
      BY <2>4 DEF Accepted
    <3>2. \A x \in Nat, y \in Nat \ {0} : x <= x * y
      BY Z3
    <3>3. r.m * r.m < Mod
      BY <1>2, <2>5, <3>1, <3>2
    <3> QED  BY <1>2, <2>5, <3>3
  <2>7. DeviceElems(r) = [m |-> r.m * r.m, k |-> 0, o |-> q * q]
    BY <1>4, <2>2, <2>6 DEF DeviceElems, Square
  <2>8. CASE r.op = "maxpool"
    <3>1. KernelElems(r) = [DeviceElems(r) EXCEPT !.o = q * q]
      BY <2>8 DEF KernelElems, Square
    <3> QED  BY <2>4, <2>5, <2>7, <3>1
  <2>9. CASE r.op = "maxpool_gemm"
    <3>1. r.k = 2 /\ r.m = 2 * q
      BY <1>1, <2>2, <2>9
    <3>2. ((q - 1) * r.m) \div 2 + (q - 1) + 1 = q * q
      <4> HIDE DEF q
      <4>1. (q - 1) * (2 * q) = 2 * ((q - 1) * q) /\ (q - 1) * q \in Nat
        BY <2>2, <2>3, Z3
      <4>2. \A x \in Nat : (2 * x) \div 2 = x
        BY Z3
      <4>3. (q - 1) * q + (q - 1) + 1 = q * q
        BY <2>2, <2>3, Z3
      <4> QED  BY <3>1, <4>1, <4>2, <4>3
    <3>3. KernelElems(r) = [DeviceElems(r) EXCEPT !.o = q * q]
      BY <2>9, <3>2 DEF KernelElems
    <3> QED  BY <2>4, <2>5, <2>7, <3>3
  <2> QED  BY <1>4, <2>8, <2>9
<1>5. CASE r.op \in {"conv2d_gemm", "conv3d_gemm", "conv2d", "conv3d"}
  <2> DEFINE mm == r.m * r.m
             kk == r.k * r.k
  <2>1. r.k \in Nat \ {0} /\ r.m \in Nat \ {0}
    BY <1>1, <1>2, <1>5 DEF UsesK
  <2>2. /\ mm \in Nat \ {0} /\ kk \in Nat \ {0}
        /\ mm * r.m \in Nat \ {0} /\ kk * r.k \in Nat \ {0}
    BY <1>3, <2>1
  <2>3. mm * kk \in Nat \ {0} /\ (mm * r.m) * (kk * r.k) \in Nat \ {0}
    <3> HIDE DEF mm, kk
    <3> QED  BY <1>3, <2>2
  <2>4. /\ r.m * r.m * r.k * r.k = mm * kk
        /\ r.m * r.m * r.m * r.k * r.k * r.k = (mm * r.m) * (kk * r.k)
    BY <1>3, <2>1
  <2>5. /\ DeviceElems(r) = DriverElems(r)
        /\ DriverElems(r) \in [m : Nat \ {0}, k : Nat, o : Nat \ {0}]
    BY <1>5, <2>2, <2>3, <2>4 DEF DeviceElems, DriverElems, Square, Cube
  <2> QED  BY <1>5, <2>5 DEF KernelElems
<1>6. CASE r.op \in {"relu", "mm", "mm_gemm"}
  <2>1. r.m * r.m \in Nat \ {0}
    BY <1>1, <1>2, <1>3
  <2> QED  BY <1>6, <2>1 DEF DeviceElems, DriverElems, KernelElems, Square
<1> QED  BY <1>1, <1>4, <1>5, <1>6 DEF Opcodes

(* So the bytes, and the chunks of the DMA, are the same as well. *)
LEMMA SizesAgree ==
    ASSUME NEW r \in Requests, Accepted(r)
    PROVE  /\ DeviceBytes(r).m = KernelElems(r).m * ElementSize
           /\ DeviceBytes(r).k = KernelElems(r).k * ElementSize
           /\ DeviceBytes(r).o = KernelElems(r).o * ElementSize
           /\ DeviceChunks[r] = DriverChunks[r]
           /\ DriverChunks[r] \in [m : Nat \ {0}, k : Nat, o : Nat \ {0}]
<1> DEFINE n == DriverElems(r)
<1>1. /\ DeviceElems(r) = n /\ KernelElems(r) = n
      /\ n \in [m : Nat \ {0}, k : Nat, o : Nat \ {0}]
  BY ElementsAgree
<1>2. /\ n.m * ElementSize < Mod /\ n.k * ElementSize < Mod
      /\ n.o * ElementSize < Mod
  BY DEF Accepted
<1> HIDE DEF n
<1>3. ElementSize \in Nat \ {0} /\ Mod \in Nat \ {0} /\ ChunkBytes \in Nat \ {0}
  BY DriverAssumption
<1>4. ASSUME NEW x \in Nat, x * ElementSize < Mod
      PROVE  (x * ElementSize) % Mod = x * ElementSize /\ x * ElementSize \in Nat
             /\ (x # 0 => x * ElementSize # 0)
  BY <1>3, <1>4, Z3
<1>5. /\ Bytes(n) = [m |-> n.m * ElementSize, k |-> n.k * ElementSize,
                     o |-> n.o * ElementSize]
      /\ Bytes(n) \in [m : Nat \ {0}, k : Nat, o : Nat \ {0}]
  BY <1>1, <1>2, <1>4 DEF Bytes
<1>6. ASSUME NEW x \in Nat
      PROVE  Chunks(x) \in Nat /\ (x # 0 => Chunks(x) # 0)
  BY <1>3, Z3 DEF Chunks
<1>7. r \in {q \in Requests : Accepted(q)}
  OBVIOUS
<1>8. DriverChunks[r] = ChunksIn(Bytes(n)) /\ DeviceChunks[r] = ChunksIn(Bytes(n))
  BY <1>1, <1>7, Zenon DEF DriverChunks, DeviceChunks, DeviceBytes, n
<1>9. ChunksIn(Bytes(n)) \in [m : Nat \ {0}, k : Nat, o : Nat \ {0}]
  BY <1>5, <1>6 DEF ChunksIn
<1> QED  BY <1>1, <1>5, <1>8, <1>9 DEF DeviceBytes

-----------------------------------------------------------------------------
(* Buffers. *)

Buffers == [m : Seq(Addrs), k : Seq(Addrs), o : Seq(Addrs)]

(* Buffers b fit request r: the device's job lies in them, and the result  *)
(* apart from the operands.                                                *)
Fit(r, b) ==
    /\ b \in Buffers /\ IsJob(b) /\ JobOf(r, b) = b
    /\ Range(b.o) \cap (Range(b.m) \cup Range(b.k)) = {}

(* A run of chunks of the pool. *)
LEMMA RunFacts ==
    ASSUME NEW a \in Nat, NEW n \in Nat \ {0}, Range(Run(a, n)) \subseteq Pool
    PROVE  /\ Run(a, n) \in Seq(Addrs) /\ IsBurst(Run(a, n))
           /\ IsInjective(Run(a, n)) /\ Head(Run(a, n)) = a
<1> DEFINE s == Run(a, n)
<1>1. DOMAIN s = 1 .. n /\ \A i \in 1 .. n : s[i] = a + i - 1
  BY DEF Run
<1>2. \A i \in 1 .. n : s[i] \in Addrs
  BY <1>1, DriverAssumption DEF Range
<1>3. s \in [1 .. n -> Addrs]
  BY <1>2 DEF Run
<1> HIDE DEF s
<1>4. s \in Seq(Addrs) /\ Len(s) = n
  BY <1>3, ListOf
<1>5. IsBurst(s)
  BY <1>1, <1>2, <1>4 DEF IsBurst
<1>6. IsInjective(s)
  BY <1>1 DEF IsInjective
<1>7. Head(s) = a
  BY <1>1, <1>4
<1> QED  BY <1>4, <1>5, <1>6, <1>7 DEF s

(* The allocator's first free run. *)
LEMMA RunsFacts ==
    ASSUME NEW n \in Nat \ {0}, NEW used, NEW s \in Runs(n, used)
    PROVE  \E a \in Nat : s = Run(a, n) /\ Range(s) \subseteq Pool \ used
<1> DEFINE free == {a \in Pool : Range(Run(a, n)) \subseteq Pool \ used}
<1>1. free # {} /\ s = Run(Min(free), n)
  BY DEF Runs
<1>2. free \subseteq Nat
  BY DriverAssumption, AddrAssumption
<1>3. Min(free) \in free
  <2> HIDE DEF free
  <2>1. PICK x \in free : \A y \in free : ~(<<y, x>> \in OpToRel(<, Nat))
    BY <1>1, <1>2, NatLessThanWellFounded, WFMin
  <2>2. \A y \in free : ~(y < x)
    <3>1. \A y \in Nat : y < x => <<y, x>> \in OpToRel(<, Nat)
      BY <1>2, Zenon DEF OpToRel
    <3> QED  BY <1>2, <2>1, <3>1
  <2>3. \A y \in free : x <= y
    BY <1>2, <2>2
  <2> QED  BY <2>3, Zenon DEF Min
<1> QED  BY <1>1, <1>2, <1>3

LEMMA AllocationsFit ==
    ASSUME NEW r \in Requests, Accepted(r), NEW b \in Allocations(r)
    PROVE  Fit(r, b)
<1> DEFINE n == DriverChunks[r]
<1>1. n \in [m : Nat \ {0}, k : Nat, o : Nat \ {0}] /\ DeviceChunks[r] = n
  BY SizesAgree
<1> DEFINE ks(m) == IF n.k = 0 THEN {<<>>} ELSE Runs(n.k, Allocated \cup Range(m))
           os(m, k) == Runs(n.o, Allocated \cup Range(m) \cup Range(k))
           made(m, k) == {[m |-> m, k |-> k, o |-> o] : o \in os(m, k)}
<1>2. Allocations(r) = UNION {UNION {made(m, k) : k \in ks(m)} : m \in Runs(n.m, Allocated)}
  BY DEF Allocations
<1> HIDE DEF n
<1>3. PICK m \in Runs(n.m, Allocated) : b \in UNION {made(m, k) : k \in ks(m)}
  <2> HIDE DEF ks, made
  <2> QED  BY <1>2
<1>4. PICK k \in ks(m) : b \in made(m, k)
  <2> HIDE DEF ks, made
  <2> QED  BY <1>3
<1>5. PICK o \in os(m, k) : b = [m |-> m, k |-> k, o |-> o]
  BY <1>4
<1>6. PICK x \in Nat : m = Run(x, n.m) /\ Range(m) \subseteq Pool \ Allocated
  BY <1>1, <1>3, RunsFacts
<1>7. PICK z \in Nat : /\ o = Run(z, n.o)
                       /\ Range(o) \subseteq Pool \ (Allocated \cup Range(m) \cup Range(k))
  BY <1>1, <1>5, RunsFacts
<1>8. m \in Seq(Addrs) /\ IsBurst(m) /\ IsInjective(m) /\ Head(m) = x
  BY <1>1, <1>6, RunFacts
<1>9. o \in Seq(Addrs) /\ IsBurst(o) /\ IsInjective(o) /\ Head(o) = z
  BY <1>1, <1>7, RunFacts
<1>10. /\ k \in Seq(Addrs)
       /\ k = <<>> \/ (IsBurst(k) /\ IsInjective(k))
       /\ k = IF n.k = 0 THEN <<>> ELSE Run(Head(k), n.k)
  <2>1. CASE n.k = 0
    BY <1>4, <2>1
  <2>2. CASE n.k # 0
    <3>1. PICK y \in Nat : k = Run(y, n.k) /\ Range(k) \subseteq Pool \ (Allocated \cup Range(m))
      BY <1>1, <1>4, <2>2, RunsFacts
    <3>2. k \in Seq(Addrs) /\ IsBurst(k) /\ IsInjective(k) /\ Head(k) = y
      BY <1>1, <2>2, <3>1, RunFacts
    <3> QED  BY <2>2, <3>1, <3>2
  <2> QED  BY <2>1, <2>2
<1>11. b.m = m /\ b.k = k /\ b.o = o /\ b \in Buffers
  <2>1. b.m = m /\ b.k = k /\ b.o = o
    BY <1>5
  <2>2. m \in Seq(Addrs) /\ k \in Seq(Addrs) /\ o \in Seq(Addrs)
    BY <1>8, <1>9, <1>10
  <2>3. b \in Buffers
    BY <1>5, <2>2 DEF Buffers
  <2> QED  BY <2>1, <2>3
<1>12. JobOf(r, b) = [m |-> Run(Head(m), n.m),
                      k |-> IF n.k = 0 THEN <<>> ELSE Run(Head(k), n.k),
                      o |-> Run(Head(o), n.o)]
  BY <1>1, <1>11, Zenon DEF JobOf
<1>13. JobOf(r, b) = b
  BY <1>5, <1>6, <1>7, <1>8, <1>9, <1>10, <1>12, Zenon
<1>14. IsJob(b)
  BY <1>8, <1>9, <1>10, <1>11 DEF IsJob
<1>15. Range(b.o) \cap (Range(b.m) \cup Range(b.k)) = {}
  BY <1>7, <1>11
<1> QED  BY <1>11, <1>13, <1>14, <1>15 DEF Fit

-----------------------------------------------------------------------------
(***************************************************************************)
(* The inductive invariant.  Its control part: the mutex admits one caller *)
(* to the section that owns buffers and device; what the owner has agrees  *)
(* with where it is; and, until a call times out, a job in the device is   *)
(* the job of a caller that waits for it.                                  *)
(***************************************************************************)
Held == {"alloc", "copy", "start", "wait"}

CallerInv(c) ==
    /\ pc[c] \in Held => lock = c
    /\ pc[c] \in {"out", "lock", "alloc"} => bufs[c] = NoBufs
    /\ pc[c] # "out" => req[c] \in Requests /\ Accepted(req[c])
    /\ pc[c] \in {"copy", "start", "wait"} => Fit(req[c], bufs[c])
    /\ pc[c] = "wait" /\ gaveUp = 0 => regs = bufs[c]

DriverInv ==
    /\ guest \in {"driver", "direct"} /\ gaveUp \in Nat
    /\ pc \in [Callers -> {"out", "lock"} \cup Held]
    /\ req \in [Callers -> Requests \cup {NoRequest}]
    /\ bufs \in [Callers -> Buffers]
    /\ \A c \in Callers : CallerInv(c)
    /\ guest = "direct" => \A c \in Callers : pc[c] = "out"
    /\ panicked => gaveUp > 0
    /\ guest = "driver" /\ gaveUp = 0 /\ pi_status = 0 =>
            \E c \in Callers : pc[c] = "wait"

(* Its data part: what the chunks of the caller in the section hold, and   *)
(* what the device has read of them.                                       *)
Values == {In(c) : c \in Callers} \cup {Out(c) : c \in Callers} \cup {Zero, Junk}

OperandsIn(c) ==
    \A a \in Range(bufs[c].m) \cup Range(bufs[c].k) : content[a] = In(c)

Progress(c) ==
    /\ latched \subseteq {In(c)}
    /\ has_operands # 0 => latched = {In(c)}
    /\ \A a \in written : content[a] = Out(c)

DataInv ==
    /\ content \in [Addrs -> Values]
    /\ guest = "driver" /\ gaveUp = 0 =>
            \A c \in Callers : /\ pc[c] \in {"start", "wait"} => OperandsIn(c)
                               /\ pc[c] = "wait" => Progress(c)
    /\ ResultIsOwn

GInv == DevInv /\ DriverInv /\ DataInv

LEMMA InitG == DInit => GInv
<1> SUFFICES ASSUME DInit PROVE GInv
  OBVIOUS
<1>1. DevInv /\ pi_status = 1
  BY InitDev DEF DInit, Init
<1>2. NoBufs \in Buffers
  BY DEF NoBufs, Buffers
<1>3. DriverInv
  BY <1>1, <1>2 DEF DInit, DriverInv, CallerInv, Held
<1>4. DataInv
  BY DEF DInit, DataInv, Values, ResultIsOwn, NoReturn
<1> QED  BY <1>1, <1>3, <1>4 DEF GInv

(* The way out of the section, whatever the reason. *)
LEMMA LeaveStep ==
    ASSUME GInv, guest = "driver", NEW c \in Callers, pc[c] \in Held,
           NEW r, NEW out, Leave(c, r, out),
           UNCHANGED <<deviceVars, guest, panicked>>,
           gaveUp' \in Nat, gaveUp' = 0 => gaveUp = 0,
           pc[c] = "wait" /\ pi_status = 0 => gaveUp' > 0,
           r = "ok" /\ gaveUp' = 0 => out = {Out(c)}
    PROVE  GInv'
<1>1. /\ bufs' = [bufs EXCEPT ![c] = NoBufs] /\ pc' = [pc EXCEPT ![c] = "out"]
      /\ req' = [req EXCEPT ![c] = NoRequest] /\ lock' = None
      /\ last' = [by |-> c, ret |-> r, result |-> out]
      /\ content' = [a \in Addrs |-> IF a \in UsedBy(c) THEN Junk ELSE content[a]]
      /\ UNCHANGED <<engine, pi_status, has_operands, regs, written, latched,
                     guest, panicked>>
  BY DEF Leave, Goto, deviceVars, vars
<1>2. DevInv'
  BY <1>1 DEF GInv, DevInv
<1>3. \A d \in Callers : pc[d] \in Held => d = c
  BY DEF GInv, DriverInv, CallerInv
<1>4. NoBufs \in Buffers
  BY DEF NoBufs, Buffers
<1>5. \A d \in Callers : d # c => pc'[d] = pc[d] /\ bufs'[d] = bufs[d] /\ req'[d] = req[d]
  BY <1>1 DEF GInv, DriverInv
<1>6. pc'[c] = "out" /\ bufs'[c] = NoBufs
  BY <1>1 DEF GInv, DriverInv
<1>7. \A d \in Callers : pc'[d] \notin Held
  BY <1>3, <1>5, <1>6 DEF Held
<1>8. ASSUME NEW d \in Callers PROVE CallerInv(d)'
  BY <1>5, <1>6, <1>7 DEF GInv, DriverInv, CallerInv, Held
<1>9. gaveUp' = 0 => pi_status' # 0
  BY <1>1, <1>3 DEF GInv, DriverInv, Held
<1>10. DriverInv'
  <2>1. /\ pc' \in [Callers -> {"out", "lock"} \cup Held]
        /\ req' \in [Callers -> Requests \cup {NoRequest}]
        /\ bufs' \in [Callers -> Buffers]
    BY <1>1, <1>4 DEF GInv, DriverInv
  <2>2. panicked' => gaveUp' > 0
    BY <1>1 DEF GInv, DriverInv
  <2> QED  BY <1>1, <1>8, <1>9, <2>1, <2>2 DEF DriverInv
<1>11. DataInv'
  <2>1. content' \in [Addrs -> Values]
    BY <1>1 DEF GInv, DataInv, Values
  <2>2. ResultIsOwn'
    BY <1>1 DEF ResultIsOwn
  <2> QED  BY <1>7, <2>1, <2>2 DEF DataInv, Held
<1> QED  BY <1>2, <1>10, <1>11 DEF GInv

(* A call begins. *)
LEMMA IoctlStep ==
    ASSUME GInv, guest = "driver", NEW c \in Callers, Ioctl(c)
    PROVE  GInv'
<1>1. PICK r \in Requests :
        /\ Accepted(r) /\ pc[c] = "out"
        /\ pc' = [pc EXCEPT ![c] = "lock"] /\ req' = [req EXCEPT ![c] = r]
        /\ UNCHANGED <<engine, pi_status, has_operands, regs, written, latched, guest,
                       panicked, lock, bufs, content, last, gaveUp>>
  BY DEF Ioctl, Goto, deviceVars, vars
<1>2. DevInv'
  BY <1>1 DEF GInv, DevInv
<1>3. pc \in [Callers -> {"out", "lock"} \cup Held]
      /\ req \in [Callers -> Requests \cup {NoRequest}]
  BY DEF GInv, DriverInv
<1>4. /\ pc' \in [Callers -> {"out", "lock"} \cup Held]
      /\ req' \in [Callers -> Requests \cup {NoRequest}]
  BY <1>1, <1>3
<1>5. pc'[c] = "lock" /\ req'[c] = r
  BY <1>1, <1>3
<1>6. \A d \in Callers : d # c => pc'[d] = pc[d] /\ req'[d] = req[d]
  BY <1>1, <1>3
<1>7. ASSUME NEW d \in Callers PROVE CallerInv(d)'
  <2>1. CASE d = c
    BY <1>1, <1>5, <2>1 DEF GInv, DriverInv, CallerInv, Held
  <2>2. CASE d # c
    BY <1>1, <1>6, <2>2 DEF GInv, DriverInv, CallerInv
  <2> QED  BY <2>1, <2>2
<1>8. DriverInv'
  <2>1. ASSUME gaveUp' = 0, pi_status' = 0 PROVE \E d \in Callers : pc'[d] = "wait"
    <3>1. PICK d \in Callers : pc[d] = "wait"
      BY <1>1, <2>1 DEF GInv, DriverInv
    <3> QED  BY <1>1, <1>6, <3>1
  <2> QED  BY <1>1, <1>4, <1>7, <2>1 DEF GInv, DriverInv
<1>9. DataInv'
  <2>1. ASSUME NEW d \in Callers, pc'[d] \in {"start", "wait"}, gaveUp' = 0
        PROVE  OperandsIn(d)' /\ (pc'[d] = "wait" => Progress(d)')
    BY <1>1, <1>5, <1>6, <2>1 DEF GInv, DataInv, OperandsIn, Progress
  <2> QED  BY <1>1, <2>1 DEF GInv, DataInv, ResultIsOwn
<1> QED  BY <1>2, <1>8, <1>9 DEF GInv

(* It enters the section. *)
LEMMA LockStep ==
    ASSUME GInv, guest = "driver", NEW c \in Callers, Lock(c)
    PROVE  GInv'
<1>1. /\ pc[c] = "lock" /\ lock = None /\ lock' = c /\ last' = NoReturn
      /\ pc' = [pc EXCEPT ![c] = "alloc"]
      /\ UNCHANGED <<engine, pi_status, has_operands, regs, written, latched, guest,
                     panicked, req, bufs, content, gaveUp>>
  BY DEF Lock, Goto, deviceVars, vars
<1>2. DevInv'
  BY <1>1 DEF GInv, DevInv
<1>3. pc \in [Callers -> {"out", "lock"} \cup Held]
  BY DEF GInv, DriverInv
<1>4. pc' \in [Callers -> {"out", "lock"} \cup Held] /\ pc'[c] = "alloc"
  BY <1>1, <1>3 DEF Held
<1>5. \A d \in Callers : d # c => pc'[d] = pc[d]
  BY <1>1, <1>3
<1>6. \A d \in Callers : pc[d] \notin Held
  BY <1>1, CallersAssumption DEF GInv, DriverInv, CallerInv
<1>7. ASSUME NEW d \in Callers PROVE CallerInv(d)'
  <2>1. CASE d = c
    BY <1>1, <1>4, <2>1 DEF GInv, DriverInv, CallerInv, Held
  <2>2. CASE d # c
    BY <1>1, <1>5, <1>6, <2>2 DEF GInv, DriverInv, CallerInv
  <2> QED  BY <2>1, <2>2
<1>8. DriverInv'
  BY <1>1, <1>4, <1>6, <1>7 DEF GInv, DriverInv, Held
<1>9. DataInv'
  <2>1. \A d \in Callers : pc'[d] \notin {"start", "wait"}
    BY <1>4, <1>5, <1>6 DEF Held
  <2>2. ResultIsOwn'
    BY <1>1 DEF ResultIsOwn, NoReturn
  <2> QED  BY <1>1, <2>1, <2>2 DEF GInv, DataInv
<1> QED  BY <1>2, <1>8, <1>9 DEF GInv

(* The caller in the section is alone there, and the device is idle until  *)
(* it starts its job.                                                      *)
LEMMA OwnerFacts ==
    ASSUME GInv, guest = "driver", NEW c \in Callers, pc[c] \in Held
    PROVE  /\ lock = c /\ req[c] \in Requests /\ Accepted(req[c])
           /\ \A d \in Callers : d # c => pc[d] \in {"out", "lock"} /\ bufs[d] = NoBufs
           /\ pc[c] # "wait" /\ gaveUp = 0 => pi_status = 1
<1>1. lock = c /\ req[c] \in Requests /\ Accepted(req[c])
  BY DEF GInv, DriverInv, CallerInv, Held
<1>2. ASSUME NEW d \in Callers, d # c
      PROVE  pc[d] \in {"out", "lock"} /\ bufs[d] = NoBufs
  <2>1. pc[d] \notin Held
    BY <1>1, <1>2 DEF GInv, DriverInv, CallerInv
  <2>2. pc[d] \in {"out", "lock"} \cup Held
    BY DEF GInv, DriverInv
  <2> QED  BY <2>1, <2>2 DEF GInv, DriverInv, CallerInv
<1>3. ASSUME pc[c] # "wait", gaveUp = 0 PROVE pi_status = 1
  <2>1. \A d \in Callers : pc[d] # "wait"
    BY <1>2, <1>3
  <2>2. pi_status \in {0, 1}
    BY DEF GInv, DevInv
  <2> QED  BY <1>3, <2>1, <2>2 DEF GInv, DriverInv
<1> QED  BY <1>1, <1>2, <1>3

(* It goes on to the next part of the section. *)
LEMMA MoveStep ==
    ASSUME GInv, guest = "driver", NEW c \in Callers, pc[c] \in Held,
           NEW l \in {"copy", "start", "wait"}, NEW b, Fit(req[c], b),
           pc' = [pc EXCEPT ![c] = l], bufs' = [bufs EXCEPT ![c] = b],
           UNCHANGED <<guest, panicked, lock, req, gaveUp>>,
           l = "wait" => regs' = b,
           l # "wait" /\ gaveUp = 0 => pi_status' = 1
    PROVE  /\ DriverInv'
           /\ pc'[c] = l /\ bufs'[c] = b
           /\ \A d \in Callers : d # c => pc'[d] \in {"out", "lock"}
<1>1. /\ lock = c /\ req[c] \in Requests /\ Accepted(req[c])
      /\ \A d \in Callers : d # c => pc[d] \in {"out", "lock"} /\ bufs[d] = NoBufs
  BY OwnerFacts
<1>2. /\ pc \in [Callers -> {"out", "lock"} \cup Held] /\ bufs \in [Callers -> Buffers]
      /\ b \in Buffers
  BY DEF GInv, DriverInv, Fit
<1>3. /\ pc' \in [Callers -> {"out", "lock"} \cup Held] /\ bufs' \in [Callers -> Buffers]
      /\ pc'[c] = l /\ bufs'[c] = b
      /\ \A d \in Callers : d # c => pc'[d] = pc[d] /\ bufs'[d] = bufs[d]
  BY <1>2 DEF Held
<1>4. ASSUME NEW d \in Callers PROVE CallerInv(d)'
  <2>1. CASE d = c
    <3> USE <1>1, <1>3, <2>1
    <3>1. (pc[d] \in Held => lock = d)' /\ (pc[d] # "out" => req[d] \in Requests /\ Accepted(req[d]))'
      OBVIOUS
    <3>2. (pc[d] = "wait" /\ gaveUp = 0 => regs = bufs[d])'
      OBVIOUS
    <3>3. Fit(req[d], bufs[d])'
      BY Zenon DEF Fit, JobOf
    <3> QED  BY <3>1, <3>2, <3>3 DEF CallerInv
  <2>2. CASE d # c
    <3>1. pc'[d] \in {"out", "lock"} /\ bufs'[d] = NoBufs /\ req'[d] = req[d] /\ pc'[d] = pc[d]
      BY <1>1, <1>3, <2>2
    <3> QED  BY <3>1 DEF GInv, DriverInv, CallerInv, Held
  <2> QED  BY <2>1, <2>2
<1>5. guest' = "driver" /\ (gaveUp' = 0 /\ pi_status' = 0 => \E d \in Callers : pc'[d] = "wait")
  BY <1>3
<1>6. DriverInv'
  BY <1>3, <1>4, <1>5 DEF GInv, DriverInv
<1> QED  BY <1>1, <1>3, <1>6

(* It has its buffers, or none. *)
LEMMA AllocStep ==
    ASSUME GInv, guest = "driver", NEW c \in Callers, Alloc(c)
    PROVE  GInv'
<1>1. /\ pc[c] = "alloc" /\ UNCHANGED <<deviceVars, guest, panicked, gaveUp>>
      /\ \/ /\ \E b \in Allocations(req[c]) : bufs' = [bufs EXCEPT ![c] = b]
            /\ pc' = [pc EXCEPT ![c] = "copy"]
            /\ UNCHANGED <<lock, req, content, last>>
         \/ Leave(c, "ENOMEM", {})
  BY DEF Alloc, Goto
<1>2. pc[c] \in Held /\ gaveUp \in Nat
  BY <1>1 DEF Held, GInv, DriverInv
<1>3. CASE Leave(c, "ENOMEM", {})
  BY <1>1, <1>2, <1>3, LeaveStep
<1>4. ASSUME NEW b \in Allocations(req[c]), bufs' = [bufs EXCEPT ![c] = b],
             pc' = [pc EXCEPT ![c] = "copy"], UNCHANGED <<lock, req, content, last>>
      PROVE  GInv'
  <2>1. /\ UNCHANGED <<engine, pi_status, has_operands, regs, written, latched,
                       guest, panicked, gaveUp>>
    BY <1>1 DEF deviceVars, vars
  <2>2. DevInv'
    BY <2>1 DEF GInv, DevInv
  <2>3. Fit(req[c], b) /\ (gaveUp = 0 => pi_status = 1)
    BY <1>1, <1>2, OwnerFacts, AllocationsFit
  <2>4. /\ DriverInv' /\ pc'[c] = "copy"
        /\ \A d \in Callers : d # c => pc'[d] \in {"out", "lock"}
    BY <1>2, <1>4, <2>1, <2>3, MoveStep
  <2>5. DataInv'
    BY <1>4, <2>1, <2>4 DEF GInv, DataInv, ResultIsOwn
  <2> QED  BY <2>2, <2>4, <2>5 DEF GInv
<1> QED  BY <1>1, <1>3, <1>4

(* Its operands are in the buffers. *)
LEMMA CopyStep ==
    ASSUME GInv, guest = "driver", NEW c \in Callers, Copy(c)
    PROVE  GInv'
<1> DEFINE b == bufs[c]
<1>1. /\ pc[c] = "copy" /\ UNCHANGED <<deviceVars, guest, panicked, gaveUp>>
      /\ \/ /\ content' = [a \in Addrs |->
                              IF a \in Range(b.m) \cup Range(b.k) THEN In(c)
                              ELSE IF a \in Range(b.o) THEN Zero ELSE content[a]]
            /\ pc' = [pc EXCEPT ![c] = "start"]
            /\ UNCHANGED <<lock, req, bufs, last>>
         \/ Leave(c, "EFAULT", {})
  BY DEF Copy, Goto
<1>2. pc[c] \in Held /\ gaveUp \in Nat /\ Fit(req[c], b)
  BY <1>1 DEF Held, GInv, DriverInv, CallerInv
<1>3. CASE Leave(c, "EFAULT", {})
  BY <1>1, <1>2, <1>3, LeaveStep
<1>4. CASE ~Leave(c, "EFAULT", {})
  <2>1. /\ content' = [a \in Addrs |->
                          IF a \in Range(b.m) \cup Range(b.k) THEN In(c)
                          ELSE IF a \in Range(b.o) THEN Zero ELSE content[a]]
        /\ pc' = [pc EXCEPT ![c] = "start"] /\ UNCHANGED <<lock, req, bufs, last>>
        /\ UNCHANGED <<engine, pi_status, has_operands, regs, written, latched,
                       guest, panicked, gaveUp>>
    BY <1>1, <1>4 DEF deviceVars, vars
  <2>2. DevInv'
    BY <2>1 DEF GInv, DevInv
  <2>3. gaveUp = 0 => pi_status' = 1
    BY <1>1, <1>2, <2>1, OwnerFacts
  <2>4. bufs' = [bufs EXCEPT ![c] = b] /\ b \in Buffers
    BY <2>1 DEF GInv, DriverInv
  <2> HIDE DEF b
  <2>5. /\ DriverInv' /\ pc'[c] = "start" /\ bufs'[c] = b
        /\ \A d \in Callers : d # c => pc'[d] \in {"out", "lock"}
    BY <1>2, <2>1, <2>3, <2>4, MoveStep
  <2>6. Range(b.m) \subseteq Addrs /\ Range(b.k) \subseteq Addrs
    <3>1. \A t \in Seq(Addrs) : Range(t) \subseteq Addrs
      BY DEF Range
    <3> QED  BY <2>4, <3>1 DEF Buffers
  <2>7. OperandsIn(c)'
    BY <2>1, <2>5, <2>6 DEF OperandsIn
  <2>8. content' \in [Addrs -> Values]
    BY <2>1 DEF GInv, DataInv, Values
  <2>9. DataInv'
    BY <2>1, <2>5, <2>7, <2>8 DEF GInv, DataInv, ResultIsOwn
  <2> QED  BY <2>2, <2>5, <2>9 DEF GInv
<1> QED  BY <1>3, <1>4

(* It starts its job. *)
LEMMA StartsJob ==
    ASSUME GInv, guest = "driver", NEW c \in Callers, Start(c)
    PROVE  GInv'
<1> DEFINE b == bufs[c]
<1>1. /\ pc[c] = "start"
      /\ UNCHANGED <<guest, lock, req, bufs, content, last, gaveUp>>
      /\ \/ /\ writePI(JobOf(req[c], b)) /\ latched' = {}
            /\ pc' = [pc EXCEPT ![c] = "wait"] /\ panicked' = panicked
         \/ /\ pi_status = 0 /\ panicked' = TRUE
            /\ UNCHANGED <<deviceVars, pc>>
  BY DEF Start, Goto
<1>2. pc[c] \in Held /\ gaveUp \in Nat /\ Fit(req[c], b)
  BY <1>1 DEF Held, GInv, DriverInv, CallerInv
<1>3. CASE pi_status = 0 /\ panicked' = TRUE /\ UNCHANGED <<deviceVars, pc>>
  <2>1. gaveUp > 0
    <3>1. pc[c] # "wait"
      BY <1>1
    <3>2. gaveUp = 0 => pi_status = 1
      BY <1>2, <3>1, OwnerFacts
    <3> QED  BY <1>2, <1>3, <3>2
  <2>2. UNCHANGED <<engine, pi_status, has_operands, regs, written, latched,
                    guest, lock, req, bufs, content, last, gaveUp, pc>>
    BY <1>1, <1>3 DEF deviceVars, vars
  <2>3. DevInv'
    BY <2>2 DEF GInv, DevInv
  <2>4. DriverInv'
    BY <2>1, <2>2 DEF GInv, DriverInv, CallerInv
  <2>5. DataInv'
    <3>1. content' \in [Addrs -> Values]
      BY <2>2 DEF GInv, DataInv
    <3>2. gaveUp' # 0
      BY <2>1, <2>2
    <3>3. ResultIsOwn'
      BY <3>2 DEF ResultIsOwn
    <3> QED  BY <3>1, <3>2, <3>3 DEF DataInv
  <2> QED  BY <2>3, <2>4, <2>5 DEF GInv
<1>4. CASE /\ writePI(JobOf(req[c], b)) /\ latched' = {}
           /\ pc' = [pc EXCEPT ![c] = "wait"] /\ panicked' = panicked
  <2>1. writePI(b) /\ IsJob(b)
    BY <1>2, <1>4, Zenon DEF Fit
  <2>2. DevInv'
    BY <2>1, StartStep DEF GInv
  <2>3. regs' = b /\ written' = {} /\ has_operands' = 0
    BY <2>1 DEF writePI, GInv, DevInv
  <2>4. bufs' = [bufs EXCEPT ![c] = b]
    BY <1>1 DEF GInv, DriverInv
  <2> HIDE DEF b
  <2>5. /\ DriverInv' /\ pc'[c] = "wait" /\ bufs'[c] = b
        /\ \A d \in Callers : d # c => pc'[d] \in {"out", "lock"}
    BY <1>1, <1>2, <1>4, <2>3, <2>4, MoveStep
  <2>6. Progress(c)'
    BY <1>4, <2>3 DEF Progress
  <2>7. gaveUp' = 0 => OperandsIn(c)'
    BY <1>1 DEF GInv, DataInv, OperandsIn
  <2>8. DataInv'
    BY <1>1, <2>5, <2>6, <2>7 DEF GInv, DataInv, ResultIsOwn
  <2> QED  BY <2>2, <2>5, <2>8 DEF GInv
<1> QED  BY <1>1, <1>3, <1>4

(* It returns with its result, without one, or because of the time. *)
LEMMA DoneStep ==
    ASSUME GInv, guest = "driver", NEW c \in Callers, Done(c) \/ GiveUp(c)
    PROVE  GInv'
<1>1. pc[c] = "wait" /\ pc[c] \in Held /\ gaveUp \in Nat
  BY DEF Done, GiveUp, Held, GInv, DriverInv
<1>2. CASE GiveUp(c)
  BY <1>1, <1>2, LeaveStep DEF GiveUp
<1>3. CASE Done(c)
  <2> DEFINE out == {content[a] : a \in Range(bufs[c].o)}
  <2>1. /\ pi_status = 1 /\ UNCHANGED <<deviceVars, guest, panicked, gaveUp>>
        /\ Leave(c, "ok", out) \/ Leave(c, "EFAULT", {})
    BY <1>3 DEF Done
  <2>2. ASSUME gaveUp = 0 PROVE out = {Out(c)}
    <3>1. regs = bufs[c] /\ written = Range(bufs[c].o) /\ IsJob(bufs[c])
      BY <1>1, <2>1, <2>2 DEF GInv, DevInv, DriverInv, CallerInv, Fit
    <3>2. \A a \in Range(bufs[c].o) : content[a] = Out(c)
      BY <1>1, <2>2, <3>1 DEF GInv, DataInv, Progress
    <3>3. 1 \in DOMAIN bufs[c].o
      <4>1. IsBurst(bufs[c].o)
        BY <3>1 DEF IsJob
      <4> QED  BY <4>1 DEF IsBurst
    <3>4. Range(bufs[c].o) # {}
      BY <3>3 DEF Range
    <3> QED  BY <3>2, <3>4
  <2> HIDE DEF out
  <2>3. CASE Leave(c, "ok", out)
    BY <1>1, <2>1, <2>2, <2>3, LeaveStep
  <2>4. CASE Leave(c, "EFAULT", {})
    BY <1>1, <2>1, <2>4, LeaveStep
  <2> QED  BY <2>1, <2>3, <2>4
<1> QED  BY <1>2, <1>3

(* The engine sends. *)
LEMMA SendStep ==
    ASSUME GInv, Engine
    PROVE  GInv'
<1>1. /\ sendDataEvent \/ retryPort
      /\ UNCHANGED <<guest, panicked, lock, pc, req, bufs, content, latched, last,
                     gaveUp, pi_status, has_operands, regs, written>>
  BY DEF Engine, sendDataEvent, retryPort, driverVars
<1>2. DevInv'
  BY <1>1, EngineStep DEF GInv
<1>3. DriverInv'
  BY <1>1 DEF GInv, DriverInv, CallerInv
<1>4. DataInv'
  BY <1>1 DEF GInv, DataInv, ResultIsOwn, OperandsIn, Progress
<1> QED  BY <1>2, <1>3, <1>4 DEF GInv

(* A guest that uses the registers itself starts a job. *)
LEMMA DirectStep ==
    ASSUME GInv, Direct
    PROVE  GInv'
<1>1. PICK job \in DirectJobs : writePI(job)
  BY DEF Direct
<1>2. /\ guest = "direct"
      /\ UNCHANGED <<guest, panicked, lock, pc, req, bufs, content, latched, last, gaveUp>>
  BY DEF Direct, driverVars
<1>3. IsJob(job)
  BY JobsAreJobs, DriverAssumption
<1>4. DevInv'
  BY <1>1, <1>3, StartStep DEF GInv
<1>5. \A c \in Callers : pc[c] = "out"
  BY <1>2 DEF GInv, DriverInv
<1>6. ASSUME NEW c \in Callers PROVE CallerInv(c)'
  BY <1>2, <1>5 DEF GInv, DriverInv, CallerInv, Held
<1>7. DriverInv'
  BY <1>2, <1>6 DEF GInv, DriverInv
<1>8. DataInv'
  BY <1>2 DEF GInv, DataInv, ResultIsOwn
<1> QED  BY <1>4, <1>7, <1>8 DEF GInv

(* What the kernels compute when the caller's operands have been read. *)
LEMMA ComputedFacts ==
    /\ Computed \in Values
    /\ \A c \in Callers : latched = {In(c)} => Computed = Out(c)
<1>1. \A c, d \in Callers : {In(c)} = {In(d)} => c = d
  <2>1. \A x, y : {x} = {y} => x = y
    OBVIOUS
  <2>2. \A c, d \in Callers : In(c) = In(d) => c = d
    BY DEF In
  <2> QED  BY <2>1, <2>2, Zenon
<1>2. ASSUME NEW c \in Callers, latched = {In(c)} PROVE Computed = Out(c)
  <2>1. (CHOOSE d \in Callers : latched = {In(d)}) = c
    BY <1>1, <1>2
  <2> QED  BY <1>2, <2>1 DEF Computed
<1>3. Computed \in Values
  BY <1>2 DEF Computed, Values
<1> QED  BY <1>2, <1>3

(* The burst after the last operand is the result, any before an operand. *)
LEMMA BurstCases ==
    ASSUME NEW job, NEW n \in 0 .. Operands(job)
    PROVE  /\ n = Operands(job) => n # 0 /\ Burst(job, n) = job.o
           /\ n # Operands(job) => Burst(job, n) \in {job.m, job.k}
<1>1. Operands(job) \in {1, 2}
  BY DEF Operands
<1>2. n = Operands(job) => n # 0 /\ ~(n < Operands(job))
  BY <1>1
<1>3. n # Operands(job) => n = 0 \/ n < Operands(job)
  BY <1>1
<1> QED  BY <1>2, <1>3 DEF Burst

(***************************************************************************)
(* The memory performs a packet.  It reads an operand of the caller that   *)
(* waits, or writes what is computed from all of them into its result,     *)
(* which lies apart from the operands.                                     *)
(***************************************************************************)
LEMMA ResponseStep ==
    ASSUME GInv, NEW i \in DOMAIN engine.mem, Response(i)
    PROVE  GInv'
<1> DEFINE a == engine.mem[i].addr
           n == has_operands
<1>1. /\ memCallback(i)
      /\ UNCHANGED <<guest, panicked, lock, pc, req, bufs, last, gaveUp>>
      /\ guest = "direct" => UNCHANGED <<content, latched>>
      /\ guest # "direct" /\ engine.mem[i].write =>
            /\ content' = [content EXCEPT ![a] = Computed] /\ latched' = latched
      /\ guest # "direct" /\ ~engine.mem[i].write =>
            /\ latched' = latched \cup {content[a]} /\ content' = content
  BY DEF Response
<1>2. DevInv'
  BY <1>1, CallbackStep DEF GInv
<1>3. PICK w \in BOOLEAN, S \in SUBSET Range(Burst(regs, n)) :
        /\ WorksOn(engine, regs, n, w, S, written)
        /\ a \in S /\ engine.mem[i].write = w
  BY AnswerFacts DEF GInv, Answers
<1>4. pi_status = 0 /\ regs' = regs /\ IsJob(regs) /\ n \in 0 .. Operands(regs)
  BY <1>1, AnswerFacts DEF GInv, memCallback
<1>5. /\ w <=> (n = Operands(regs))
      /\ a \in Range(Burst(regs, n))
      /\ written' = IF w THEN written \cup {a} ELSE written
  BY <1>1, <1>3 DEF WorksOn, memCallback
<1> HIDE DEF n
<1>6. w => n # 0 /\ Burst(regs, n) = regs.o
  BY <1>4, <1>5, BurstCases
<1>7. ~w => Burst(regs, n) \in {regs.m, regs.k}
  BY <1>4, <1>5, BurstCases
<1> USE DEF n
<1>8. DriverInv'
  <2>1. CASE guest = "direct" \/ gaveUp # 0
    BY <1>1, <1>4, <2>1 DEF GInv, DriverInv, CallerInv
  <2>2. CASE guest = "driver" /\ gaveUp = 0
    BY <1>1, <1>4, <2>2 DEF GInv, DriverInv, CallerInv
  <2> QED  BY <2>1, <2>2 DEF GInv, DriverInv
<1> HIDE DEF a, n
<1>9. content' \in [Addrs -> Values]
  BY <1>1, ComputedFacts DEF GInv, DataInv
<1>10. ASSUME NEW c \in Callers, guest = "driver", gaveUp = 0,
              pc[c] \in {"start", "wait"}
       PROVE  pc[c] = "wait" /\ OperandsIn(c)' /\ Progress(c)'
  <2>1. pc[c] = "wait"
    BY <1>4, <1>10, OwnerFacts DEF Held
  <2>2. /\ regs = bufs[c] /\ OperandsIn(c) /\ Progress(c)
        /\ bufs[c] \in Buffers
        /\ Range(bufs[c].o) \cap (Range(bufs[c].m) \cup Range(bufs[c].k)) = {}
    BY <1>10, <2>1 DEF GInv, DriverInv, CallerInv, DataInv, Fit
  <2>3. \A t \in Seq(Addrs) : Range(t) \subseteq Addrs
    BY DEF Range
  <2>4. /\ Range(bufs[c].m) \subseteq Addrs /\ Range(bufs[c].k) \subseteq Addrs
        /\ Range(bufs[c].o) \subseteq Addrs
    BY <2>2, <2>3 DEF Buffers
  <2>5. guest # "direct" /\ content \in [Addrs -> Values]
    BY <1>10 DEF GInv, DataInv
  <2>6. CASE w
    <3>1. /\ content' = [content EXCEPT ![a] = Computed] /\ latched' = latched
          /\ written' = written \cup {a} /\ a \in Range(bufs[c].o)
      BY <1>1, <1>3, <1>5, <1>6, <2>2, <2>5, <2>6
    <3>2. latched = {In(c)} /\ Computed = Out(c)
      BY <1>6, <2>2, <2>6, ComputedFacts DEF Progress, n
    <3>3. OperandsIn(c)'
      BY <1>1, <2>2, <2>4, <2>5, <3>1 DEF OperandsIn
    <3>4. \A x \in written' : content'[x] = Out(c)
      <4>1. written \subseteq Addrs
        BY <1>3, <2>2, <2>4 DEF WorksOn
      <4> QED  BY <2>2, <2>4, <2>5, <3>1, <3>2, <4>1 DEF Progress
    <3> QED  BY <2>1, <3>1, <3>2, <3>3, <3>4 DEF Progress
  <2>7. CASE ~w
    <3>1. /\ latched' = latched \cup {content[a]} /\ content' = content
          /\ written' = written /\ a \in Range(bufs[c].m) \cup Range(bufs[c].k)
      BY <1>1, <1>3, <1>5, <1>7, <2>2, <2>5, <2>7
    <3>2. content[a] = In(c)
      BY <2>2, <3>1 DEF OperandsIn
    <3>3. latched' = {In(c)}
      BY <2>2, <3>1, <3>2 DEF Progress
    <3> QED  BY <1>1, <2>1, <2>2, <3>1, <3>3 DEF Progress, OperandsIn
  <2> QED  BY <2>6, <2>7
<1>11. DataInv'
  BY <1>1, <1>9, <1>10 DEF GInv, DataInv, ResultIsOwn
<1> QED  BY <1>2, <1>8, <1>11 DEF GInv

-----------------------------------------------------------------------------
(* Every step of callers, device and memory keeps the invariant. *)
THEOREM DriverInvariant == DSpec => []GInv
<1>1. GInv /\ [DNext]_allVars => GInv'
  <2> SUFFICES ASSUME GInv, [DNext]_allVars PROVE GInv'
    OBVIOUS
  <2>1. ASSUME guest = "driver", NEW c \in Callers, Ioctl(c) \/ Driver(c) \/ GiveUp(c)
        PROVE  GInv'
    BY <2>1, IoctlStep, LockStep, AllocStep, CopyStep, StartsJob, DoneStep DEF Driver
  <2>2. CASE UNCHANGED allVars
    BY <2>2 DEF allVars, vars, driverVars, GInv, DevInv, DriverInv, CallerInv,
                DataInv, ResultIsOwn, OperandsIn, Progress
  <2> QED  BY <2>1, <2>2, DirectStep, SendStep, ResponseStep
           DEF DNext, Ended, Responses
<1> QED  BY <1>1, InitG, PTL DEF DSpec

(* The mutex and the poll keep every caller from writing to a device that  *)
(* is busy.                                                                *)
THEOREM DriverNeverPanics == DSpec => []NoPanic
<1>1. GInv => NoPanic
  BY DEF GInv, DriverInv, NoPanic
<1> QED  BY <1>1, DriverInvariant, PTL

(* A call that succeeds returns what was computed from its own operands.   *)
THEOREM OwnResults == DSpec => []ResultIsOwn
<1>1. GInv => ResultIsOwn
  BY DEF GInv, DataInv
<1> QED  BY <1>1, DriverInvariant, PTL

(* The kernels stay inside the matrices although the sizes are computed    *)
(* with words that wrap around.                                            *)
THEOREM KernelsStayInside == DSpec => []KernelInBounds
<1>1. GInv => KernelInBounds
  <2> SUFFICES ASSUME GInv, NEW c \in Callers, pc[c] = "wait"
      PROVE  /\ KernelElems(req[c]).m * ElementSize <= DeviceBytes(req[c]).m
             /\ KernelElems(req[c]).k * ElementSize <= DeviceBytes(req[c]).k
             /\ KernelElems(req[c]).o * ElementSize <= DeviceBytes(req[c]).o
    BY DEF KernelInBounds
  <2>1. req[c] \in Requests /\ Accepted(req[c])
    BY DEF GInv, DriverInv, CallerInv
  <2>2. KernelElems(req[c]) \in [m : Nat \ {0}, k : Nat, o : Nat \ {0}]
    BY <2>1, ElementsAgree, Zenon
  <2>3. \A x \in Nat : x * ElementSize \in Nat
    BY DriverAssumption
  <2>4. /\ DeviceBytes(req[c]).m = KernelElems(req[c]).m * ElementSize
        /\ DeviceBytes(req[c]).k = KernelElems(req[c]).k * ElementSize
        /\ DeviceBytes(req[c]).o = KernelElems(req[c]).o * ElementSize
    BY <2>1, SizesAgree, Zenon
  <2>5. /\ KernelElems(req[c]).m \in Nat /\ KernelElems(req[c]).k \in Nat
        /\ KernelElems(req[c]).o \in Nat
    BY <2>2
  <2>6. /\ DeviceBytes(req[c]).m \in Nat /\ DeviceBytes(req[c]).k \in Nat
        /\ DeviceBytes(req[c]).o \in Nat
    BY <2>3, <2>4, <2>5, Zenon
  <2>7. \A x \in Nat : x <= x
    OBVIOUS
  <2> QED  BY <2>4, <2>6, <2>7, Zenon
<1> QED  BY <1>1, DriverInvariant, PTL

(* Every path out of the section has freed the buffers. *)
THEOREM NoLeaks == DSpec => []NothingLeaked
<1>1. GInv => NothingLeaked
  <2> SUFFICES ASSUME GInv, NEW c \in Callers, NEW a \in UsedBy(c)
               PROVE  c \in Holders
    BY DEF NothingLeaked, Allocated
  <2>1. bufs[c] # NoBufs
    BY DEF UsedBy, NoBufs, Range
  <2> QED  BY <2>1 DEF GInv, DriverInv, CallerInv, Holders, Held
<1> QED  BY <1>1, DriverInvariant, PTL

(* The DMA of a job stays in the buffers of the caller that waits for it.  *)
THEOREM DmaStaysInside == DSpec => []DmaInBuffers
<1>1. GInv => DmaInBuffers
  <2> SUFFICES ASSUME GInv, guest = "driver", gaveUp = 0, NEW p \in Outstanding
               PROVE  \E c \in Holders :
                        p.addr \in IF p.write THEN Range(bufs[c].o)
                                   ELSE Range(bufs[c].m) \cup Range(bufs[c].k)
    BY DEF DmaInBuffers
  <2>1. pi_status = 0
    BY OutstandingFacts DEF GInv, DevInv
  <2>2. PICK c \in Callers : pc[c] = "wait" /\ regs = bufs[c]
    BY <2>1 DEF GInv, DriverInv, CallerInv
  <2>3. /\ p.write <=> (has_operands = Operands(regs))
        /\ p.addr \in Range(Burst(regs, has_operands))
    BY <2>1, OutstandingFacts DEF GInv
  <2>4. has_operands \in 0 .. Operands(regs) /\ Operands(regs) \in {1, 2}
    BY <2>1 DEF GInv, DevInv, Busy, Operands
  <2>5. CASE p.write
    BY <2>2, <2>3, <2>4, <2>5 DEF Burst, Holders
  <2>6. CASE ~p.write
    BY <2>2, <2>3, <2>4, <2>6 DEF Burst, Holders
  <2> QED  BY <2>5, <2>6
<1> QED  BY <1>1, DriverInvariant, PTL
=============================================================================
