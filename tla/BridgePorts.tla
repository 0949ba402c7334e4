---------------------------- MODULE BridgePorts ----------------------------
(***************************************************************************)
(* The bridge below the level of CoralBridge: the core's AXI pins, the two *)
(* adapters clock by clock (AxiAdapters), the callbacks of the handle      *)
(* (coralnpu_gem5_abi.cc), and what they answer from: the request slot,    *)
(* the local EXTMEM, the custom MAC and the hybrid operators.              *)
(*                                                                         *)
(* The core is external.  It makes one access at a time and leaves a clock *)
(* without a valid signal between two.  It keeps a valid signal up until   *)
(* the adapter has taken the transfer, and lowers it at the latest at the  *)
(* rising edge that sees valid and ready, as the adapters' unit tests do.  *)
(* It raises and lowers its response ready signals as it likes.  Between   *)
(* two accesses it may be restarted.                                       *)
(***************************************************************************)
EXTENDS AxiAdapters, CustomMac, HybridOperator

CONSTANTS
    MaxBeats,   \* the longest burst
    Convs,      \* convolutions the firmware may be asked for
    Configs     \* builds, operator modes, local EXTMEM and programs to look at

Programs == {"burst", "add", "conv"}

Modes == <<"RTL", "HYBRID", "SAMPLED">>   \* in the order of their codes

ASSUME ConfigsAssumption ==
    \A c \in Configs : /\ c.mode \in Range(Modes)
                       /\ {c.highmem, c.local, c.masked} \subseteq BOOLEAN
                       /\ c.programs \subseteq Programs

VARIABLES
    config,   \* the mode of the bridge and the programs: never changes
    pins,     \* the core's pins and its access, see AxiAdapters
    prog,     \* what the firmware is doing
    b         \* the handle

vars == <<config, pins, prog, b>>

(***************************************************************************)
(* id tells an access from its neighbours; reg is a register, or a word of *)
(* the operator descriptor in EXTMEM.                                      *)
(***************************************************************************)
NoAccess == [id |-> 0, type |-> "none", beats |-> 0, dest |-> "none",
             reg |-> "none", value |-> 0]

(* The convolutions that the staging arena has room for, and the           *)
(* descriptors the firmware makes for them.                                *)
Stageable == {c \in Convs : Staged(c)}

Descriptors == [c \in Stageable |-> Descriptor(c)]

NoConv == [input |-> <<>>, filter |-> <<>>, bias |-> <<>>, output |-> <<>>,
           fits |-> FALSE]

(* end: how the last program ended.  rang: it has rung the doorbell. *)
Idle == [name |-> "idle", pc |-> 1, lhs |-> 0, rhs |-> 0, conv |-> NoConv,
         result |-> 0, end |-> "none", rang |-> FALSE]

(* sent counts the write beats put on the pins, awsent says whether the    *)
(* write address was, got are the response beats taken.                    *)
Quiet == [ar |-> FALSE, aw |-> FALSE, w |-> 0, rready |-> FALSE,
          bready |-> FALSE, acc |-> NoAccess, busy |-> FALSE,
          awsent |-> FALSE, sent |-> 0, got |-> <<>>]

(* slot is pending_dma while dma_pending, else NoAccess.  History: calls   *)
(* are the callbacks made for the current access, op.ran the convolution   *)
(* that was executed last.                                                 *)
NewHandle ==
    [rd |-> NewReadDriver, wr |-> NewWriteDriver, slot |-> NoAccess,
     mac |-> NewMac, calls |-> <<>>,
     op |-> [desc |-> NoDescriptor, status |-> "IDLE", ran |-> NoConv]]

Init ==
    /\ config \in Configs
    /\ pins = Quiet
    /\ prog = Idle
    /\ b = NewHandle

-----------------------------------------------------------------------------
(* What the callbacks answer.                                              *)
Beat(acc, i, n, ok, value) ==
    [id |-> acc.id, beat |-> i, last |-> i = n, ok |-> ok, value |-> value]

(* A read that succeeded has a response beat for each of its beats; a      *)
(* write and a failed access have one.                                     *)
ResponseBeats(acc, ok, value) ==
    LET n == IF acc.type = "read" /\ ok THEN acc.beats ELSE 1
    IN  [i \in 1 .. n |-> Beat(acc, i, n, ok, value)]

(* Queue{Read,Write}Response of the wrapper. *)
Answer(h, acc, ok, value) ==
    LET beats == ResponseBeats(acc, ok, value)
    IN  IF acc.type = "read" THEN [h EXCEPT !.rd = QueueResponse(@, beats)]
        ELSE [h EXCEPT !.wr = QueueResponse(@, beats)]

(* Values of a register, told apart by what the firmware compares them to. *)
CodeOf(name) ==
    CASE name \in {"IDLE", "NONE", "RTL"} -> 0
      [] name \in {"COMPLETE", "HYBRID"} -> 1
      [] OTHER -> 2

(* The value of a register of the operator block or of a descriptor word. *)
ReadValue(h, acc) ==
    CASE acc.dest = "mac" -> Read32(h.mac, acc.reg)
      [] acc.reg = "MODE" -> CodeOf(config.mode)
      [] acc.reg = "CAPABILITIES" -> IF config.highmem THEN 1 ELSE 0
      [] acc.reg = "MASK" -> IF config.masked THEN 1 ELSE 0
      [] acc.reg = "STATUS" -> CodeOf(h.op.status)
      [] acc.reg = "state" -> CodeOf(h.op.desc.state)
      [] acc.reg = "error" -> CodeOf(h.op.desc.error)
      [] OTHER -> 0

IsLocal(acc) == acc.dest = "extmem" /\ config.local

ReadCallback(h, acc) ==
    CASE acc.dest \in {"mac", "op"} \/ IsLocal(acc) ->
            Answer(h, acc, TRUE, ReadValue(h, acc))
      [] acc.dest = "bad" -> Answer(h, acc, FALSE, 0)
      [] OTHER -> [h EXCEPT !.slot = acc]

(* A write of the doorbell: the operator runs inside the callback. *)
Doorbell(h) ==
    LET desc == Dispatch(h.op.desc, config.local)
    IN  [h EXCEPT !.op.desc = desc, !.op.status = desc.state,
                  !.op.ran = IF desc.state = "COMPLETE" THEN prog.conv ELSE @]

(* data are the numbers of the beats captured.  The request builder        *)
(* refuses a burst with another number of beats than its address says.     *)
WriteCallback(h, acc, data) ==
    CASE acc.dest = "op" ->
            IF config.mode = "RTL" THEN Answer(h, acc, FALSE, 0)
            ELSE Answer(Doorbell(h), acc, TRUE, 0)
      [] acc.dest = "mac" ->
            Answer([h EXCEPT !.mac = Write32(@, acc.reg, acc.value)],
                   acc, TRUE, 0)
      [] acc.dest = "bad" \/ Len(data) # acc.beats -> Answer(h, acc, FALSE, 0)
      [] IsLocal(acc) /\ Len(data) = acc.beats ->
            Answer([h EXCEPT !.op.desc = IF acc.reg = "desc"
                                         THEN Descriptors[prog.conv] ELSE @],
                   acc, TRUE, 0)
      [] OTHER -> [h EXCEPT !.slot = acc]

Logged(h, acc, data) ==
    [h EXCEPT !.calls = IF Len(@) < 2 THEN Append(@, [acc |-> acc, data |-> data])
                        ELSE @]

-----------------------------------------------------------------------------
(* The falling edge: the read adapter, then the write adapter.             *)
ReadEdge(h, p) ==
    LET driven == [h EXCEPT !.rd = ReadDrives(@, p)]
    IN  IF ~TakesAddress(h.rd, p) THEN driven
        ELSE ReadCallback(Logged([driven EXCEPT !.rd = ReadTakes(@)], p.acc, <<>>),
                          p.acc)

WriteEdge(h, p) ==
    LET wr == WriteCaptures(WriteDrives(h.wr, p), p)
        called == IF ~Submits(wr) THEN [h EXCEPT !.wr = wr]
                  ELSE WriteCallback(Logged([h EXCEPT !.wr = Submitted(wr)],
                                            p.acc, wr.data),
                                     p.acc, wr.data)
    IN  [called EXCEPT !.wr = WriteReadies(@)]

-----------------------------------------------------------------------------
(* The firmware (external compiler, modelled from its C): its accesses.    *)
Access(type, beats, dest, reg, value) ==
    [id |-> 1 - pins.acc.id, type |-> type, beats |-> beats, dest |-> dest,
     reg |-> reg, value |-> value]

(* custom_add of gem5_command_smoke.c, one access for each pc. *)
AddAccess ==
    CASE prog.pc = 1 -> Access("write", 1, "mac", "A", prog.lhs)
      [] prog.pc = 2 -> Access("write", 1, "mac", "B", 1)
      [] prog.pc = 3 -> Access("write", 1, "mac", "ACC", prog.rhs)
      [] prog.pc = 4 -> Access("write", 1, "mac", "COMMAND", 1)
      [] prog.pc = 5 -> Access("read", 1, "mac", "STATUS", 0)
      [] prog.pc = 6 -> Access("read", 1, "mac", "RESULT", 0)

(* TryHybridConvInvoke: OperatorUsesHybrid (mode HYBRID goes on at 2,      *)
(* SAMPLED at 3), the descriptor with its tensors (one store stands for    *)
(* all), and SubmitHybridOperator.                                         *)
ConvAccess ==
    CASE prog.pc = 1 -> Access("read", 1, "op", "MODE", 0)
      [] prog.pc \in {2, 3} -> Access("read", 1, "op", "CAPABILITIES", 0)
      [] prog.pc = 4 -> Access("read", 1, "op", "MASK", 0)
      [] prog.pc = 5 -> Access("write", 1, "extmem", "desc", 0)
      [] prog.pc = 6 -> Access("write", 1, "op", "DOORBELL", 0)
      [] prog.pc = 7 -> Access("read", 1, "op", "STATUS", 0)
      [] prog.pc = 8 -> Access("read", 1, "extmem", "state", 0)
      [] prog.pc = 9 -> Access("read", 1, "extmem", "error", 0)

Bursts == {Access(t, n, d, "none", 0) : t \in {"read", "write"},
                                        n \in 1 .. MaxBeats,
                                        d \in {"extmem", "outside", "bad"}}

NextAccesses ==
    CASE prog.name = "idle" -> IF "burst" \in config.programs THEN Bursts ELSE {}
      [] prog.name = "add"  -> {AddAccess}
      [] prog.name = "conv" -> {ConvAccess}

Ends(end) == [prog EXCEPT !.name = "idle", !.end = end]

At(pc) == [prog EXCEPT !.pc = pc]

(* The firmware once an access has given it v. *)
AddGoesOn(v) ==
    CASE prog.pc = 5 -> IF v = 0 THEN prog ELSE At(6)
      [] prog.pc = 6 -> [Ends("added") EXCEPT !.result = v]
      [] OTHER -> At(prog.pc + 1)

Stage == IF prog.conv \in Stageable THEN At(5) ELSE Ends("rtl")

ByMode(v) ==
    CASE v = CodeOf("RTL") -> Ends("rtl")
      [] v = CodeOf("HYBRID") -> At(2)
      [] v = CodeOf("SAMPLED") -> At(3)

(* Mutant: an operator that fails is run again by the RTL kernel. *)
ConvGoesOn_FallsBack(v) ==
    CASE prog.pc = 1 -> ByMode(v)
      [] prog.pc = 2 -> IF v = 0 THEN Ends("rtl") ELSE Stage
      [] prog.pc = 3 -> IF v = 0 THEN Ends("rtl") ELSE At(4)
      [] prog.pc = 4 -> IF v = 1 THEN Ends("rtl") ELSE Stage
      [] prog.pc = 5 -> At(6)
      [] prog.pc = 6 -> [At(7) EXCEPT !.rang = TRUE]
      [] prog.pc \in {7, 8} -> IF v # CodeOf("COMPLETE") THEN Ends("rtl")
                               ELSE At(prog.pc + 1)
      [] prog.pc = 9 -> Ends(IF v = CodeOf("NONE") THEN "ok" ELSE "rtl")

ConvGoesOn(v) ==
    CASE prog.pc = 1 -> ByMode(v)
      [] prog.pc = 2 -> IF v = 0 THEN Ends("rtl") ELSE Stage
      [] prog.pc = 3 -> IF v = 0 THEN Ends("rtl") ELSE At(4)
      [] prog.pc = 4 -> IF v = 1 THEN Ends("rtl") ELSE Stage
      [] prog.pc = 5 -> At(6)
      [] prog.pc = 6 -> [At(7) EXCEPT !.rang = TRUE]
      [] prog.pc \in {7, 8} -> IF v # CodeOf("COMPLETE") THEN Ends("error")
                               ELSE At(prog.pc + 1)
      [] prog.pc = 9 -> Ends(IF v = CodeOf("NONE") THEN "ok" ELSE "error")

GoesOn(v) ==
    CASE prog.name = "idle" -> prog
      [] prog.name = "add"  -> AddGoesOn(v)
      [] prog.name = "conv" -> ConvGoesOn(v)

-----------------------------------------------------------------------------
(* The rising edge (external core): the pins after it.                     *)
Taken ==
    (IF b.rd.valid /\ pins.rready THEN <<Head(b.rd.responses)>> ELSE <<>>) \o
    (IF b.wr.valid /\ pins.bready THEN <<Head(b.wr.responses)>> ELSE <<>>)

NextAr == CASE ~pins.ar \/ b.rd.ready -> {FALSE}
            [] OTHER -> {TRUE, ~b.rd.seen}

NextAw == CASE pins.aw /\ b.wr.awready -> {FALSE}
            [] pins.aw /\ ~b.wr.awready -> {TRUE, ~b.wr.captured}
            [] OTHER -> {FALSE, pins.acc.type = "write" /\ ~pins.awsent}

NextW ==
    LET more == IF pins.acc.type = "write" /\ pins.sent < pins.acc.beats
                THEN {0, pins.sent + 1} ELSE {0}
    IN CASE pins.w = 0 \/ b.wr.wready -> more
         [] pins.w # 0 /\ ~b.wr.wready /\ b.wr.complete -> more \cup {pins.w}
         [] OTHER -> {pins.w}

Readies(type) == IF pins.acc.type = type THEN BOOLEAN ELSE {FALSE}

(* The access goes on: the core takes a response and moves its pins.       *)
Moves ==
    {[pins EXCEPT !.ar = ar, !.aw = aw, !.w = w, !.rready = rr, !.bready = br,
                  !.awsent = @ \/ aw, !.sent = IF w > @ THEN w ELSE @,
                  !.got = @ \o Taken] :
        ar \in NextAr, aw \in NextAw, w \in NextW,
        rr \in Readies("read"), br \in Readies("write")}

Complete(p) ==
    /\ p.got # <<>> /\ p.got[Len(p.got)].last
    /\ ~p.ar /\ ~p.aw /\ p.w = 0
    /\ p.acc.type = "write" => p.awsent /\ p.sent = p.acc.beats

Issues == {[Quiet EXCEPT !.acc = acc, !.busy = TRUE, !.ar = acc.type = "read"] :
              acc \in NextAccesses}

RisingEdges ==
    IF pins.busy THEN {[p EXCEPT !.busy = ~Complete(p)] : p \in Moves}
    ELSE Issues \cup {[pins EXCEPT !.rready = FALSE, !.bready = FALSE]}

(* Gem5CoreMiniAxiWrapper::Step: the (one) handle after a clock whose      *)
(* rising edge left the pins p, and the firmware after it.                 *)
Clocked(p) ==
    LET calls == IF p.acc = pins.acc THEN b.calls ELSE <<>>
    IN  {WriteEdge(h, p) : h \in {ReadEdge([b EXCEPT !.calls = calls], p)}}

Goes(p) == IF pins.busy /\ ~p.busy THEN GoesOn(p.got[Len(p.got)].value) ELSE prog

(* coral_gem5_step: one clock of the core, with p on its pins, and of the  *)
(* MAC.                                                                    *)
Step(p) ==
    /\ b.slot = NoAccess
    /\ pins' = p
    /\ \E h \in Clocked(p) : b' = [h EXCEPT !.mac = StepIfActive(@)]
    /\ prog' = Goes(p)
    /\ UNCHANGED config

(* A clock in coral_gem5_mmio_{read,write}, whatever dma_pending says. *)
MmioClock ==
    /\ pins' \in RisingEdges
    /\ b' \in Clocked(pins')
    /\ prog' = Goes(pins')
    /\ UNCHANGED config

(* coral_gem5_dma_complete; the shell reports an error for an access       *)
(* outside of its window.                                                  *)
DmaComplete ==
    /\ b.slot # NoAccess
    /\ b' = [Answer(b, b.slot, b.slot.dest # "outside", 0) EXCEPT !.slot = NoAccess]
    /\ UNCHANGED <<config, pins, prog>>

(* The firmware begins a program, or the core is restarted in one. *)
Begin ==
    /\ ~pins.busy /\ prog.name = "idle"
    /\ \/ /\ "add" \in config.programs
          /\ \E l, r \in Word :
                prog' = [Idle EXCEPT !.name = "add", !.lhs = l, !.rhs = r]
       \/ /\ "conv" \in config.programs
          /\ \E c \in Convs : prog' = [Idle EXCEPT !.name = "conv", !.conv = c]
    /\ UNCHANGED <<config, pins, b>>

Restart ==
    /\ ~pins.busy /\ prog.name # "idle"
    /\ prog' = Idle
    /\ UNCHANGED <<config, pins, b>>

Next == (\E p \in RisingEdges : Step(p)) \/ MmioClock \/ DmaComplete \/ Begin \/ Restart

Spec == Init /\ [][Next]_vars

(***************************************************************************)
(* Fairness.  The shell steps the bridge again and again, and the memory   *)
(* answers.  The core, again and again, puts on its pins what it has to    *)
(* send, is ready for a response, and goes on to the next access of its    *)
(* program.                                                                *)
(***************************************************************************)
Eager(p) ==
    IF pins.busy
    THEN /\ p.acc.type = "read" => p.rready
         /\ p.acc.type = "write" => /\ p.bready /\ p.awsent
                                    /\ p.w # 0 \/ p.sent = p.acc.beats
    ELSE prog.name # "idle" => p.busy

EagerStep == \E p \in {q \in RisingEdges : Eager(q)} : Step(p)

FairSpec == Spec /\ WF_vars(DmaComplete) /\ SF_vars(EagerStep)

-----------------------------------------------------------------------------
TypeOK ==
    /\ config \in Configs
    /\ b.mac \in Macs
    /\ {b.rd.pending, b.rd.seen, b.wr.pending, b.wr.submitted} \subseteq BOOLEAN
    /\ Len(b.rd.responses) <= MaxBeats /\ Len(b.wr.data) <= MaxBeats
    /\ pins.sent \in 0 .. MaxBeats /\ pins.w \in 0 .. pins.sent
    /\ prog.name \in {"idle", "add", "conv"} /\ prog.pc \in 1 .. 9

(***************************************************************************)
(* An access reaches its callback once, with its write beats in order, and *)
(* before the core has a response to it: the handshake that the core sees  *)
(* is later than the one the adapter acts on, and neither the address that *)
(* stays up nor the data of the access before may be taken again.          *)
(***************************************************************************)
PerformedOnce ==
    /\ b.calls # <<>> =>
         b.calls = <<[acc |-> pins.acc,
                      data |-> IF pins.acc.type = "read" THEN <<>>
                               ELSE [i \in 1 .. pins.acc.beats |-> i]]>>
    /\ pins.got # <<>> => b.calls # <<>>

(***************************************************************************)
(* The core takes the beats of its own access, each once and in order: the *)
(* adapters predict at the falling edge which beat the next rising edge    *)
(* takes, and drop that one.                                               *)
(***************************************************************************)
OwnResponse ==
    LET got == pins.got
    IN  got # <<>> =>
          got = SubSeq(ResponseBeats(pins.acc, got[1].ok, got[1].value),
                       1, Len(got))

(***************************************************************************)
(* The handle of CoralBridge: an adapter holds the access from its         *)
(* callback until the core has taken the last beat of the answer, and      *)
(* registers and local EXTMEM are the accesses answered in the callback.   *)
(***************************************************************************)
Dest(acc) ==
    CASE acc.dest \in {"mac", "op"} \/ IsLocal(acc) -> "device"
      [] acc.dest = "extmem" /\ ~config.local -> "shared"
      [] OTHER -> acc.dest

CB == INSTANCE CoralBridge
        WITH Dests <- {"shared", "outside", "bad", "device"},
             Environments <- {[inOrderCore |-> TRUE, midRunReset |-> FALSE,
                               drainWrites |-> FALSE]},
             env <- [inOrderCore |-> TRUE, midRunReset |-> FALSE,
                     drainWrites |-> FALSE]

Request(acc) == IF acc = NoAccess THEN CB!NoRequest
                ELSE [type |-> acc.type, dest |-> Dest(acc)]

Response(d) == CASE d.responses = <<>> -> "none"
                 [] d.responses # <<>> -> IF Head(d.responses).ok THEN "ok" ELSE "error"

Handle ==
    LET adapter == [read |-> b.rd, write |-> b.wr]
    IN  [core |-> "run",
         expects |-> {c \in CB!Channels : adapter[c].pending},
         axi |-> [c \in CB!Channels |-> IF adapter[c].pending
                                        THEN Request(pins.acc) ELSE CB!NoRequest],
         resp |-> [c \in CB!Channels |-> Response(adapter[c])],
         dma_pending |-> b.slot # NoAccess, pending_dma |-> Request(b.slot),
         fault_seen |-> FALSE]

(***************************************************************************)
(* The adapters implement the transactions of CoralBridge: beat by beat,   *)
(* with every handshake, each clock of the pins is one clock of a handle   *)
(* there, and a completion is its completion.                              *)
(***************************************************************************)
ImplementsBridge ==
    [][\/ Handle' \in CB!Clock(Handle)
       \/ \E error \in BOOLEAN :
            /\ CB!DmaCompleteAccepted(Handle, b.slot.type, error)
            /\ Handle' = CB!DmaComplete(Handle, error)]_vars

(***************************************************************************)
(* custom_add returns the sum of its own arguments, although a restart may *)
(* leave the MAC busy with the operands of the program before, a command   *)
(* to a busy MAC is ignored, and the MAC stands still in MMIO clocks.      *)
(***************************************************************************)
AddCorrect ==
    prog.end = "added" => prog.result = (prog.lhs + prog.rhs) % Words

(***************************************************************************)
(* The six blocks staged for a convolution are apart from each other and   *)
(* within the staging arena, whatever the dimensions.                      *)
(***************************************************************************)
StagedApart ==
    prog.name = "conv" /\ prog.pc >= 5 =>
        LET blocks == Blocks(prog.conv)
            arena == ExtmemBase + StagingOffset
        IN  /\ \A i \in 1 .. 6 :
                 /\ blocks[i].addr >= arena
                 /\ blocks[i].addr + blocks[i].size <= arena + StagingSize
            /\ \A i, j \in 1 .. 6 :
                 i < j => blocks[i].addr + blocks[i].size <= blocks[j].addr

(***************************************************************************)
(* With a local EXTMEM the bridge accepts every descriptor the firmware    *)
(* submits: only the kernel may refuse it.                                 *)
(***************************************************************************)
DescriptorAccepted ==
    config.local => b.op.desc.error \in {"NONE", "EXECUTION"}

(***************************************************************************)
(* A convolution reported done was executed by the bridge for this         *)
(* submission; one left to the RTL kernel was never submitted.             *)
(***************************************************************************)
HybridHonest ==
    /\ prog.end = "ok" => b.op.ran = prog.conv
    /\ prog.end = "rtl" => ~prog.rang

(* A program ends: custom_add does not poll for ever, which it would if    *)
(* the bridge clocked the MAC less often than a command takes.             *)
ProgramEnds == prog.name # "idle" ~> prog.name = "idle"
=============================================================================
