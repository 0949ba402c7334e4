--------------------------- MODULE CoralFirmware ---------------------------
(***************************************************************************)
(* The programs of the NPU that talk to the host through the shared        *)
(* window: gem5_dma_smoke.c, gem5_command_smoke.c and gem5_mobilenet.cc,   *)
(* between _start and mpause of coralnpu_start.S.  A program is the        *)
(* sequence of its accesses to the window; what it computes in between is  *)
(* part of the next access.  A field that is always written and checked    *)
(* together with another shares its location: "hdr" is the descriptor from *)
(* magic to output_size, "in1" a pair of inputs (its value is their sum),  *)
(* "count" the output_count and output_bytes of the mailbox.               *)
(***************************************************************************)
EXTENDS Naturals, Sequences

CONSTANTS
    MaxElements,  \* OPENNPUX_CORAL_TENSOR_MAX_ELEMENTS
    Jobs          \* what the host may ask for, named by positive numbers

ASSUME MaxElementsAssumption == MaxElements \in {1, 2}
ASSUME JobsAssumption == Jobs \subseteq Nat \ {0}

Firmwares == {"dma", "command", "mobilenet"}

Elements == 1 .. MaxElements

(* element_count of job j: small jobs leave elements of larger ones alone. *)
Count(j) == IF j < MaxElements THEN j ELSE MaxElements

InLoc(i) == <<"in1", "in2">>[i]
OutLoc(i) == <<"out1", "out2">>[i]

(* The sum of the two inputs that element i of job j has. *)
Sum(j, i) == 2 * j + i

Locs(firmware) ==
    CASE firmware = "dma" -> {"s0", "s1", "s2"}
      [] firmware = "command" ->
            {"hdr", "status", "error", "done"}
            \cup {InLoc(i) : i \in Elements} \cup {OutLoc(i) : i \in Elements}
      [] firmware = "mobilenet" -> {"magic", "state", "error", "count", "out"}

(* Codes of coral_command.h and coral_mobilenet.h, where they matter. *)
PENDING  == 0
RUNNING  == 1   \* COMMAND_RUNNING, MOBILENET_STARTED
COMPLETE == 2   \* COMMAND_COMPLETE, MOBILENET_COMPLETE
ERROR    == 3
READY    == 4   \* MOBILENET_TENSORS_READY
MAGIC    == 9

(***************************************************************************)
(* Instructions: an access, with the program counter that follows a write; *)
(* or the return of main, which ends in mpause or, when its value is not   *)
(* zero, in ebreak.                                                        *)
(***************************************************************************)
Write(l, v, next) == [op |-> "write", loc |-> l, val |-> v, next |-> next]
Read(l) == [op |-> "read", loc |-> l, val |-> 0, next |-> 0]
Return(code) == [op |-> "return", loc |-> "none", val |-> code, next |-> 0]

(* A core out of reset, at the first access of its program; `fresh' tells  *)
(* that the host call in progress started it.                              *)
StartedCore == [state |-> "run", pc |-> 0, i |-> 1, reg |-> 0, fresh |-> TRUE]

DmaSmoke(c) ==
    CASE c.pc = 0 -> {Read("s0")}
      [] c.pc = 1 -> {Read("s1")}
      [] c.pc = 2 -> {Write("s0", c.reg, 3)}
      [] c.pc = 3 -> {Write("s2", MAGIC, 4)}
      [] c.pc = 4 -> {Return(0)}

(* main and finish_error of the command firmware.  element_count is read   *)
(* again on every turn of the loop.                                        *)
CommandSmoke(c) ==
    CASE c.pc = 0 -> {Read("hdr")}
      [] c.pc = 1 -> {Write("status", RUNNING, 2)}
      [] c.pc = 2 -> {Write("error", 0, 3)}
      [] c.pc = 3 -> {Write("done", 0, 4)}
      [] c.pc = 4 -> {Read("hdr")}
      [] c.pc = 5 -> {Read(InLoc(c.i))}
      [] c.pc = 6 -> {Write(OutLoc(c.i), c.reg, 7)}
      [] c.pc = 7 -> {Write("done", c.i, 4)}
      [] c.pc = 8 -> {Write("status", COMPLETE, 9)}
      [] c.pc = 9 -> {Return(0)}
      [] c.pc = 20 -> {Write("error", 1, 21)}
      [] c.pc = 21 -> {Write("status", ERROR, 22)}
      [] c.pc = 22 -> {Return(1)}

(* main and Fail of the MobileNet firmware.  Allocation, inference and the *)
(* shape of the output (external) may each fail.                           *)
Mobilenet(c) ==
    CASE c.pc = 0 -> {Write("magic", MAGIC, 1)}
      [] c.pc = 1 -> {Write("state", RUNNING, 2)}
      [] c.pc = 2 -> {Write("error", 0, 3)}
      [] c.pc = 3 -> {Write("count", 0, 4)}
      [] c.pc = 4 -> {Write("state", READY, 5), Write("error", 1, 21)}
      [] c.pc = 5 -> {Write("out", 1, 6), Write("error", 1, 21)}
      [] c.pc = 6 -> {Write("count", 1, 7)}
      [] c.pc = 7 -> {Write("state", COMPLETE, 8)}
      [] c.pc = 8 -> {Return(0)}
      [] c.pc = 21 -> {Write("state", ERROR, 22)}
      [] c.pc = 22 -> {Return(1)}

Instructions(firmware, c) ==
    CASE firmware = "dma" -> DmaSmoke(c)
      [] firmware = "command" -> CommandSmoke(c)
      [] firmware = "mobilenet" -> Mobilenet(c)

(* A sum of dma_smoke beyond this is wrong, however large: each retry on a *)
(* word that an older run has overwritten adds the second word once more.  *)
MaxSum == 5

(* The core after a load has returned x. *)
AfterRead(firmware, c, x) ==
    CASE firmware = "dma" ->
            [c EXCEPT !.reg = IF @ + x < MaxSum THEN @ + x ELSE MaxSum,
                      !.pc = @ + 1]
      [] firmware = "command" /\ c.pc = 0 ->
            [c EXCEPT !.pc = IF x = 0 THEN 20 ELSE 1]
      [] firmware = "command" /\ c.pc = 4 ->
            [c EXCEPT !.pc = IF x # 0 /\ c.i <= Count(x) THEN 5 ELSE 8]
      [] firmware = "command" /\ c.pc = 5 -> [c EXCEPT !.reg = x, !.pc = 6]

(* The core after a store; the one of completed_elements ends a turn. *)
AfterWrite(firmware, c, next) ==
    [c EXCEPT !.pc = next,
              !.i = IF firmware = "command" /\ c.pc = 7 THEN @ + 1 ELSE @]
=============================================================================
