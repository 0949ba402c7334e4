----------------------------- MODULE CustomMac -----------------------------
(***************************************************************************)
(* The custom multiply-accumulate unit: its register RTL                   *)
(* (OpenNpuXCustomMac.sv) and the class that clocks it (gem5_custom_mac.h). *)
(* A word is a number below Words.  The cycle counter is left out.         *)
(***************************************************************************)
EXTENDS Integers

CONSTANT Words   \* the number of values a word has, 2^32 in the code

ASSUME WordsAssumption == Words \in Nat /\ Words > 1

Word == 0 .. Words - 1

Macs == [a : Word, b : Word, acc : Word, result : Word,
         countdown : 0 .. 3, busy : BOOLEAN, done : BOOLEAN, active : 0 .. 3]

NewMac == [a |-> 0, b |-> 0, acc |-> 0, result |-> 0, countdown |-> 0,
           busy |-> FALSE, done |-> FALSE, active |-> 0]

(* One clock of the RTL without a register write. *)
MacStep(m) ==
    IF ~m.busy THEN m
    ELSE IF m.countdown = 1
         THEN [m EXCEPT !.result = (m.a * m.b + m.acc) % Words,
                        !.countdown = 0, !.busy = FALSE, !.done = TRUE]
         ELSE [m EXCEPT !.countdown = @ - 1]

(* Mutant: a command leaves the done bit of the one before. *)
MacWrite_KeepsDone(m, reg, v) ==
    LET n == MacStep(m)
    IN CASE reg = "A"   -> [n EXCEPT !.a = v]
         [] reg = "B"   -> [n EXCEPT !.b = v]
         [] reg = "ACC" -> [n EXCEPT !.acc = v]
         [] OTHER       -> IF m.busy THEN n
                           ELSE [n EXCEPT !.countdown = 3, !.busy = TRUE]

(* One clock with write_en: the write beside the computation.  A command   *)
(* to a busy unit is ignored.                                              *)
MacWrite(m, reg, v) ==
    LET n == MacStep(m)
    IN CASE reg = "A"   -> [n EXCEPT !.a = v]
         [] reg = "B"   -> [n EXCEPT !.b = v]
         [] reg = "ACC" -> [n EXCEPT !.acc = v]
         [] OTHER       -> IF m.busy THEN n
                           ELSE [n EXCEPT !.countdown = 3, !.busy = TRUE,
                                          !.done = FALSE]

(* Mutant: one clock too few. *)
Write32_TwoCycles(m, reg, v) ==
    LET n == MacWrite(m, reg, v)
    IN IF reg = "COMMAND" THEN [n EXCEPT !.active = 2] ELSE n

(* Gem5CustomMac::Write32; every command written has bit 0 set. *)
Write32(m, reg, v) ==
    LET n == MacWrite(m, reg, v)
    IN IF reg = "COMMAND" THEN [n EXCEPT !.active = 3] ELSE n

Read32(m, reg) ==
    CASE reg = "STATUS" -> IF m.done THEN 1 ELSE 0
      [] reg = "RESULT" -> m.result

StepIfActive(m) ==
    IF m.active = 0 THEN m ELSE [MacStep(m) EXCEPT !.active = @ - 1]
=============================================================================
