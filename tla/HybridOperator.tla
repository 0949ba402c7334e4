-------------------------- MODULE HybridOperator ---------------------------
(***************************************************************************)
(* The hybrid operators: the firmware's side, which stages tensors in      *)
(* EXTMEM and builds a descriptor (coral_operator_client.h, and            *)
(* TryHybridConvInvoke of gem5_mobilenet.cc), and the bridge's side, which *)
(* validates and executes it (gem5_hybrid_operator.cc).                    *)
(*                                                                         *)
(* Addresses and sizes are numbers below U, with C's wrap-around.  What a  *)
(* kernel computes is left out: fits says whether it accepts the shapes.   *)
(***************************************************************************)
EXTENDS Integers, SequencesExt

CONSTANTS
    U,              \* 2^32 in the code
    ExtmemBase, ExtmemSize,
    StagingOffset, StagingSize   \* the staging arena, from ExtmemBase on

ASSUME ExtmemAssumption ==
    /\ {U, ExtmemBase, ExtmemSize, StagingOffset, StagingSize} \subseteq Nat
    /\ 0 < ExtmemBase /\ ExtmemBase + ExtmemSize < U
    /\ StagingOffset + StagingSize <= ExtmemSize
    /\ (ExtmemBase + StagingOffset) % 16 = 0

MaxDims == 4

-----------------------------------------------------------------------------
(* TensorBytes: 0 for a tensor without dimensions, with too many or with a *)
(* bad one, and for a size that does not fit.                              *)
TensorBytes(dims, elementSize) ==
    IF Len(dims) \notin 1 .. MaxDims THEN 0
    ELSE FoldLeft(LAMBDA bytes, d :
                    IF bytes = 0 \/ d <= 0 \/ bytes > (U - 1) \div d THEN 0
                    ELSE bytes * d, elementSize, dims)

Fits(cursor, aligned, size) ==
    /\ aligned >= cursor /\ size <= StagingSize
    /\ aligned <= StagingSize - size

Aligned(cursor, alignment) ==
    LET top == (cursor + alignment - 1) % U IN top - (top % alignment)

(* Mutant: the cursor moves to the start of the block. *)
AllocateStaging_Overlaps(arena, size, alignment) ==
    LET aligned == Aligned(arena.cursor, alignment)
    IN  IF size = 0 \/ ~Fits(arena.cursor, aligned, size)
        THEN [arena EXCEPT !.blocks = Append(@, [addr |-> 0, size |-> size])]
        ELSE [cursor |-> aligned,
              blocks |-> Append(arena.blocks,
                                [addr |-> ExtmemBase + StagingOffset + aligned,
                                 size |-> size])]

(* AllocateStaging: the arena after it, with the block it returned, whose  *)
(* address is 0 when there is no room.                                     *)
AllocateStaging(arena, size, alignment) ==
    LET aligned == Aligned(arena.cursor, alignment)
    IN  IF size = 0 \/ ~Fits(arena.cursor, aligned, size)
        THEN [arena EXCEPT !.blocks = Append(@, [addr |-> 0, size |-> size])]
        ELSE [cursor |-> aligned + size,
              blocks |-> Append(arena.blocks,
                                [addr |-> ExtmemBase + StagingOffset + aligned,
                                 size |-> size])]

(***************************************************************************)
(* The blocks that TryHybridConvInvoke asks for: input, filter, bias and   *)
(* output, aligned to 16, then the multipliers and the shifts.             *)
(***************************************************************************)
Blocks(conv) ==
    LET quant == (conv.output[4] * 4) % U
        wanted == <<[size |-> TensorBytes(conv.input, 1), align |-> 16],
                    [size |-> TensorBytes(conv.filter, 1), align |-> 16],
                    [size |-> TensorBytes(conv.bias, 4), align |-> 16],
                    [size |-> TensorBytes(conv.output, 1), align |-> 16],
                    [size |-> quant, align |-> 4],
                    [size |-> quant, align |-> 4]>>
    IN  FoldLeft(LAMBDA arena, want :
                    AllocateStaging(arena, want.size, want.align),
                 [cursor |-> 0, blocks |-> <<>>], wanted).blocks

Staged(conv) == \A i \in 1 .. 6 : Blocks(conv)[i].addr # 0

-----------------------------------------------------------------------------
NoDescriptor == [state |-> "IDLE", error |-> "NONE", tensors |-> <<>>,
                 multiplier |-> 0, shift |-> 0, count |-> 0, fits |-> FALSE]

(* The descriptor when SubmitHybridOperator rings the doorbell. *)
Descriptor(conv) ==
    LET blocks == Blocks(conv)
    IN  [state |-> "SUBMITTED", error |-> "NONE",
         tensors |-> SubSeq(blocks, 1, 4),
         multiplier |-> blocks[5].addr, shift |-> blocks[6].addr,
         count |-> conv.output[4], fits |-> conv.fits]

(* Mutant: a range that ends with EXTMEM is refused. *)
RangeValid_OffByOne(address, size) ==
    /\ size # 0 /\ size <= ExtmemSize /\ address >= ExtmemBase
    /\ address - ExtmemBase < ExtmemSize - size

RangeValid(address, size) ==
    /\ size # 0 /\ size <= ExtmemSize /\ address >= ExtmemBase
    /\ address - ExtmemBase <= ExtmemSize - size

(* ValidateGem5HybridDescriptor: the first error it finds. *)
Validate(d) ==
    LET quant == d.count * 4
    IN  IF d.state # "SUBMITTED" THEN "BAD_DESCRIPTOR"
        ELSE IF \E i \in DOMAIN d.tensors :
                    ~RangeValid(d.tensors[i].addr, d.tensors[i].size)
        THEN "ADDRESS"
        ELSE IF (d.multiplier = 0) # (d.shift = 0) THEN "BAD_DESCRIPTOR"
        ELSE IF d.count # 0 /\ (\/ quant > U - 1
                                \/ ~RangeValid(d.multiplier, quant)
                                \/ ~RangeValid(d.shift, quant))
        THEN "ADDRESS"
        ELSE "NONE"

(* DispatchGem5HybridOperator, and what the doorbell does without a local  *)
(* EXTMEM to find tensors in.                                              *)
Dispatch(d, local) ==
    LET error == IF local THEN Validate(d) ELSE "ADDRESS"
    IN CASE error # "NONE" -> [d EXCEPT !.state = "ERROR", !.error = error]
         [] error = "NONE" /\ d.fits -> [d EXCEPT !.state = "COMPLETE"]
         [] OTHER -> [d EXCEPT !.state = "ERROR", !.error = "EXECUTION"]
=============================================================================
