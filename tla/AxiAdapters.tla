---------------------------- MODULE AxiAdapters ----------------------------
(***************************************************************************)
(* The two AXI master adapters of the bridge at the level of the channel   *)
(* signals (gem5_axi_master_drivers.h).  An adapter is a record; its       *)
(* OnFallingEdge is an operator from the adapter and the core's pins to    *)
(* the adapter after the edge.                                             *)
(*                                                                         *)
(* Pins of the core, as a record:                                          *)
(*   ar, aw           ARVALID, AWVALID                                     *)
(*   w                the number of the write beat on the W channel, or 0  *)
(*   rready, bready   RREADY, BREADY                                       *)
(*   acc              the access whose address and data the pins carry     *)
(* A core samples the adapters' outputs at the rising edge that follows;   *)
(* the adapters see its pins at the falling edge after that.               *)
(***************************************************************************)
EXTENDS Integers, Sequences

(* ready, valid: the outputs addr_ready and data_valid.  hs: the handshake *)
(* that the next rising edge will perform, response_handshake_pending_.    *)
NewReadDriver ==
    [ready |-> TRUE, valid |-> FALSE, hs |-> FALSE, responses |-> <<>>,
     pending |-> FALSE, seen |-> FALSE]

NewWriteDriver ==
    [awready |-> FALSE, wready |-> FALSE, valid |-> FALSE, hs |-> FALSE,
     responses |-> <<>>, pending |-> FALSE, captured |-> FALSE,
     complete |-> FALSE, submitted |-> FALSE, data |-> <<>>]

(* Mutant: room for one response. *)
QueueResponse_One(d, beats) == [d EXCEPT !.responses = <<beats[Len(beats)]>>]

QueueResponse(d, beats) == [d EXCEPT !.responses = @ \o beats]

-----------------------------------------------------------------------------
(* The responses left after the one that the core took, if it took one. *)
Left(d) == IF d.hs THEN Tail(d.responses) ELSE d.responses

(* Mutant: the first beat of a burst retires the request. *)
ReadPending_FirstBeat(d) == d.pending /\ ~d.hs

(* request_pending_ after the response: the last beat retires a request. *)
ReadPending(d) == d.pending /\ ~(d.hs /\ Head(d.responses).last)

(* The edge captures an address: a handshake on the old ready, of a        *)
(* request that has not been seen and with none pending.                   *)
TakesAddress(d, pins) ==
    pins.ar /\ d.ready /\ ~(d.seen /\ pins.ar) /\ ~ReadPending(d)

(* Gem5AxiMasterReadDriver::OnFallingEdge up to the capture. *)
ReadDrives(d, pins) ==
    LET left == Left(d)
    IN  [d EXCEPT !.responses = left, !.pending = ReadPending(d),
                  !.seen = @ /\ pins.ar, !.ready = ~ReadPending(d),
                  !.valid = left # <<>>, !.hs = left # <<>> /\ pins.rready]

(* The capture; the callback runs on the result. *)
ReadTakes(d) == [d EXCEPT !.seen = TRUE, !.pending = TRUE, !.ready = FALSE]

-----------------------------------------------------------------------------
(* Gem5AxiMasterWriteDriver::OnFallingEdge up to the captures: a response  *)
(* that the core took releases the whole request.                          *)
WriteDrives(d, pins) ==
    LET left == Left(d)
    IN  [d EXCEPT !.responses = left, !.pending = @ /\ ~d.hs,
                  !.captured = @ /\ ~d.hs, !.complete = @ /\ ~d.hs,
                  !.submitted = @ /\ ~d.hs,
                  !.data = IF d.hs THEN <<>> ELSE @,
                  !.valid = left # <<>>, !.hs = left # <<>> /\ pins.bready]

(* The captures of address and data, each on its own handshake with the    *)
(* ready signals of the edge before.                                       *)
WriteCaptures(d, pins) ==
    LET beat == pins.w # 0 /\ d.wready /\ ~d.complete
    IN  [d EXCEPT !.captured = @ \/ (pins.aw /\ d.awready),
                  !.data = IF beat THEN Append(@, pins.w) ELSE @,
                  !.complete = @ \/ (beat /\ pins.w = pins.acc.beats)]

(* Mutant: a write that has been submitted is submitted again. *)
Submits_Again(d) == d.captured /\ d.complete

Submits(d) == d.captured /\ d.complete /\ ~d.submitted

Submitted(d) == [d EXCEPT !.submitted = TRUE, !.pending = TRUE]

(* The ready signals at the end of the edge. *)
WriteReadies(d) ==
    [d EXCEPT !.awready = ~d.pending /\ ~d.captured,
              !.wready = ~d.pending /\ ~d.complete /\ Len(d.data) < 256]
=============================================================================
