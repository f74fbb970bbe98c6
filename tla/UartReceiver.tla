--------------------------- MODULE UartReceiver ---------------------------
(***************************************************************************)
(* hardware/vsrc/io_circuits/uart_receiver.v, one step per clock edge.     *)
(* There is no data buffer: data_out is a slice of the shift register      *)
(* itself.  Only bit_counter and clock_counter see the reset input.        *)
(***************************************************************************)
EXTENDS Eecs151

CONSTANT SYMBOL_EDGE_TIME    \* CLOCK_FREQ / BAUD_RATE

(* With fewer than four cycles per symbol SAMPLE_TIME - 1 is the resting   *)
(* value 0 of clock_counter and the register shifts while idle.            *)
ASSUME SymbolAssumption == SYMBOL_EDGE_TIME \in Nat /\ SYMBOL_EDGE_TIME >= 4

VARIABLES rx_shift,       \* [0..9 -> {0,1}], 0 the bit sampled first
          bit_counter, clock_counter, has_byte, start

rxVars == <<rx_shift, bit_counter, clock_counter, has_byte, start>>

(* Mutants: sampling close to an edge of the symbol, the stop bit counted  *)
(* as an eleventh symbol, a byte read from the wrong end of the shift      *)
(* register.                                                               *)
SampleLate == clock_counter = SYMBOL_EDGE_TIME - 3
DoneLate == bit_counter = 10 /\ clock_counter = SYMBOL_EDGE_TIME \div 2 - 1
DataLow == [i \in 0..7 |-> rx_shift[i]]

SAMPLE_TIME == SYMBOL_EDGE_TIME \div 2
symbol_edge == clock_counter = SYMBOL_EDGE_TIME - 1
sample_time == clock_counter = SAMPLE_TIME - 1
done == bit_counter = 9 /\ sample_time

data_out == [i \in 0..7 |-> rx_shift[i + 1]]
data_out_valid == has_byte
data_out_fire(ready) == data_out_valid /\ ready

(* {serial_in, rx_shift_value[9:1]}                                        *)
rx_shift_next(serial_in) == [i \in 0..9 |-> IF i = 9 THEN serial_in ELSE rx_shift[i + 1]]

RxInit == /\ rx_shift = [i \in 0..9 |-> 0]
          /\ bit_counter = 0
          /\ clock_counter = 0
          /\ has_byte = FALSE
          /\ start = FALSE

(* One clock edge; ready is data_out_ready.                                *)
RxCycle(reset, serial_in, ready) ==
  /\ rx_shift' = RegisterCE(rx_shift, rx_shift_next(serial_in), sample_time)
  /\ bit_counter' = RegisterRCE(bit_counter, 0, bit_counter + 1, done \/ reset, symbol_edge)
  /\ clock_counter' = RegisterRCE(clock_counter, 0, clock_counter + 1,
                                  symbol_edge \/ done \/ reset, start)
  /\ has_byte' = RegisterRCE(has_byte, FALSE, TRUE, data_out_fire(ready), done)
  /\ start' = RegisterRCE(start, FALSE, TRUE, done, serial_in = 0 /\ bit_counter = 0)

RxNext == \E reset \in BOOLEAN, serial_in \in Bit, ready \in BOOLEAN :
            RxCycle(reset, serial_in, ready)

RxSpec == RxInit /\ [][RxNext]_rxVars

-----------------------------------------------------------------------------
(* The counters stay in range and move together: the ninth data-or-stop    *)
(* symbol is never counted past its sample, so the four-bit counter can    *)
(* not run beyond the frame, whatever the line carries and whenever reset  *)
(* strikes; a frame in progress always has start set.                      *)
RxTypeOK ==
  /\ rx_shift \in [0..9 -> Bit]
  /\ bit_counter \in 0..9
  /\ clock_counter \in 0..(SYMBOL_EDGE_TIME - 1)
  /\ has_byte \in BOOLEAN
  /\ start \in BOOLEAN

StaysInFrame ==
  /\ bit_counter = 9 => clock_counter < SAMPLE_TIME
  /\ (bit_counter > 0 \/ clock_counter > 0) => start

=============================================================================
