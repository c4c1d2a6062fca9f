----------------------------- MODULE MCTransmit -----------------------------
(* Commands for TLC, with 256 scaled down to 3 (MCCalls).                  *)
EXTENDS Transmit

(* A command to a card that takes m bytes at a time.                       *)
Command(d, l, b, m) == [data |-> d, le |-> l, cap |-> b, send |-> m, extcard |-> FALSE,
                        chaining |-> FALSE, noresp |-> FALSE, noretry |-> FALSE]

(* Without data, within one APDU and too long for one; Le none, short,     *)
(* largest and too large; buffers smaller and larger than Le and than the  *)
(* answer.                                                                 *)
Plain == {Command(d, l, b, 2) : d \in {0, 2, 3}, l \in {0, 1, 3, 4}, b \in {0, 2, 5}}

(* One and two chunks and more.                                            *)
Chained == {[Command(d, l, b, 2) EXCEPT !.chaining = TRUE] :
              d \in {1, 2, 3, 4, 5}, l \in {0, 1, 3}, b \in {0, 2, 5}}

(* Extended APDUs, and chunks that are too long for a short one.           *)
Large == {[Command(d, l, 5, 4) EXCEPT !.extcard = TRUE, !.chaining = ch] :
            d \in {3, 5}, l \in {0, 3, 5}, ch \in BOOLEAN}

MCCalls == Plain \cup Chained \cup Large
           \cup {[Command(2, 3, 3, 2) EXCEPT !.noresp = TRUE],
                 [Command(2, 1, 3, 2) EXCEPT !.noretry = TRUE]}
=============================================================================
