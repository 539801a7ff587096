---------------------------- MODULE ByteChannel ----------------------------
(***************************************************************************)
(* What the two-thread mode may do to a file on its way from the source to *)
(* the destination, with no thread, index or flag in sight: bytes are      *)
(* offered in file order to a queue of bounded capacity, a byte offered to *)
(* a full queue is lost, and what is in the queue leaves it from the front *)
(* in blocks that are appended to the output.  MultiThreadTask implements  *)
(* this specification.                                                     *)
(*                                                                         *)
(* A byte is represented by its offset in the source file, 1 .. FileSize:  *)
(* the code never looks at the value of a byte, and offsets tell lost,     *)
(* repeated and reordered bytes apart even where their values are equal.   *)
(***************************************************************************)
EXTENDS Naturals, Sequences

CONSTANTS
  FileSize,   \* number of bytes of the source file
  Capacity,   \* number of bytes the queue holds
  Faults      \* which of {"reader", "writer"} may throw, see MultiThreadTask

VARIABLES
  next,       \* offset of the next byte to offer
  queue,      \* bytes accepted and not yet taken
  block,      \* bytes taken and not yet in the output
  output,     \* the destination file
  open        \* nobody has asked the transfer to stop

vars == <<next, queue, block, output, open>>

Init ==
  /\ next = 1
  /\ queue = <<>>
  /\ block = <<>>
  /\ output = <<>>
  /\ open = TRUE

(* The next byte of the file is accepted. *)
Put ==
  /\ next <= FileSize
  /\ Len(queue) < Capacity
  /\ queue' = Append(queue, next)
  /\ next' = next + 1
  /\ UNCHANGED <<block, output, open>>

(* The next byte of the file finds the queue full and is lost. *)
Drop ==
  /\ next <= FileSize
  /\ Len(queue) = Capacity
  /\ next' = next + 1
  /\ UNCHANGED <<queue, block, output, open>>

(* After the stop the rest of the file may be read and thrown away. *)
Skip ==
  /\ ~open
  /\ next' \in next .. FileSize + 1
  /\ UNCHANGED <<queue, block, output, open>>

(* Any number of bytes leave the queue from its front. *)
Take ==
  /\ block = <<>>
  /\ \E n \in 1 .. Len(queue) :
       /\ block' = SubSeq(queue, 1, n)
       /\ queue' = SubSeq(queue, n + 1, Len(queue))
  /\ UNCHANGED <<next, output, open>>

(* The block in hand is appended to the output. *)
Write ==
  /\ output' = output \o block
  /\ block' = <<>>
  /\ UNCHANGED <<next, queue, open>>

(* The output fails: the block in hand is lost and the transfer stops. *)
Abandon ==
  /\ "writer" \in Faults
  /\ block' = <<>>
  /\ open' = FALSE
  /\ UNCHANGED <<next, queue, output>>

(* The transfer is asked to stop, whatever is still in the queue. *)
Close ==
  /\ open' = FALSE
  /\ UNCHANGED <<next, queue, block, output>>

Next == Put \/ Drop \/ Skip \/ Take \/ Write \/ Abandon \/ Close

Spec == Init /\ [][Next]_vars

(* Everything accepted and not lost with a failing output, oldest first. *)
Stream == output \o block \o queue

(***************************************************************************)
(* The destination file, the block in hand and the queue, read in this     *)
(* order, hold bytes of the source in the order of the source, none twice. *)
(***************************************************************************)
InOrder ==
  /\ \A i \in 1 .. Len(Stream) : Stream[i] \in 1 .. next - 1
  /\ \A i, j \in 1 .. Len(Stream) : i < j => Stream[i] < Stream[j]
=============================================================================
