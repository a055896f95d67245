---------------------------- MODULE ReorderLoops ----------------------------
(***************************************************************************)
(* drainLocked, flushLocked and expireLocked of internal/reorder/buffer.go,*)
(* loop by loop, on a record of the fields they touch.  `sent' is the      *)
(* sequence of packets handed to deliver, in the order of the calls.       *)
(***************************************************************************)
EXTENDS Integers, Sequences

CONSTANTS Size, SeqSpace

EmptySlot == [occupied |-> FALSE, seq |-> 0, age |-> 0]

(* deliver, clear the slot, b.occupied-- *)
Release(b, i) ==
  [b EXCEPT !.sent = Append(@, b.slots[i].seq),
            !.slots[i] = EmptySlot,
            !.occupied = @ - 1]

RECURSIVE DrainLoop(_)
DrainLoop(b) ==
  LET i == b.next % Size
  IN  IF ~b.slots[i].occupied \/ b.slots[i].seq # b.next
      THEN b
      ELSE DrainLoop([Release(b, i) EXCEPT !.next = (b.next + 1) % SeqSpace])

RECURSIVE FlushLoop(_, _)
FlushLoop(b, k) ==
  LET i == ((b.next + k) % SeqSpace) % Size
  IN  IF k >= Size \/ b.occupied <= 0
      THEN b
      ELSE FlushLoop(IF b.slots[i].occupied THEN Release(b, i) ELSE b, k + 1)

(* The first waiting position at or after the release point; Size if none. *)
RECURSIVE FirstFrom(_, _)
FirstFrom(b, k) ==
  IF k = Size \/ b.slots[((b.next + k) % SeqSpace) % Size].occupied
  THEN k
  ELSE FirstFrom(b, k + 1)

RECURSIVE ExpireLoop(_, _)
ExpireLoop(b, h) ==
  LET k == FirstFrom(b, 0)
      i == ((b.next + k) % SeqSpace) % Size
  IN  IF b.occupied <= 0 \/ k = Size \/ b.slots[i].age < h
      THEN b
      ELSE ExpireLoop(DrainLoop([b EXCEPT !.next = b.slots[i].seq]), h)

============================================================================
