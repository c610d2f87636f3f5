-------------------------------- MODULE Fifo --------------------------------
(***************************************************************************)
(* TFifo (io_stream_fifo.hpp): a ring of N_ITEMS slots through which one   *)
(* fiber feeds another.  Write() and Ensure() switch straight to the other *)
(* fiber when they cannot go on, so that either may be in the middle of    *)
(* its call while the other one works on the same ring.                    *)
(*                                                                         *)
(* Producer and Consumer may be the same fiber.  In between two calls a    *)
(* fiber may do anything: offer items, take items, close its side, wait,   *)
(* or end.  An operator X_Y next to X is X with a plausible mistake.        *)
(***************************************************************************)
EXTENDS Integers, Sequences

CONSTANTS
  N_ITEMS,
  Producer, Consumer, \* the fibers given to the constructor
  Null,
  MaxItems            \* bound on the items offered

ASSUME SizeAssumption == N_ITEMS \in Nat /\ N_ITEMS >= 2
ASSUME FiberAssumption == Null \notin {Producer, Consumer}
ASSUME ItemsAssumption == MaxItems \in Nat

VARIABLES
  idx_write, \* N_ITEMS when the ring is full
  idx_read,
  arr_items_fifo,
  fib_producer, fib_consumer, \* Null when that side is closed
  running,   \* the fiber that runs, Null while it is another one of the thread
  alive,     \* the fibers that are alive
  waiting,   \* the fibers inside WaitFor() on the waitable of their side
  writing,   \* the items still to be written by the Write() under way, or Null
  ensuring,  \* the Ensure() under way: count and, behind SwitchTo, before
  sent       \* the number of items put into the ring

ring == <<idx_write, idx_read, arr_items_fifo, sent>>
ends == <<fib_producer, fib_consumer>>
sched == <<running, alive, waiting>>
vars == <<ring, ends, sched, writing, ensuring>>

Fibers == {Producer, Consumer}
Slots == 0..(N_ITEMS - 1)
Lesser(a, b) == IF a <= b THEN a ELSE b

Count ==
  IF idx_write = N_ITEMS THEN N_ITEMS
  ELSE IF idx_write >= idx_read THEN idx_write - idx_read
  ELSE (N_ITEMS - idx_read) + idx_write

Space ==
  IF idx_write = N_ITEMS THEN 0
  ELSE IF idx_write >= idx_read THEN (N_ITEMS - idx_write) + idx_read
  ELSE idx_read - idx_write

Item(index) == arr_items_fifo[(idx_read + index) % N_ITEMS]
Contents == [i \in 1..Count |-> Item(i - 1)]

(* The contiguous prefix that Head() returns.                              *)
HeadCount == Lesser(Count, N_ITEMS - idx_read)

Init ==
  /\ idx_write = 0 /\ idx_read = 0
  /\ arr_items_fifo = [k \in Slots |-> 0]
  /\ fib_producer = Producer /\ fib_consumer = Consumer
  /\ running = Null
  /\ alive = Fibers
  /\ waiting = {}
  /\ writing = Null /\ ensuring = Null
  /\ sent = 0

-----------------------------------------------------------------------------
(* Work on the ring                                                        *)

(* The loop of Write() that stores w items, and the marker of a full ring. *)
Put_Unmarked(w) ==
  /\ arr_items_fifo' = [k \in Slots |->
                          LET i == (k + N_ITEMS - idx_write) % N_ITEMS
                          IN  IF i < w THEN sent + i + 1 ELSE arr_items_fifo[k]]
  /\ idx_write' = (idx_write + w) % N_ITEMS
  /\ sent' = sent + w
  /\ UNCHANGED idx_read
Put(w) ==
  /\ arr_items_fifo' = [k \in Slots |->
                          LET i == (k + N_ITEMS - idx_write) % N_ITEMS
                          IN  IF i < w THEN sent + i + 1 ELSE arr_items_fifo[k]]
  /\ LET end == (idx_write + w) % N_ITEMS
     IN  idx_write' = IF end = idx_read THEN N_ITEMS ELSE end
  /\ sent' = sent + w
  /\ UNCHANGED idx_read

Shift_Unwrapped(n) ==
  /\ n <= Count
  /\ idx_write' = IF idx_write = N_ITEMS THEN idx_read ELSE idx_write
  /\ idx_read' = IF idx_read + n > N_ITEMS THEN idx_read + n - N_ITEMS ELSE idx_read + n
  /\ UNCHANGED <<arr_items_fifo, sent>>
Shift(n) ==
  /\ n <= Count
  /\ idx_write' = IF idx_write = N_ITEMS THEN idx_read ELSE idx_write
  /\ idx_read' = (idx_read + n) % N_ITEMS
  /\ UNCHANGED <<arr_items_fifo, sent>>

(* The items are rotated to the front of the array.                        *)
Linearize_Wrapped ==
  /\ arr_items_fifo' = [k \in Slots |-> arr_items_fifo[(idx_read + k) % N_ITEMS]]
  /\ idx_read' = 0
  /\ idx_write' = Count % N_ITEMS
  /\ UNCHANGED sent
Linearize ==
  /\ arr_items_fifo' = [k \in Slots |-> arr_items_fifo[(idx_read + k) % N_ITEMS]]
  /\ idx_read' = 0
  /\ idx_write' = IF Count = N_ITEMS THEN N_ITEMS ELSE Count
  /\ UNCHANGED sent

-----------------------------------------------------------------------------
(* Both sides are open and belong to different fibers, so that a call may  *)
(* hand over to the other fiber.                                           *)
Coupled == Producer # Consumer /\ fib_producer # Null /\ fib_consumer # Null

(* SwitchTo(): f runs, and returns from WaitFor() if it was inside.        *)
SwitchTo(f) ==
  /\ running' = f
  /\ waiting' = waiting \ {f}
  /\ UNCHANGED alive

(* No call of the running fiber is under way.                              *)
Free == /\ running = Producer => writing = Null
        /\ running = Consumer => ensuring = Null

Write(n) ==
  /\ Free /\ running = Producer /\ fib_producer # Null
  /\ sent + n <= MaxItems
  /\ writing' = n
  /\ UNCHANGED <<ring, ends, sched, ensuring>>

(* A turn of the loop in Write(); the call returns when all is written or  *)
(* the other fiber left no space.                                          *)
WriteTurn ==
  /\ running = Producer /\ writing # Null
  /\ \/ /\ writing > 0 /\ Space > 0
        /\ LET w == Lesser(Space, writing)
           IN  /\ Put(w)
               /\ writing' = writing - w
               /\ IF writing > w /\ Coupled /\ Consumer \in alive
                  THEN SwitchTo(Consumer) ELSE UNCHANGED sched
     \/ /\ writing = 0 \/ Space = 0
        /\ writing' = Null
        /\ UNCHANGED <<ring, sched>>
  /\ UNCHANGED <<ends, ensuring>>

Ensure(n) ==
  /\ Free /\ running = Consumer /\ fib_consumer # Null
  /\ n <= N_ITEMS
  /\ ensuring' = [count |-> n, before |-> -1]
  /\ UNCHANGED <<ring, ends, sched, writing>>

(* A turn of the loop in Ensure(), which gives up when the producer has    *)
(* run and brought nothing.                                                *)
Fruitless == ensuring.before >= Count
EnsureGoesOn ==
  Count < ensuring.count /\ Coupled /\ Producer \in alive /\ ~Fruitless
EnsureTurn ==
  /\ running = Consumer /\ ensuring # Null
  /\ EnsureGoesOn
  /\ ensuring' = [ensuring EXCEPT !.before = Count]
  /\ SwitchTo(Producer)
  /\ UNCHANGED <<ring, ends, writing>>

EnsureReturns ==
  /\ running = Consumer /\ ensuring # Null
  /\ ~EnsureGoesOn
  /\ IF ensuring.count \in 1..Count /\ HeadCount < Count
     THEN Linearize ELSE UNCHANGED ring
  /\ ensuring' = Null
  /\ UNCHANGED <<ends, sched, writing>>

(* Shift() of n items that the consumer has looked at.                     *)
Take(n) ==
  /\ Free /\ running = Consumer
  /\ Shift(n)
  /\ UNCHANGED <<ends, sched, writing, ensuring>>

CloseInput ==
  /\ Free /\ running = Consumer
  /\ fib_consumer' = Null
  /\ UNCHANGED <<ring, fib_producer, sched, writing, ensuring>>

CloseOutput ==
  /\ Free /\ running = Producer
  /\ fib_producer' = Null
  /\ UNCHANGED <<ring, fib_consumer, sched, writing, ensuring>>

-----------------------------------------------------------------------------
(* Scheduling                                                              *)

(* TInputWaitable and TOutputWaitable.                                     *)
InputReady_WhileAlive == Count > 0 \/ fib_producer = Null
InputReady == Count > 0 \/ fib_producer = Null \/ fib_producer \notin alive
OutputReady == Space > 0 \/ fib_consumer = Null \/ fib_consumer \notin alive
IsReady(f) == IF f = Consumer THEN InputReady ELSE OutputReady

CanRun(f) == f \in alive /\ (f \in waiting => IsReady(f))

(* The running fiber gives up the processor: it yields, or it waits on     *)
(* OnInputReady() or OnOutputReady(), which it does only when these are    *)
(* not null, or it ends.                                                   *)
GiveUp ==
  /\ Free /\ running # Null
  /\ running' = Null
  /\ \/ UNCHANGED <<alive, waiting>>
     \/ /\ Producer # Consumer
        /\ fib_producer \in alive /\ fib_consumer \in alive
        /\ waiting' = waiting \cup {running}
        /\ UNCHANGED alive
     \/ /\ alive' = alive \ {running}
        /\ UNCHANGED waiting
  /\ UNCHANGED <<ring, ends, writing, ensuring>>

(* The scheduler picks a fiber that can run.                               *)
Pick ==
  /\ running = Null
  /\ \E f \in Fibers : CanRun(f) /\ SwitchTo(f)
  /\ UNCHANGED <<ring, ends, writing, ensuring>>

ProducerCalls == (\E n \in 1..(N_ITEMS + 1) : Write(n)) \/ WriteTurn \/ CloseOutput
ConsumerCalls ==
  \/ \E n \in 1..N_ITEMS : Ensure(n) \/ Take(n)
  \/ EnsureTurn \/ EnsureReturns \/ CloseInput

Next == ProducerCalls \/ ConsumerCalls \/ GiveUp \/ Pick

Spec == Init /\ [][Next]_vars

-----------------------------------------------------------------------------
(* Properties                                                              *)

TypeOK ==
  /\ idx_write \in 0..N_ITEMS /\ idx_read \in Slots
  /\ arr_items_fifo \in [Slots -> 0..MaxItems]
  /\ fib_producer \in {Producer, Null} /\ fib_consumer \in {Consumer, Null}
  /\ running \in alive \cup {Null} /\ alive \subseteq Fibers /\ waiting \subseteq Fibers
  /\ writing \in 0..(N_ITEMS + 1) \cup {Null}
  /\ ensuring \in [count : 1..N_ITEMS, before : -1..N_ITEMS] \cup {Null}
  /\ sent \in 0..MaxItems

(* The ring is a queue: Write() appends and Shift() removes, and Ensure()  *)
(* moves the items without changing the queue.                             *)
Queue == INSTANCE BoundedQueue WITH Size <- N_ITEMS, queue <- Contents
KeepsQueue == Queue!Spec

(* "Returns true iff Head().Count() >= count afterwards", which it is      *)
(* whenever that many items are in the ring.                               *)
EnsureContiguous ==
  [][ensuring # Null /\ ensuring' = Null /\ Count >= ensuring.count
       => HeadCount' >= ensuring.count]_vars

(* The fibers do not wait for each other: as long as one is alive, one can *)
(* run.                                                                    *)
SomeoneCanRun == running = Null /\ alive # {} => \E f \in Fibers : CanRun(f)

=============================================================================
