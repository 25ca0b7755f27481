----------------------------- MODULE TouchPipeline -----------------------------
(***************************************************************************)
(* A touch on its way to the guest: the user interface queues it            *)
(* (queueTouch), the runtime loop moves a batch into the virtio touchscreen *)
(* (drainTouches, enqueueTouches), and the device turns one sample at a     *)
(* time into a frame of evdev events in the buffers the guest driver gives  *)
(* it.  The user interface, the runtime loop and the guest's vCPUs run      *)
(* concurrently under two locks that are never held together: the host lock *)
(* around the first queue and deviceLock around the device.                 *)
(***************************************************************************)
EXTENDS TouchMotionQueue

CONSTANTS
  Touches,              \* what the user interface may send
  HostCapacity,         \* maximumPendingTouchEvents
  MotionLimit,          \* maximumPendingMotionSamplesPerGesture, 2 in the code
  DeviceCapacity,       \* 256 in the code
  RingSize,             \* event buffers of the guest driver
  MaxTrackingID,        \* Int32.max in the code
  MaxTouches,           \* bound: touches in a behaviour
  MaxTouchResets        \* bound: device resets in a behaviour

ASSUME CapacityAssumption ==
  /\ HostCapacity \in Nat /\ HostCapacity >= 4
  /\ DeviceCapacity \in Nat /\ DeviceCapacity >= 4
  /\ MotionLimit \in Nat /\ MotionLimit >= 2
  /\ RingSize \in Nat \ {0} /\ MaxTrackingID \in Nat \ {0}

ASSUME TouchesAssumption ==
  Touches \subseteq [phase : Edges \cup {"move", "none"}, isDown : BOOLEAN, point : Nat \ {NoPoint}]

VARIABLES
  hostQueue,      \* pendingTouches
  runner,         \* the runtime loop: its step and what it read so far
  device,         \* the touchscreen: queue, events, contact, counters
  processing,     \* the thread in processInputEventQueue, under deviceLock
  touchReady,     \* queues[0].ready
  touchInterrupt,
  buffers,        \* guest memory: event buffers made available
  usedEvents,     \* guest memory: events in the used ring
  driver,         \* the guest driver: in its handler, owing a notification
  guest,          \* what the guest's input layer has seen of the contact
  sent, acceptedEdges, touchResets     \* touches sent; edges accepted; resets

ui == <<hostQueue, sent, acceptedEdges>>
virtio == <<touchReady, touchInterrupt>>
guestSide == <<buffers, usedEvents, driver, guest>>
touchVars == <<hostQueue, runner, device, processing, touchReady, touchInterrupt,
          buffers, usedEvents, driver, guest, sent, acceptedEdges, touchResets>>

NoContact == -1       \* tracking ID of a release

-----------------------------------------------------------------------------
(* The touchscreen *)

NewDevice ==
  [queue |-> EmptyQueue(DeviceCapacity, 0), pendingInputEvents |-> <<>>,
   touchContactActive |-> FALSE, nextTouchTrackingID |-> 0]

Event(kind, value) == [kind |-> kind, value |-> value, at |-> NoPoint]
Sync == Event("sync", 0)

(* The point a release happened at is not sent; the model remembers it *)
Release(point) == [kind |-> "contact", value |-> NoContact, at |-> point]

NextTrackingID(id) == IF id = MaxTrackingID THEN 0 ELSE id + 1

(* appendTouchFrameLocked *)
AppendTouchFrame(d, entry) ==
  LET time == Event("time", 0)
      add(events) == [d EXCEPT !.pendingInputEvents = @ \o events]
  IN  IF IsDown(entry.phase) /\ ~d.touchContactActive
      THEN [add(<<time, Event("contact", d.nextTouchTrackingID),
                  Event("position", entry.point), Sync>>)
              EXCEPT !.touchContactActive = TRUE,
                     !.nextTouchTrackingID = NextTrackingID(@)]
      ELSE IF IsDown(entry.phase)
      THEN add(<<time, Event("position", entry.point), Sync>>)
      ELSE IF d.touchContactActive
      THEN [add(<<time, Release(entry.point), Sync>>) EXCEPT !.touchContactActive = FALSE]
      ELSE add(<<time>>)

(* stageNextTouchFrame: a sample becomes events once all others are out *)
StageNextTouchFrame(d) ==
  IF d.pendingInputEvents = <<>> /\ d.queue.entries # <<>>
  THEN AppendTouchFrame([d EXCEPT !.queue = Drain(@, 1)], d.queue.entries[1])
  ELSE d

NotProcessing == [by |-> "nobody", available |-> 0, delivered |-> 0]
DeviceLockFree == processing.by = "nobody"

(* processInputEventQueue up to its loop *)
StartProcessing(by, d) ==
  LET staged == StageNextTouchFrame(d)
  IN  /\ device' = staged
      /\ processing' = [by |-> by, delivered |-> 0,
                        available |-> IF touchReady /\ staged.pendingInputEvents # <<>>
                                      THEN buffers ELSE 0]

(* One iteration of the loop: an event goes into a buffer *)
DeliverEvent ==
  LET event == Head(device.pendingInputEvents)
  IN
  /\ processing.available > 0
  /\ device.pendingInputEvents # <<>>
  /\ buffers' = buffers - 1
  /\ usedEvents' = Append(usedEvents, event)
  /\ device' = StageNextTouchFrame([device EXCEPT !.pendingInputEvents = Tail(@)])
  /\ processing' = [processing EXCEPT !.available = @ - 1, !.delivered = @ + 1]
  /\ UNCHANGED <<ui, runner, virtio, driver, guest, touchResets>>

(* Mutant of EndProcessing: the runtime loop does not raise the interrupt. *)
SilentEndProcessing ==
  /\ ~DeviceLockFree
  /\ processing.available = 0 \/ device.pendingInputEvents = <<>>
  /\ processing' = NotProcessing
  /\ touchInterrupt' = (touchInterrupt \/ (processing.delivered > 0 /\ processing.by = "vcpu"))
  /\ runner' = IF processing.by = "runner" THEN [runner EXCEPT !.step = "idle"] ELSE runner
  /\ UNCHANGED <<ui, device, touchReady, guestSide, touchResets>>

(* enqueueTouches and notify raise the interrupt after a delivery *)
EndProcessing ==
  /\ ~DeviceLockFree
  /\ processing.available = 0 \/ device.pendingInputEvents = <<>>
  /\ processing' = NotProcessing
  /\ touchInterrupt' = (touchInterrupt \/ processing.delivered > 0)
  /\ runner' = IF processing.by = "runner" THEN [runner EXCEPT !.step = "idle"] ELSE runner
  /\ UNCHANGED <<ui, device, touchReady, guestSide, touchResets>>

-----------------------------------------------------------------------------
(* The user interface: queueTouch *)
QueueTouch(touch) ==
  LET result == Enqueue(hostQueue, touch)
  IN
  /\ sent < MaxTouches
  /\ sent' = sent + 1
  /\ hostQueue' = result.queue
  /\ acceptedEdges' = acceptedEdges +
       IF result.accepted /\ PhaseOf(hostQueue, touch) # "move" THEN 1 ELSE 0
  /\ UNCHANGED <<runner, device, processing, virtio, guestSide, touchResets>>

-----------------------------------------------------------------------------
(* The runtime loop: the touch part of runSlice *)

(* Two slots stay for the final point and the release of a contact *)
AvailableTouchSampleCapacity ==
  LET room == DeviceCapacity - Len(device.queue.entries) - 2
  IN  IF room > 0 THEN room ELSE 0

(* drainTouches reads the capacity under deviceLock ... *)
ReadCapacity ==
  /\ runner.step = "idle"
  /\ hostQueue.entries # <<>>
  /\ DeviceLockFree
  /\ runner' = [runner EXCEPT !.step = "drain", !.capacity = AvailableTouchSampleCapacity]
  /\ UNCHANGED <<ui, device, processing, virtio, guestSide, touchResets>>

(* ... and drains under the host lock *)
DrainTouches ==
  LET count == Len(hostQueue.entries)
      n == IF runner.capacity < count THEN runner.capacity ELSE count
  IN
  /\ runner.step = "drain"
  /\ hostQueue' = Drain(hostQueue, n)
  /\ runner' = [runner EXCEPT !.step = IF n = 0 THEN "idle" ELSE "inject",
                              !.capacity = 0,
                              !.batch = SubSeq(hostQueue.entries, 1, n)]
  /\ UNCHANGED <<sent, acceptedEdges, device, processing, virtio, guestSide,
                 touchResets>>

(* enqueueTouches *)
EnqueueTouches ==
  /\ runner.step = "inject"
  /\ DeviceLockFree
  /\ runner' = [runner EXCEPT !.step = "processing", !.batch = <<>>]
  /\ StartProcessing("runner", [device EXCEPT !.queue = EnqueueAll(@, runner.batch)])
  /\ UNCHANGED <<ui, virtio, guestSide, touchResets>>

-----------------------------------------------------------------------------
(* The device's side of the guest driver *)

(* notify of queue 0 *)
NotifyEvents ==
  /\ DeviceLockFree
  /\ driver.kick
  /\ driver' = [driver EXCEPT !.kick = FALSE]
  /\ IF touchReady THEN StartProcessing("vcpu", device) ELSE UNCHANGED <<device, processing>>
  /\ UNCHANGED <<ui, runner, virtio, buffers, usedEvents, guest, touchResets>>

AcknowledgeTouches ==
  /\ DeviceLockFree
  /\ touchInterrupt
  /\ touchInterrupt' = FALSE
  /\ driver' = [driver EXCEPT !.inISR = TRUE]
  /\ UNCHANGED <<ui, runner, device, processing, touchReady, buffers, usedEvents, guest,
                 touchResets>>

(* resetNegotiationState *)
DeviceAfterReset == NewDevice

NewGuest(edges) == [contact |-> NoContact, point |-> NoPoint, edges |-> edges]

(* status := 0 by the driver, which forgets the contact as well *)
ResetDevice ==
  /\ DeviceLockFree
  /\ touchResets < MaxTouchResets
  /\ touchResets' = touchResets + 1
  /\ touchReady' = FALSE
  /\ touchInterrupt' = FALSE
  /\ device' = DeviceAfterReset
  /\ buffers' = 0
  /\ usedEvents' = <<>>
  /\ driver' = [inISR |-> FALSE, kick |-> FALSE]
  /\ guest' = NewGuest(guest.edges)
  /\ UNCHANGED <<ui, runner, processing>>

(* Queue ready with all buffers available *)
EnableEvents ==
  /\ DeviceLockFree
  /\ ~touchReady
  /\ touchReady' = TRUE
  /\ buffers' = RingSize
  /\ driver' = [driver EXCEPT !.kick = TRUE]
  /\ UNCHANGED <<ui, runner, device, processing, touchInterrupt, usedEvents, guest,
                 touchResets>>

(* The guest driver's handler, external: one event, whose buffer goes back *)
GuestReads ==
  LET event == Head(usedEvents)
  IN
  /\ driver.inISR
  /\ usedEvents # <<>>
  /\ usedEvents' = Tail(usedEvents)
  /\ buffers' = buffers + 1
  /\ guest' = CASE event.kind = "contact" ->
                     [guest EXCEPT !.contact = event.value, !.edges = @ + 1]
                [] event.kind = "position" -> [guest EXCEPT !.point = event.value]
                [] OTHER -> guest
  /\ UNCHANGED <<ui, runner, device, processing, virtio, driver, touchResets>>

GuestDone ==
  /\ driver.inISR
  /\ usedEvents = <<>>
  /\ driver' = [inISR |-> FALSE, kick |-> TRUE]
  /\ UNCHANGED <<ui, runner, device, processing, virtio, buffers, usedEvents, guest,
                 touchResets>>

-----------------------------------------------------------------------------
TouchInit ==
  /\ hostQueue = EmptyQueue(HostCapacity, MotionLimit)
  /\ runner = [step |-> "idle", capacity |-> 0, batch |-> <<>>]
  /\ device = NewDevice
  /\ processing = NotProcessing
  /\ touchReady = FALSE
  /\ touchInterrupt = FALSE
  /\ buffers = 0
  /\ usedEvents = <<>>
  /\ driver = [inISR |-> FALSE, kick |-> FALSE]
  /\ guest = NewGuest(0)
  /\ sent = 0
  /\ acceptedEdges = 0
  /\ touchResets = 0

Runtime == ReadCapacity \/ DrainTouches \/ EnqueueTouches
Device == DeliverEvent \/ EndProcessing
TouchDriver == NotifyEvents \/ AcknowledgeTouches \/ GuestReads \/ GuestDone \/ EnableEvents

TouchNext ==
  \/ \E touch \in Touches : QueueTouch(touch)
  \/ Runtime \/ Device \/ TouchDriver \/ ResetDevice

(* The runtime loop, the thread inside the lock and the driver keep running;*)
(* each is one thread whose steps need deviceLock now and then, and a lock  *)
(* that is free again and again is granted.                                 *)
TouchFairness ==
  /\ WF_touchVars(Device)
  /\ SF_touchVars(Runtime)
  /\ SF_touchVars(TouchDriver)

TouchSpec == TouchInit /\ [][TouchNext]_touchVars

-----------------------------------------------------------------------------
(* Properties *)

EntryType == [phase : Edges \cup {"move"}, point : Nat \ {NoPoint}, finalMove : BOOLEAN]
QueueType == [capacity : Nat, limit : Nat, entries : Seq(EntryType), active : BOOLEAN,
              rejectingContact : BOOLEAN, lastPoint : Nat, discardedMotionCount : Nat,
              rejectedGestureCount : Nat]
EventType == [kind : {"time", "contact", "position", "sync"}, value : Int, at : Nat]

(* Types of the queues, the device, the threads and the guest. *)
TouchTypes ==
  /\ hostQueue \in QueueType
  /\ runner \in [step : {"idle", "drain", "inject", "processing"},
                 capacity : Nat, batch : Seq(EntryType)]
  /\ device \in [queue : QueueType, pendingInputEvents : Seq(EventType),
                 touchContactActive : BOOLEAN, nextTouchTrackingID : 0..MaxTrackingID]
  /\ processing \in [by : {"nobody", "runner", "vcpu"}, available : Nat, delivered : Nat]
  /\ touchReady \in BOOLEAN /\ touchInterrupt \in BOOLEAN
  /\ buffers \in 0..RingSize /\ usedEvents \in Seq(EventType)
  /\ driver \in [inISR : BOOLEAN, kick : BOOLEAN]
  /\ guest \in [contact : NoContact..MaxTrackingID, point : Nat, edges : Nat]
  /\ sent \in Nat /\ acceptedEdges \in Nat /\ touchResets \in Nat

EdgesIn(entries) == Cardinality({i \in DOMAIN entries : entries[i].phase # "move"})
ContactsIn(events) == Cardinality({i \in DOMAIN events : events[i].kind = "contact"})

(* "Only ordinary motion is evictable": every press and release that        *)
(* queueTouch accepted is somewhere between the first queue and the guest,  *)
(* exactly once, whatever makeRoom and compaction drop and wherever the     *)
(* batch is; only a device reset may lose one.                              *)
EdgesConserved ==
  touchResets = 0 =>
    acceptedEdges = guest.edges + ContactsIn(usedEvents) + ContactsIn(device.pendingInputEvents)
                    + EdgesIn(device.queue.entries) + EdgesIn(runner.batch)
                    + EdgesIn(hostQueue.entries)

(* Both queues stay within their capacity and keep two slots for the final  *)
(* point and the release of a contact they admitted.                        *)
TerminationReserved ==
  \A q \in {hostQueue, device.queue} :
    Len(q.entries) <= q.capacity - IF q.active THEN 2 ELSE 0

(* "an admitted gesture cannot be rejected at the second queue": the        *)
(* capacity was read before the drain and the injection, and the device     *)
(* still rejects no gesture and discards no motion.                         *)
DeviceNeverDrops ==
  /\ device.queue.discardedMotionCount = 0
  /\ device.queue.rejectedGestureCount = 0
  /\ ~device.queue.rejectingContact

(* What the guest is about to read: contacts begin and end in turn, motion  *)
(* comes only during a contact, and a release, whose frame carries no       *)
(* position, comes when the last position was where the finger left: the    *)
(* final point is neither evicted, coalesced nor reordered.                 *)
NextEventFits ==
  usedEvents # <<>> =>
    LET event == Head(usedEvents)
    IN  /\ event.kind = "contact" => (event.value = NoContact <=> guest.contact # NoContact)
        /\ event.kind = "position" => guest.contact # NoContact
        /\ event.kind = "contact" /\ event.value = NoContact => guest.point = event.at

(* A gesture that enqueue accepts arrives in full: no press or release is   *)
(* lost or duplicated between queueTouch and the guest, although the        *)
(* capacity that decides was read in an earlier step than the one that uses *)
(* it; the device's queue never has to drop what the first queue admitted;  *)
(* and the driver sees contacts begin and end in turn, each ending at the   *)
(* final point that enqueue adds before a release, whatever the two queues  *)
(* evict or coalesce.                                                       *)
GesturesSurvive == EdgesConserved /\ TerminationReserved /\ DeviceNeverDrops /\ NextEventFits

(* Every press and release the first queue accepted reaches the guest: time *)
(* and again the guest has seen all of them.                                *)
EdgesArrive == []<>(guest.edges = acceptedEdges \/ touchResets > 0)
================================================================================
