------------------------ MODULE PointerDataConverter ------------------------
(***************************************************************************)
(* PointerDataPacketConverter (lib/ui/window), which turns the pointer     *)
(* data of an embedding into the stream that the framework reads: it keeps *)
(* a state per device, gives contacts their identifiers and moves their    *)
(* deltas, and synthesizes the events an embedding has left out.           *)
(*                                                                         *)
(* Its caller is here any embedding that respects the FML_DCHECKs of the   *)
(* converter (Expected).  Beside the converter the module keeps what a     *)
(* reader of the stream knows of each device (reader), in the terms of the *)
(* assertions of gestures/binding.dart and rendering/mouse_tracker.dart.   *)
(*                                                                         *)
(* A location is one number for x and y, and pan one number for pan_x,     *)
(* pan_y, scale and rotation, which the converter treats alike.  Buttons,  *)
(* time stamps and the fields it only passes on are left out.              *)
(***************************************************************************)
EXTENDS Integers, Sequences

CONSTANTS
  Device,         \* the device ids
  Trackpad,       \* those that make pan and zoom gestures, and no contacts
  View,           \* the view ids
  ImplicitView,   \* the view that is never removed
  Place,          \* the locations
  Pan,            \* how far a gesture has panned; it starts at 0
  MaxPointers     \* bound: contacts and gestures between two restarts

ASSUME ConverterAssumption ==
  /\ Trackpad \subseteq Device
  /\ ImplicitView \in View
  /\ Place \subseteq Int /\ Place # {}
  /\ Pan \subseteq Int /\ 0 \in Pan
  /\ MaxPointers \in Nat

VARIABLES
  states_,    \* the state of each device the converter knows
  pointer_,   \* the last identifier given out
  views,      \* the views for which the delegate says ViewExists
  packet,     \* the last packet that was converted
  reader      \* what a reader of all packets knows of each device

converterVars == <<states_, pointer_, views, packet, reader>>

Change == {"cancel", "add", "remove", "hover", "down", "move", "up",
           "pan_zoom_start", "pan_zoom_update", "pan_zoom_end", "signal"}

\* PointerData with the fields the converter reads or fills in.
PointerData ==
  [change : Change, device : Device, view_id : View, physical : Place, pan : Pan,
   delta : Int, pan_delta : Int, pointer_identifier : 0..MaxPointers]

PointerState ==
  [pointer_identifier : 0..MaxPointers, is_down : BOOLEAN,
   is_pan_zoom_active : BOOLEAN, physical : Place, pan : Pan, view_id : View]

\* What an embedding sends: no delta and no identifier.
Raw(change, device, view, physical, pan) ==
  [change |-> change, device |-> device, view_id |-> view, physical |-> physical,
   pan |-> pan, delta |-> 0, pan_delta |-> 0, pointer_identifier |-> 0]

RawData ==
  UNION {{Raw(change, device, view, physical, pan) :
              change \in IF device \in Trackpad
                           THEN Change \ {"down", "move", "up", "cancel"}
                           ELSE Change \ {"pan_zoom_start", "pan_zoom_update",
                                          "pan_zoom_end"},
              pan \in {0}} \cup
         {Raw("pan_zoom_update", device, view, physical, pan) :
              pan \in IF device \in Trackpad THEN Pan ELSE {}} :
         device \in Device, view \in View, physical \in Place}

-----------------------------------------------------------------------------
(* The parts of the conversion.                                            *)

Known(d) == d \in DOMAIN states_

Drop(f, d) == [x \in DOMAIN f \ {d} |-> f[x]]

Store(f, d, s) == [x \in DOMAIN f \cup {d} |-> IF x = d THEN s ELSE f[x]]

\* Faulty: no contact is identifier -1.
EnsureUnidentified(e) ==
  [pointer_identifier |-> -1, is_down |-> FALSE, is_pan_zoom_active |-> FALSE,
   physical |-> e.physical, pan |-> 0, view_id |-> e.view_id]

EnsurePointerState(e) ==
  [pointer_identifier |-> 0, is_down |-> FALSE, is_pan_zoom_active |-> FALSE,
   physical |-> e.physical, pan |-> 0, view_id |-> e.view_id]

LocationNeedsUpdate(e, s) == s.physical # e.physical

\* UpdateDeltaAndState: what it does to the event, and to the state.
UpdateDelta(e, s) ==
  [e EXCEPT !.delta = e.physical - s.physical, !.pan_delta = e.pan - s.pan]

\* Faulty: the new location is not stored.
UpdatePanOnly(e, s) == [s EXCEPT !.pan = e.pan]

UpdateState(e, s) == [s EXCEPT !.physical = e.physical, !.pan = e.pan]

\* UpdatePointerIdentifier of a contact that has started before.
Identified(e, s) == [e EXCEPT !.pointer_identifier = s.pointer_identifier]

As(e, change) == [e EXCEPT !.change = change]

\* The state an event starts from, and the add that goes before it, when the
\* device may be one that was never added.
StateFor(e) == IF Known(e.device) THEN states_[e.device] ELSE EnsurePointerState(e)

MissingAdd(e) == IF Known(e.device) THEN <<>> ELSE <<As(e, "add")>>

\* The event that brings the reader to the location of e, if it is elsewhere.
Synthesized(e, s) ==
  IF LocationNeedsUpdate(e, s) THEN <<UpdateDelta(e, s)>> ELSE <<>>

Located(e, s) == IF LocationNeedsUpdate(e, s) THEN UpdateState(e, s) ELSE s

-----------------------------------------------------------------------------
(* The reader.  Of every device that was added and not yet removed it      *)
(* knows the view, the location, how far it has panned, and the identifier *)
(* of the contact and of the gesture that are open (0 if none).            *)

Receive(r, e) ==
  LET d == e.device
      known == d \in DOMAIN r
  IN CASE e.change = "add" ->
            Store(r, d, [view_id |-> e.view_id, physical |-> e.physical,
                         pan |-> 0, contact |-> 0, gesture |-> 0])
       [] e.change = "remove" -> Drop(r, d)
       [] e.change \in {"up", "cancel"} /\ known -> [r EXCEPT ![d].contact = 0]
       [] e.change = "pan_zoom_end" /\ known -> [r EXCEPT ![d].gesture = 0]
       [] e.change = "down" /\ known ->
            [r EXCEPT ![d].contact = e.pointer_identifier]
       [] e.change = "pan_zoom_start" /\ known ->
            [r EXCEPT ![d].gesture = e.pointer_identifier, ![d].pan = 0]
       [] e.change \in {"hover", "move", "pan_zoom_update"} /\ known ->
            [r EXCEPT ![d].physical = @ + e.delta, ![d].pan = @ + e.pan_delta]
       [] OTHER -> r

\* What the reader knows after each number of events of a packet.
Reading(out) ==
  LET after[i \in 0..Len(out)] ==
        IF i = 0 THEN reader ELSE Receive(after[i - 1], out[i])
  IN after

\* What it knows when it comes to the i-th event of the packet.
Before(i) == Reading(packet')[i - 1]

Deliver(out) ==
  /\ packet' = out
  /\ reader' = Reading(out)[Len(out)]

Emit(d, s, out) ==
  /\ states_' = Store(states_, d, s)
  /\ Deliver(out)

-----------------------------------------------------------------------------
(* ConvertPointerData, case by case.                                       *)

\* An event of a view that does not exist is ignored.
IgnoreUnknownView(e) ==
  /\ e.view_id \notin views
  /\ Deliver(<<>>)
  /\ UNCHANGED <<states_, pointer_>>

CancelUnknown(e) ==
  /\ e.change = "cancel" /\ ~Known(e.device)
  /\ Deliver(<<>>)
  /\ UNCHANGED <<states_, pointer_>>

CancelKnown(e) ==
  /\ e.change = "cancel" /\ Known(e.device)
  /\ LET s == states_[e.device]
         c == Identified(e, s)
     IN Emit(e.device, [Located(c, s) EXCEPT !.is_down = FALSE],
             Append(Synthesized(As(c, "move"), s), c))
  /\ UNCHANGED pointer_

\* Faulty: the device is removed with its contact open.
AddWithoutCancel(e) ==
  /\ e.change = "add"
  /\ LET s == states_[e.device]
         old == [e EXCEPT !.physical = s.physical, !.pan = s.pan,
                          !.view_id = IF s.view_id \in views THEN s.view_id ELSE @]
         remove == IF Known(e.device) THEN <<As(old, "remove")>> ELSE <<>>
     IN Emit(e.device, EnsurePointerState(e), Append(remove, e))
  /\ UNCHANGED pointer_

\* The device is removed from where it was first, under the view of the new
\* add if its own is gone; only in a view that is there is its contact
\* cancelled.
Add(e) ==
  /\ e.change = "add"
  /\ LET s == states_[e.device]
         old == [e EXCEPT !.physical = s.physical, !.pan = s.pan,
                          !.view_id = IF s.view_id \in views THEN s.view_id ELSE @]
         cancel == IF s.view_id \in views /\ s.is_down
                     THEN <<Identified(As(old, "cancel"), s)>> ELSE <<>>
         remove == IF Known(e.device)
                     THEN Append(cancel, As(old, "remove")) ELSE <<>>
     IN Emit(e.device, EnsurePointerState(e), Append(remove, e))
  /\ UNCHANGED pointer_

\* A remove for a view the device has left meanwhile is ignored.
RemoveElsewhere(e) ==
  /\ e.change = "remove" /\ states_[e.device].view_id # e.view_id
  /\ Deliver(<<>>)
  /\ UNCHANGED <<states_, pointer_>>

\* Faulty: the state of the removed device is kept.
RemoveKeepingState(e) ==
  /\ e.change = "remove" /\ states_[e.device].view_id = e.view_id
  /\ LET s == states_[e.device]
         cancel == IF s.is_down THEN <<Identified(As(e, "cancel"), s)>> ELSE <<>>
     IN Emit(e.device, [Located(e, s) EXCEPT !.is_down = FALSE],
             Append(cancel \o Synthesized(As(e, "hover"), s), e))
  /\ UNCHANGED pointer_

Remove(e) ==
  /\ e.change = "remove" /\ states_[e.device].view_id = e.view_id
  /\ LET s == states_[e.device]
         cancel == IF s.is_down THEN <<Identified(As(e, "cancel"), s)>> ELSE <<>>
     IN /\ states_' = Drop(states_, e.device)
        /\ Deliver(Append(cancel \o Synthesized(As(e, "hover"), s), e))
  /\ UNCHANGED pointer_

\* A hover is passed on only if the device has moved.
Hover(e) ==
  /\ e.change = "hover"
  /\ LET s == StateFor(e)
     IN Emit(e.device, Located(e, s), MissingAdd(e) \o Synthesized(e, s))
  /\ UNCHANGED pointer_

\* Down and PanZoomStart take the next identifier.
Down(e) ==
  /\ e.change = "down"
  /\ pointer_' = pointer_ + 1
  /\ LET s == StateFor(e)
         t == [Located(e, s) EXCEPT !.pointer_identifier = pointer_', !.is_down = TRUE]
     IN Emit(e.device, t,
             MissingAdd(e) \o Append(Synthesized(As(e, "hover"), s), Identified(e, t)))

Move(e) ==
  /\ e.change = "move"
  /\ LET s == states_[e.device]
     IN Emit(e.device, UpdateState(e, s), <<UpdateDelta(Identified(e, s), s)>>)
  /\ UNCHANGED pointer_

Up(e) ==
  /\ e.change = "up"
  /\ LET s == states_[e.device]
         u == Identified(e, s)
     IN Emit(e.device, [Located(u, s) EXCEPT !.is_down = FALSE],
             Append(Synthesized(As(u, "move"), s), u))
  /\ UNCHANGED pointer_

PanZoomStart(e) ==
  /\ e.change = "pan_zoom_start"
  /\ pointer_' = pointer_ + 1
  /\ LET s == StateFor(e)
         t == [Located(e, s) EXCEPT !.pointer_identifier = pointer_',
                                    !.is_pan_zoom_active = TRUE, !.pan = 0]
     IN Emit(e.device, t,
             MissingAdd(e) \o Append(Synthesized(As(e, "hover"), s), Identified(e, t)))

PanZoomUpdate(e) ==
  /\ e.change = "pan_zoom_update"
  /\ LET s == states_[e.device]
     IN Emit(e.device, UpdateState(e, s), <<UpdateDelta(Identified(e, s), s)>>)
  /\ UNCHANGED pointer_

\* The update that brings the gesture to its last location keeps its pan.
PanZoomEnd(e) ==
  /\ e.change = "pan_zoom_end"
  /\ LET s == states_[e.device]
         u == Identified(e, s)
         last == [As(u, "pan_zoom_update") EXCEPT !.pan = s.pan]
     IN Emit(e.device, [Located(last, s) EXCEPT !.is_pan_zoom_active = FALSE],
             Append(Synthesized(last, s), u))
  /\ UNCHANGED pointer_

\* Scroll, ScrollInertiaCancel and Scale.  The move or the hover that goes
\* before the signal is a copy of the signal: it is given no identifier.
Signal(e) ==
  /\ e.change = "signal"
  /\ LET s == StateFor(e)
     IN Emit(e.device, Located(e, s),
             MissingAdd(e)
               \o Append(Synthesized(As(e, IF s.is_down THEN "move" ELSE "hover"), s), e))
  /\ UNCHANGED pointer_

\* The FML_DCHECKs of the cases.
Asserted(e) ==
  LET known == Known(e.device)
      s == states_[e.device]
  IN CASE e.change = "cancel" -> known => s.is_down
       [] e.change = "remove" -> known
       [] e.change \in {"hover", "down"} -> known => ~s.is_down
       [] e.change \in {"move", "up"} -> known /\ s.is_down
       [] e.change = "pan_zoom_start" ->
            known => ~s.is_down /\ ~s.is_pan_zoom_active
       [] e.change = "pan_zoom_update" ->
            known /\ ~s.is_down /\ s.is_pan_zoom_active
       [] e.change = "pan_zoom_end" -> known /\ s.is_pan_zoom_active
       [] OTHER -> TRUE

ConvertPointerData(e) ==
  /\ \/ IgnoreUnknownView(e)
     \/ /\ e.view_id \in views
        /\ Asserted(e)
        /\ \/ CancelUnknown(e) \/ CancelKnown(e)
           \/ Add(e) \/ RemoveElsewhere(e) \/ Remove(e)
           \/ Hover(e) \/ Down(e) \/ Move(e) \/ Up(e)
           \/ PanZoomStart(e) \/ PanZoomUpdate(e) \/ PanZoomEnd(e)
           \/ Signal(e)
  /\ UNCHANGED views

\* Engine::AddView and RemoveView: the viewport metrics of the view come and go.
AddView(v) ==
  /\ v \notin views
  /\ views' = views \cup {v}
  /\ packet' = <<>>
  /\ UNCHANGED <<states_, pointer_, reader>>

RemoveView(v) ==
  /\ v \in views \ {ImplicitView}
  /\ views' = views \ {v}
  /\ packet' = <<>>
  /\ UNCHANGED <<states_, pointer_, reader>>

\* A hot restart: Engine::Restart clones the runtime controller, with its
\* views and a new converter, and the framework starts from nothing.
Restart ==
  /\ states_' = [d \in {} |-> 0]
  /\ reader' = [d \in {} |-> 0]
  /\ pointer_' = 0
  /\ packet' = <<>>
  /\ UNCHANGED views

-----------------------------------------------------------------------------
(* An embedding that respects the assertions.  It adds a device to a view  *)
(* before it sends other events of the device there, and neither moves nor *)
(* removes a trackpad while its gesture goes on.                           *)

Expected(e) ==
  LET s == states_[e.device]
  IN /\ Asserted(e)
     /\ Known(e.device) /\ e.change \notin {"add", "remove"} /\ s.view_id \in views
          => e.view_id \in {s.view_id} \cup (View \ views)
     /\ Known(e.device) /\ e.change \in {"add", "remove", "signal"}
          => ~s.is_pan_zoom_active
     /\ e.change \in {"down", "pan_zoom_start"} => pointer_ < MaxPointers

ConverterInit ==
  /\ states_ = [d \in {} |-> 0]
  /\ reader = [d \in {} |-> 0]
  /\ pointer_ = 0
  /\ views = {ImplicitView}
  /\ packet = <<>>

ConverterNext ==
  \/ \E e \in RawData : Expected(e) /\ ConvertPointerData(e)
  \/ \E v \in View : AddView(v) \/ RemoveView(v)
  \/ Restart

ConverterSpec == ConverterInit /\ [][ConverterNext]_converterVars

-----------------------------------------------------------------------------
(* Properties.                                                             *)

ConverterTypeOK ==
  /\ DOMAIN states_ \subseteq Device
  /\ \A d \in DOMAIN states_ : states_[d] \in PointerState
  /\ pointer_ \in 0..MaxPointers
  /\ views \subseteq View
  /\ \A i \in DOMAIN packet : packet[i] \in PointerData

\* Between two packets the converter and the reader of its stream agree on
\* which devices there are, where each of them is and in which view, how far
\* its gesture has panned, and on the contact or gesture that is open.
\* [states_ against everything ConvertPointerData has pushed]
ReaderAgrees ==
  /\ DOMAIN reader = DOMAIN states_
  /\ \A d \in DOMAIN states_ :
       LET s == states_[d]
           r == reader[d]
       IN /\ r.view_id = s.view_id
          /\ r.physical = s.physical
          /\ s.is_pan_zoom_active => r.pan = s.pan
          /\ r.contact = (IF s.is_down THEN s.pointer_identifier ELSE 0)
          /\ r.gesture = (IF s.is_pan_zoom_active THEN s.pointer_identifier ELSE 0)

\* What the framework asserts of an event, given what it knows before it.
Legal(r, e) ==
  LET d == e.device
  IN /\ (e.change = "add") <=> (d \notin DOMAIN r)
     /\ e.change = "down" => r[d].contact = 0 /\ r[d].gesture = 0
     /\ e.change = "pan_zoom_start" => r[d].contact = 0 /\ r[d].gesture = 0
     /\ e.change = "hover" => r[d].contact = 0
     /\ e.change = "move" => r[d].contact # 0
     /\ e.change \in {"up", "cancel"} =>
          r[d].contact # 0 /\ e.pointer_identifier = r[d].contact
     /\ e.change \in {"pan_zoom_update", "pan_zoom_end"} =>
          r[d].gesture # 0 /\ e.pointer_identifier = r[d].gesture
     /\ e.change = "remove" /\ r[d].view_id \in views =>
          r[d].contact = 0 /\ r[d].gesture = 0

\* Whatever an embedding leaves out, the stream is one the framework accepts:
\* an add follows a remove and only a remove (mouse_tracker.dart:218-220), a
\* contact goes down, moves and comes up, a gesture likewise, and what ends a
\* contact or a gesture names it (binding.dart:395-424).  A device is never
\* removed with an open contact or gesture, which nothing could end any more,
\* unless the view of the contact is gone.
\* [pointer_data_packet_converter.h:51-53, "a clean pointer data stream"]
StreamIsLegal ==
  [][\A i \in DOMAIN packet' : Legal(Before(i), packet'[i])]_converterVars

\* The reader is never surprised by a location: it has been told of every
\* move by an event whose delta leads exactly from the last location to the
\* new one, and everything else happens where the device was last seen.  A
\* cancel that is synthesized for a remove is at the location of the remove.
\* [LocationNeedsUpdate and the synthesized hovers, moves and updates]
LocationIsContinuous ==
  [][\A i \in DOMAIN packet' :
       LET e == packet'[i]
           r == Before(i)
       IN e.change # "add" /\ ~(e.change = "cancel" /\ Len(packet') > i)
            => e.physical = r[e.device].physical + e.delta]_converterVars

\* Every event of a contact carries the identifier of the contact.
\* [pointer_data_packet_converter.h:47-49: "Framework requires certain
\* information to process pointer data. e.g. pointer identifier", which the
\* converter will "fill in"]
IdentifiersAreFilledIn ==
  [][\A i \in DOMAIN packet' :
       LET e == packet'[i]
       IN e.change \in {"move", "up", "cancel"} =>
            e.pointer_identifier = Before(i)[e.device].contact]_converterVars
=============================================================================
