--------------------------- MODULE Pointers_proofs ----------------------------
(***************************************************************************)
(* Theorems about the converter by itself, and then about the converter in *)
(* the hands of the Windows embedding, which has to be proved with it.     *)
(***************************************************************************)
EXTENDS WindowsPointers, SequenceTheorems, TLAPS

(***************************************************************************)
(* For any devices, views, locations and number of contacts: whatever an   *)
(* embedding sends and leaves out, the stream the converter makes of it is *)
(* one that the framework accepts, and that tells the framework all that   *)
(* the converter knows.                                                    *)
(***************************************************************************)

(* What the reader knows of a device.                                      *)
Known_ == [view_id : View, physical : Int, pan : Int, contact : Nat, gesture : Nat]

(* The reader r knows of device d what the converter keeps of it in s.     *)
Seen(r, d, s) ==
  /\ d \in DOMAIN r /\ r[d] \in Known_
  /\ r[d].view_id = s.view_id
  /\ r[d].physical = s.physical
  /\ s.is_pan_zoom_active => r[d].pan = s.pan
  /\ r[d].contact = (IF s.is_down THEN s.pointer_identifier ELSE 0)
  /\ r[d].gesture = (IF s.is_pan_zoom_active THEN s.pointer_identifier ELSE 0)

(* Of other devices than d, q knows the same as r.                         *)
Elsewhere(r, q, d) ==
  \A x : x # d => /\ x \in DOMAIN q <=> x \in DOMAIN r
                  /\ x \in DOMAIN r => q[x] = r[x]

(* Contacts are made by pointers and gestures by trackpads, and each has   *)
(* an identifier.                                                          *)
StateOK(d, s) ==
  /\ s \in PointerState
  /\ s.is_down => d \notin Trackpad /\ s.pointer_identifier # 0
  /\ s.is_pan_zoom_active => d \in Trackpad /\ s.pointer_identifier # 0

ConverterInv ==
  /\ ConverterTypeOK
  /\ DOMAIN reader = DOMAIN states_
  /\ \A d \in DOMAIN states_ : StateOK(d, states_[d]) /\ Seen(reader, d, states_[d])

-----------------------------------------------------------------------------
(* What an embedding sends.                                                *)

LEMMA RawTypes ==
  ASSUME NEW e \in RawData
  PROVE  /\ e \in PointerData
         /\ e.delta = 0 /\ e.pan_delta = 0 /\ e.pointer_identifier = 0
         /\ e.change \in {"down", "move", "up", "cancel"} => e.device \notin Trackpad
         /\ e.change \in {"pan_zoom_start", "pan_zoom_update", "pan_zoom_end"}
              => e.device \in Trackpad
<1>1. PICK device \in Device, view \in View, physical \in Place, change \in Change, pan \in Pan :
        /\ e = Raw(change, device, view, physical, pan)
        /\ change \in {"down", "move", "up", "cancel"} => device \notin Trackpad
        /\ change \in {"pan_zoom_start", "pan_zoom_update", "pan_zoom_end"}
             => device \in Trackpad
  BY ConverterAssumption DEF RawData, Change
<1>2. /\ e.change = change /\ e.device = device /\ e.view_id = view
      /\ e.physical = physical /\ e.pan = pan
      /\ e.delta = 0 /\ e.pan_delta = 0 /\ e.pointer_identifier = 0
  BY <1>1 DEF Raw
<1>3. e \in PointerData
  BY <1>1, ConverterAssumption DEF Raw, PointerData
<1> QED
  BY <1>1, <1>2, <1>3

-----------------------------------------------------------------------------
(* One event at the reader.                                                *)

LEMMA AddIsSeen ==
  ASSUME NEW r, NEW e \in PointerData, e.change = "add"
  PROVE  /\ Seen(Receive(r, e), e.device, EnsurePointerState(e))
         /\ Elsewhere(r, Receive(r, e), e.device)
<1>1. Receive(r, e) = Store(r, e.device, [view_id |-> e.view_id, physical |-> e.physical,
                                         pan |-> 0, contact |-> 0, gesture |-> 0])
  BY DEF Receive
<1>2. e.view_id \in View /\ e.physical \in Int
  BY ConverterAssumption DEF PointerData
<1> QED
  BY <1>1, <1>2 DEF Store, Seen, Elsewhere, EnsurePointerState, Known_

LEMMA RemoveIsSeen ==
  ASSUME NEW r, NEW e, e.change = "remove"
  PROVE  /\ e.device \notin DOMAIN Receive(r, e)
         /\ Elsewhere(r, Receive(r, e), e.device)
BY DEF Receive, Drop, Elsewhere

LEMMA SignalIsNotSeen ==
  ASSUME NEW r, NEW e, e.change = "signal"
  PROVE  Receive(r, e) = r
BY DEF Receive

LEMMA LocationIsSeen ==
  ASSUME NEW r, NEW e \in PointerData, NEW s \in PointerState, Seen(r, e.device, s),
         e.change \in {"hover", "move", "pan_zoom_update"}
  PROVE  LET u == UpdateDelta(e, s)
         IN /\ u \in PointerData /\ u.device = e.device /\ u.change = e.change
            /\ u.physical = r[e.device].physical + u.delta
            /\ u.view_id = e.view_id /\ u.pointer_identifier = e.pointer_identifier
            /\ UpdateState(e, s) \in PointerState
            /\ Seen(Receive(r, u), e.device, UpdateState(e, s))
            /\ Elsewhere(r, Receive(r, u), e.device)
<1> DEFINE u == UpdateDelta(e, s)
           d == e.device
<1>1. /\ e.physical \in Int /\ e.pan \in Int /\ s.physical \in Int /\ s.pan \in Int
      /\ e.physical \in Place /\ e.pan \in Pan
  BY ConverterAssumption DEF PointerData, PointerState
<1>2. /\ u \in PointerData /\ u.device = d /\ u.change = e.change
      /\ u.delta = e.physical - s.physical /\ u.pan_delta = e.pan - s.pan
      /\ u.physical = e.physical
      /\ u.view_id = e.view_id /\ u.pointer_identifier = e.pointer_identifier
  <2>1. /\ e.physical - s.physical \in Int /\ e.pan - s.pan \in Int
    BY <1>1
  <2>2. u = [e EXCEPT !.delta = e.physical - s.physical, !.pan_delta = e.pan - s.pan]
    BY DEF UpdateDelta
  <2> QED
    BY <2>1, <2>2 DEF PointerData
<1>3. Receive(r, u) = [r EXCEPT ![d].physical = @ + u.delta, ![d].pan = @ + u.pan_delta]
  BY <1>2 DEF Receive, Seen
<1>4. r[d] \in Known_ /\ d \in DOMAIN r /\ r[d].physical = s.physical
  BY DEF Seen
<1>5. /\ r[d].physical + u.delta = e.physical
      /\ r[d].pan + u.pan_delta \in Int
      /\ r[d].pan = s.pan => r[d].pan + u.pan_delta = e.pan
  BY <1>1, <1>2, <1>4 DEF Known_
<1> HIDE DEF u, d
<1> DEFINE k == [r[d] EXCEPT !.physical = @ + u.delta, !.pan = @ + u.pan_delta]
<1>6. /\ k \in Known_ /\ k.view_id = r[d].view_id /\ k.physical = e.physical
      /\ k.pan = r[d].pan + u.pan_delta
      /\ k.contact = r[d].contact /\ k.gesture = r[d].gesture
  BY <1>1, <1>4, <1>5 DEF Known_
<1>7. DOMAIN Receive(r, u) = DOMAIN r /\ Receive(r, u)[d] = k
      /\ \A x \in DOMAIN r : x # d => Receive(r, u)[x] = r[x]
  BY <1>3, <1>4
<1> HIDE DEF k
<1> DEFINE t == UpdateState(e, s)
<1>8. /\ t \in PointerState
      /\ t.physical = e.physical /\ t.pan = e.pan /\ t.view_id = s.view_id
      /\ t.is_down = s.is_down /\ t.is_pan_zoom_active = s.is_pan_zoom_active
      /\ t.pointer_identifier = s.pointer_identifier
  BY <1>1 DEF UpdateState, PointerState
<1> HIDE DEF t
<1>9. Seen(Receive(r, u), d, t)
  <2>1. Seen(r, d, s)
    BY DEF d
  <2> QED
    BY <1>4, <1>5, <1>6, <1>7, <1>8, <2>1 DEF Seen
<1>10. Elsewhere(r, Receive(r, u), d)
  BY <1>7 DEF Elsewhere
<1> QED
  BY <1>2, <1>4, <1>5, <1>8, <1>9, <1>10 DEF u, d, t

-----------------------------------------------------------------------------
(* What the converter may push to a reader who knows r: an event the       *)
(* reader accepts, at the place where it has last seen the device.         *)

EventOK(r, e, last) ==
  /\ e \in PointerData
  /\ Legal(r, e)
  /\ e.change # "add" /\ (e.change = "cancel" => last)
       => e.physical = r[e.device].physical + e.delta

(* A packet of such events.                                                *)
PacketOK ==
  /\ \A i \in DOMAIN packet' : packet'[i] \in PointerData
  /\ \A i \in DOMAIN packet' : Legal(Before(i), packet'[i])
  /\ \A i \in DOMAIN packet' :
       LET e == packet'[i]
           r == Before(i)
       IN e.change # "add" /\ ~(e.change = "cancel" /\ Len(packet') > i)
            => e.physical = r[e.device].physical + e.delta

(* No packet has more than three events: their reading is written out.     *)
LEMMA ReadingIsStepwise ==
  ASSUME NEW out, Len(out) \in 0..3
  PROVE  /\ Reading(out)[0] = reader
         /\ \A i \in 1..Len(out) : Reading(out)[i] = Receive(Reading(out)[i - 1], out[i])
<1> DEFINE n == Len(out)
           step(f) == [i \in 0..n |-> IF i = 0 THEN reader ELSE Receive(f[i - 1], out[i])]
           r1 == Receive(reader, out[1])
           r2 == Receive(r1, out[2])
           r3 == Receive(r2, out[3])
           w == [i \in 0..n |-> IF i = 0 THEN reader ELSE
                                IF i = 1 THEN r1 ELSE IF i = 2 THEN r2 ELSE r3]
<1>0. n \in 0..3
  OBVIOUS
<1>1. w = step(w)
  <2> HIDE DEF n
  <2>1. ASSUME NEW i \in 0..n
        PROVE  w[i] = (IF i = 0 THEN reader ELSE Receive(w[i - 1], out[i]))
    <3>1. i = 0 \/ i = 1 \/ i = 2 \/ i = 3
      BY <1>0
    <3>2. CASE i = 0
      BY <3>2
    <3>3. CASE i = 1
      <4>1. w[0] = reader /\ w[1] = r1
        BY <1>0, <3>3
      <4> QED
        BY <3>3, <4>1
    <3>4. CASE i = 2
      <4>1. w[1] = r1 /\ w[2] = r2
        BY <1>0, <3>4
      <4> QED
        BY <3>4, <4>1
    <3>5. CASE i = 3
      <4>1. w[2] = r2 /\ w[3] = r3
        BY <1>0, <3>5
      <4> QED
        BY <3>5, <4>1
    <3> QED
      BY <3>1, <3>2, <3>3, <3>4, <3>5
  <2> QED
    BY <2>1
<1>2. Reading(out) = CHOOSE f : f = step(f)
  BY DEF Reading
<1> HIDE DEF w
<1>3. Reading(out) = step(Reading(out))
  BY <1>1, <1>2
<1>4. \A i \in 0..n : Reading(out)[i] = (IF i = 0 THEN reader
                                          ELSE Receive(Reading(out)[i - 1], out[i]))
  BY <1>3
<1> QED
  BY <1>4

LEMMA DeliverNone ==
  ASSUME Deliver(<<>>)
  PROVE  PacketOK /\ reader' = reader
<1>1. packet' = <<>> /\ reader' = Reading(<<>>)[0]
  BY DEF Deliver
<1>2. Reading(<<>>)[0] = reader
  BY ReadingIsStepwise
<1> QED
  BY <1>1, <1>2 DEF PacketOK

LEMMA DeliverOne ==
  ASSUME NEW a, Deliver(<<a>>), EventOK(reader, a, TRUE)
  PROVE  PacketOK /\ reader' = Receive(reader, a)
<1> DEFINE q == Reading(<<a>>)
<1>1. packet' = <<a>> /\ reader' = q[1]
  BY DEF Deliver
<1>2. q[0] = reader /\ q[1] = Receive(reader, a)
  BY ReadingIsStepwise
<1>3. DOMAIN packet' = {1} /\ packet'[1] = a /\ Len(packet') = 1
  BY <1>1
<1>4. Before(1) = reader
  BY <1>1, <1>2 DEF Before
<1> QED
  BY <1>1, <1>2, <1>3, <1>4 DEF PacketOK, EventOK

LEMMA DeliverTwo ==
  ASSUME NEW a, NEW b, Deliver(<<a, b>>),
         EventOK(reader, a, FALSE), EventOK(Receive(reader, a), b, TRUE)
  PROVE  PacketOK /\ reader' = Receive(Receive(reader, a), b)
<1> DEFINE q == Reading(<<a, b>>)
<1>1. packet' = <<a, b>> /\ reader' = q[2]
  BY DEF Deliver
<1>2. q[0] = reader /\ q[1] = Receive(q[0], a) /\ q[2] = Receive(q[1], b)
  BY ReadingIsStepwise
<1>3. /\ DOMAIN packet' = {1, 2} /\ Len(packet') = 2
      /\ packet'[1] = a /\ packet'[2] = b
  BY <1>1
<1>4. Before(1) = reader /\ Before(2) = Receive(reader, a)
  BY <1>1, <1>2 DEF Before
<1> QED
  BY <1>1, <1>2, <1>3, <1>4 DEF PacketOK, EventOK

LEMMA DeliverThree ==
  ASSUME NEW a, NEW b, NEW c, NEW q, NEW r, Deliver(<<a, b, c>>),
         q = Receive(reader, a), r = Receive(q, b),
         EventOK(reader, a, FALSE), EventOK(q, b, FALSE), EventOK(r, c, TRUE)
  PROVE  PacketOK /\ reader' = Receive(r, c)
<1> DEFINE after == Reading(<<a, b, c>>)
<1>1. packet' = <<a, b, c>> /\ reader' = after[3]
  BY DEF Deliver
<1>2. /\ after[0] = reader /\ after[1] = Receive(after[0], a)
      /\ after[2] = Receive(after[1], b) /\ after[3] = Receive(after[2], c)
  BY ReadingIsStepwise
<1>3. /\ DOMAIN packet' = {1, 2, 3} /\ Len(packet') = 3
      /\ packet'[1] = a /\ packet'[2] = b /\ packet'[3] = c
  BY <1>1
<1>4. Before(1) = reader /\ Before(2) = q /\ Before(3) = r
  BY <1>1, <1>2 DEF Before
<1> QED
  BY <1>1, <1>2, <1>3, <1>4 DEF PacketOK, EventOK

-----------------------------------------------------------------------------
(* Each event of a device that has been added, at a reader who has seen    *)
(* the state s of the device.                                              *)

LEMMA AddIsOK ==
  ASSUME NEW r, NEW last, NEW e \in PointerData, e.change = "add", e.device \notin DOMAIN r
  PROVE  EventOK(r, e, last)
BY DEF EventOK, Legal

LEMMA RemoveIsOK ==
  ASSUME NEW r, NEW s, NEW last, NEW e \in PointerData, e.change = "remove",
         Seen(r, e.device, s), ~s.is_pan_zoom_active, s.view_id \in views => ~s.is_down,
         e.physical = s.physical, e.delta = 0
  PROVE  EventOK(r, e, last)
<1>1. e.physical = s.physical + e.delta
  <2>1. e.physical \in Int
    BY ConverterAssumption DEF PointerData
  <2> QED
    BY <2>1
<1> QED
  BY <1>1 DEF EventOK, Legal, Seen

LEMMA SignalIsOK ==
  ASSUME NEW r, NEW s, NEW last, NEW e \in PointerData, e.change = "signal",
         Seen(r, e.device, s), e.physical = s.physical, e.delta = 0
  PROVE  EventOK(r, e, last)
<1>1. e.physical = s.physical + e.delta
  <2>1. e.physical \in Int
    BY ConverterAssumption DEF PointerData
  <2> QED
    BY <2>1
<1> QED
  BY <1>1 DEF EventOK, Legal, Seen

LEMMA LocationIsOK ==
  ASSUME NEW r, NEW last, NEW e \in PointerData, NEW s, StateOK(e.device, s),
         Seen(r, e.device, s),
         e.change \in {"hover", "move", "pan_zoom_update"},
         e.change = "hover" => ~s.is_down,
         e.change = "move" => s.is_down,
         e.change = "pan_zoom_update" =>
           s.is_pan_zoom_active /\ e.pointer_identifier = s.pointer_identifier
  PROVE  EventOK(r, UpdateDelta(e, s), last) /\ StateOK(e.device, UpdateState(e, s))
<1> DEFINE u == UpdateDelta(e, s)
<1>1. /\ u \in PointerData /\ u.device = e.device /\ u.change = e.change
      /\ u.physical = r[e.device].physical + u.delta
      /\ u.pointer_identifier = e.pointer_identifier
  BY LocationIsSeen DEF StateOK
<1> HIDE DEF u
<1>2. Legal(r, u)
  BY <1>1 DEF Legal, Seen, StateOK
<1>3. StateOK(e.device, UpdateState(e, s))
  <2> DEFINE t == UpdateState(e, s)
  <2>1. /\ t \in PointerState /\ t.is_down = s.is_down
        /\ t.is_pan_zoom_active = s.is_pan_zoom_active
        /\ t.pointer_identifier = s.pointer_identifier
    BY DEF UpdateState, StateOK, PointerState, PointerData
  <2> HIDE DEF t
  <2>2. StateOK(e.device, t)
    BY <2>1 DEF StateOK
  <2> QED
    BY <2>2 DEF t
<1> QED
  BY <1>1, <1>2, <1>3 DEF EventOK, u

LEMMA EndContact ==
  ASSUME NEW r, NEW last, NEW e \in PointerData, NEW s, StateOK(e.device, s),
         Seen(r, e.device, s), s.is_down, e.pointer_identifier = s.pointer_identifier,
         e.change = "up" \/ e.change = "cancel",
         e.change = "up" \/ last => e.physical = s.physical, e.delta = 0
  PROVE  /\ EventOK(r, e, last)
         /\ StateOK(e.device, [s EXCEPT !.is_down = FALSE])
         /\ Seen(Receive(r, e), e.device, [s EXCEPT !.is_down = FALSE])
         /\ Elsewhere(r, Receive(r, e), e.device)
<1> DEFINE d == e.device
           t == [s EXCEPT !.is_down = FALSE]
           q == Receive(r, e)
           k == [r[d] EXCEPT !.contact = 0]
<1>1. (e.change = "cancel" => last) => e.physical = s.physical + e.delta
  <2>1. e.physical \in Int
    BY ConverterAssumption DEF PointerData
  <2> QED
    BY <2>1
<1>2. EventOK(r, e, last)
  BY <1>1 DEF EventOK, Legal, Seen, StateOK
<1>3. q = [r EXCEPT ![d].contact = 0]
  BY DEF Receive, Seen
<1>4. q[d] = k /\ DOMAIN q = DOMAIN r /\ \A x \in DOMAIN r : x # d => q[x] = r[x]
  BY <1>3 DEF Seen
<1>5. /\ k \in Known_ /\ k.view_id = r[d].view_id /\ k.physical = r[d].physical
      /\ k.pan = r[d].pan /\ k.contact = 0 /\ k.gesture = r[d].gesture
  BY DEF Seen, Known_
<1>6. /\ t \in PointerState /\ t.physical = s.physical /\ t.pan = s.pan
      /\ t.view_id = s.view_id /\ t.is_down = FALSE
      /\ t.is_pan_zoom_active = s.is_pan_zoom_active
      /\ t.pointer_identifier = s.pointer_identifier
  BY DEF StateOK, PointerState
<1> HIDE DEF q, k, t
<1>7. StateOK(d, t)
  BY <1>6 DEF StateOK
<1>8. Seen(q, d, t)
  BY <1>4, <1>5, <1>6 DEF Seen
<1>9. Elsewhere(r, q, d)
  BY <1>4 DEF Elsewhere
<1> QED
  BY <1>2, <1>7, <1>8, <1>9 DEF q, t

LEMMA EndGesture ==
  ASSUME NEW r, NEW last, NEW e \in PointerData, NEW s, StateOK(e.device, s),
         Seen(r, e.device, s), s.is_pan_zoom_active,
         e.pointer_identifier = s.pointer_identifier,
         e.change = "pan_zoom_end", e.physical = s.physical, e.delta = 0
  PROVE  /\ EventOK(r, e, last)
         /\ StateOK(e.device, [s EXCEPT !.is_pan_zoom_active = FALSE])
         /\ Seen(Receive(r, e), e.device, [s EXCEPT !.is_pan_zoom_active = FALSE])
         /\ Elsewhere(r, Receive(r, e), e.device)
<1> DEFINE d == e.device
           t == [s EXCEPT !.is_pan_zoom_active = FALSE]
           q == Receive(r, e)
           k == [r[d] EXCEPT !.gesture = 0]
<1>1. e.physical = s.physical + e.delta
  <2>1. e.physical \in Int
    BY ConverterAssumption DEF PointerData
  <2> QED
    BY <2>1
<1>2. EventOK(r, e, last)
  BY <1>1 DEF EventOK, Legal, Seen, StateOK
<1>3. q = [r EXCEPT ![d].gesture = 0]
  BY DEF Receive, Seen
<1>4. q[d] = k /\ DOMAIN q = DOMAIN r /\ \A x \in DOMAIN r : x # d => q[x] = r[x]
  BY <1>3 DEF Seen
<1>5. /\ k \in Known_ /\ k.view_id = r[d].view_id /\ k.physical = r[d].physical
      /\ k.pan = r[d].pan /\ k.contact = r[d].contact /\ k.gesture = 0
  BY DEF Seen, Known_
<1>6. /\ t \in PointerState /\ t.physical = s.physical /\ t.pan = s.pan
      /\ t.view_id = s.view_id /\ t.is_down = s.is_down
      /\ t.is_pan_zoom_active = FALSE
      /\ t.pointer_identifier = s.pointer_identifier
  BY DEF StateOK, PointerState
<1> HIDE DEF q, k, t
<1>7. StateOK(d, t)
  BY <1>6 DEF StateOK
<1>8. Seen(q, d, t)
  BY <1>4, <1>5, <1>6 DEF Seen
<1>9. Elsewhere(r, q, d)
  BY <1>4 DEF Elsewhere
<1> QED
  BY <1>2, <1>7, <1>8, <1>9 DEF q, t

LEMMA StartContact ==
  ASSUME NEW r, NEW last, NEW e \in PointerData, NEW s, StateOK(e.device, s),
         Seen(r, e.device, s), ~s.is_down, ~s.is_pan_zoom_active,
         e.change = "down", e.device \notin Trackpad, e.pointer_identifier # 0,
         e.physical = s.physical, e.delta = 0
  PROVE  LET t == [s EXCEPT !.pointer_identifier = e.pointer_identifier, !.is_down = TRUE]
         IN /\ EventOK(r, e, last)
            /\ StateOK(e.device, t) /\ Seen(Receive(r, e), e.device, t)
            /\ Elsewhere(r, Receive(r, e), e.device)
<1> DEFINE d == e.device
           q == Receive(r, e)
           t == [s EXCEPT !.pointer_identifier = e.pointer_identifier, !.is_down = TRUE]
           k == [r[d] EXCEPT !.contact = e.pointer_identifier]
<1>1. e.physical = s.physical + e.delta
  <2>1. e.physical \in Int
    BY ConverterAssumption DEF PointerData
  <2> QED
    BY <2>1
<1>2. EventOK(r, e, last)
  BY <1>1 DEF EventOK, Legal, Seen, StateOK
<1>3. q = [r EXCEPT ![d].contact = e.pointer_identifier]
  BY DEF Receive, Seen
<1>4. q[d] = k /\ DOMAIN q = DOMAIN r /\ \A x \in DOMAIN r : x # d => q[x] = r[x]
  BY <1>3 DEF Seen
<1>5. /\ k \in Known_ /\ k.view_id = r[d].view_id /\ k.physical = r[d].physical
      /\ k.contact = e.pointer_identifier /\ k.gesture = 0
  BY ConverterAssumption DEF Seen, Known_, PointerData
<1>6. /\ t \in PointerState /\ t.physical = s.physical
      /\ t.view_id = s.view_id /\ t.is_down = TRUE
      /\ t.is_pan_zoom_active = FALSE
      /\ t.pointer_identifier = e.pointer_identifier
  BY DEF StateOK, PointerState, PointerData
<1> HIDE DEF q, k, t
<1>7. StateOK(d, t)
  BY <1>6 DEF StateOK
<1>8. Seen(q, d, t)
  BY <1>4, <1>5, <1>6 DEF Seen
<1>9. Elsewhere(r, q, d)
  BY <1>4 DEF Elsewhere
<1> QED
  BY <1>2, <1>7, <1>8, <1>9 DEF q, t

LEMMA StartGesture ==
  ASSUME NEW r, NEW last, NEW e \in PointerData, NEW s, StateOK(e.device, s),
         Seen(r, e.device, s), ~s.is_down, ~s.is_pan_zoom_active,
         e.change = "pan_zoom_start", e.device \in Trackpad, e.pointer_identifier # 0,
         e.physical = s.physical, e.delta = 0
  PROVE  LET t == [s EXCEPT !.pointer_identifier = e.pointer_identifier,
                            !.is_pan_zoom_active = TRUE, !.pan = 0]
         IN /\ EventOK(r, e, last)
            /\ StateOK(e.device, t) /\ Seen(Receive(r, e), e.device, t)
            /\ Elsewhere(r, Receive(r, e), e.device)
<1>0. PICK zero \in Int : zero = 0
  OBVIOUS
<1> DEFINE d == e.device
           q == Receive(r, e)
           t == [s EXCEPT !.pointer_identifier = e.pointer_identifier,
                          !.is_pan_zoom_active = TRUE, !.pan = 0]
           k == [r[d] EXCEPT !.gesture = e.pointer_identifier, !.pan = zero]
<1>1. e.physical = s.physical + e.delta
  <2>1. e.physical \in Int
    BY ConverterAssumption DEF PointerData
  <2> QED
    BY <2>1
<1>2. EventOK(r, e, last)
  BY <1>1 DEF EventOK, Legal, Seen, StateOK
<1>3. q = [r EXCEPT ![d].gesture = e.pointer_identifier, ![d].pan = zero]
  BY <1>0 DEF Receive, Seen
<1>4. q[d] = k /\ DOMAIN q = DOMAIN r /\ \A x \in DOMAIN r : x # d => q[x] = r[x]
  BY <1>3 DEF Seen
<1>5. /\ k \in Known_ /\ k.view_id = r[d].view_id /\ k.physical = r[d].physical
      /\ k.pan = 0 /\ k.contact = 0 /\ k.gesture = e.pointer_identifier
  <2>1. e.pointer_identifier \in Nat
    BY ConverterAssumption DEF PointerData
  <2>2. r[d] \in Known_ /\ r[d].contact = 0
    BY DEF Seen
  <2> QED
    BY <1>0, <2>1, <2>2 DEF Known_
<1>6. /\ t \in PointerState /\ t.physical = s.physical /\ t.pan = 0
      /\ t.view_id = s.view_id /\ t.is_down = FALSE
      /\ t.is_pan_zoom_active = TRUE
      /\ t.pointer_identifier = e.pointer_identifier
  BY ConverterAssumption DEF StateOK, PointerState, PointerData
<1> HIDE DEF q, k, t
<1>7. StateOK(d, t)
  BY <1>6 DEF StateOK
<1>8. Seen(q, d, t)
  BY <1>4, <1>5, <1>6 DEF Seen
<1>9. Elsewhere(r, q, d)
  BY <1>4 DEF Elsewhere
<1> QED
  BY <1>2, <1>7, <1>8, <1>9 DEF q, t

-----------------------------------------------------------------------------
(* Packets put together from parts.                                        *)

LEMMA OneThenOne ==
  ASSUME NEW a, NEW b
  PROVE  <<a>> \o <<b>> = <<a, b>> /\ Append(<<a>>, b) = <<a, b>>
<1> DEFINE S == {a, b}
           x == <<a>>
           y == <<b>>
           w == <<a, b>>
<1>1. /\ x \in Seq(S) /\ Len(x) = 1 /\ x[1] = a
      /\ y \in Seq(S) /\ Len(y) = 1 /\ y[1] = b /\ b \in S
      /\ w \in Seq(S) /\ Len(w) = 2 /\ w[1] = a /\ w[2] = b
  OBVIOUS
<1> HIDE DEF S, x, y, w
<1>2. ASSUME NEW z \in Seq(S), Len(z) = 2, z[1] = a, z[2] = b
      PROVE  z = w
  <2>1. \A i \in 1..Len(z) : z[i] = w[i]
    BY <1>1, <1>2
  <2> QED
    BY <1>1, <1>2, <2>1, SeqEqual
<1>3. x \o y = w
  <2> DEFINE z == x \o y
  <2>1. z \in Seq(S) /\ Len(z) = 2
        /\ \A i \in 1..2 : z[i] = IF i <= 1 THEN x[i] ELSE y[i - 1]
    BY <1>1, ConcatProperties
  <2> HIDE DEF z
  <2>2. z = w
    BY <1>1, <1>2, <2>1
  <2> QED
    BY <2>2 DEF z
<1>4. Append(x, b) = w
  <2> DEFINE z == Append(x, b)
  <2>1. z \in Seq(S) /\ Len(z) = 2 /\ z[1] = a /\ z[2] = b
    BY <1>1, AppendProperties
  <2> HIDE DEF z
  <2>2. z = w
    BY <1>2, <2>1
  <2> QED
    BY <2>2 DEF z
<1> QED
  BY <1>3, <1>4 DEF x, y, w

LEMMA TwoThenOne ==
  ASSUME NEW a, NEW b, NEW c
  PROVE  Append(<<a, b>>, c) = <<a, b, c>>
<1> DEFINE S == {a, b, c}
           y == <<a, b>>
           z == Append(y, c)
           w == <<a, b, c>>
<1>1. /\ y \in Seq(S) /\ Len(y) = 2 /\ y[1] = a /\ y[2] = b /\ c \in S
      /\ w \in Seq(S) /\ Len(w) = 3 /\ w[1] = a /\ w[2] = b /\ w[3] = c
  OBVIOUS
<1> HIDE DEF S, y, w
<1>2. /\ z \in Seq(S) /\ Len(z) = Len(y) + 1 /\ z[Len(y) + 1] = c
      /\ \A i \in 1..Len(y) : z[i] = y[i]
  <2>1. y \in Seq(S) /\ c \in S
    BY <1>1
  <2>2. z \in Seq(S)
    BY <2>1, AppendProperties
  <2>3. Len(z) = Len(y) + 1
    BY <2>1, AppendProperties
  <2>4. z[Len(y) + 1] = c
    BY <2>1, AppendProperties
  <2>5. \A i \in 1..Len(y) : z[i] = y[i]
    BY <2>1, AppendProperties
  <2> QED
    BY <2>2, <2>3, <2>4, <2>5
<1> HIDE DEF z
<1>3. Len(z) = 3 /\ z[1] = a /\ z[2] = b /\ z[3] = c
  BY <1>1, <1>2
<1>4. \A i \in 1..Len(z) : z[i] = w[i]
  BY <1>1, <1>3
<1>5. z = w
  BY <1>1, <1>2, <1>3, <1>4, SeqEqual
<1> QED
  BY <1>5 DEF y, z, w

-----------------------------------------------------------------------------
(* Several events of one device.                                           *)

LEMMA ElsewhereTwice ==
  ASSUME NEW p, NEW q, NEW r, NEW d, Elsewhere(p, q, d), Elsewhere(q, r, d)
  PROVE  Elsewhere(p, r, d)
BY DEF Elsewhere

(* What the reader knows after the synthesized event, if there is one.     *)
AfterSynthesis(r, e, s) ==
  IF LocationNeedsUpdate(e, s) THEN Receive(r, UpdateDelta(e, s)) ELSE r

LEMMA LocatedFields ==
  ASSUME NEW e \in PointerData, NEW s \in PointerState
  PROVE  LET t == Located(e, s)
         IN /\ t \in PointerState /\ t.physical = e.physical /\ t.view_id = s.view_id
            /\ t.is_down = s.is_down /\ t.is_pan_zoom_active = s.is_pan_zoom_active
            /\ t.pointer_identifier = s.pointer_identifier
BY DEF Located, LocationNeedsUpdate, UpdateState, PointerData, PointerState

LEMMA SynthesizedIsSeen ==
  ASSUME NEW r, NEW e \in PointerData, NEW s, StateOK(e.device, s), Seen(r, e.device, s),
         e.change \in {"hover", "move", "pan_zoom_update"},
         e.change = "hover" => ~s.is_down,
         e.change = "move" => s.is_down,
         e.change = "pan_zoom_update" =>
           s.is_pan_zoom_active /\ e.pointer_identifier = s.pointer_identifier
  PROVE  LET q == AfterSynthesis(r, e, s)
             t == Located(e, s)
         IN /\ LocationNeedsUpdate(e, s) => \A last : EventOK(r, UpdateDelta(e, s), last)
            /\ StateOK(e.device, t) /\ Seen(q, e.device, t) /\ Elsewhere(r, q, e.device)
<1> DEFINE q == AfterSynthesis(r, e, s)
           t == Located(e, s)
           d == e.device
<1>1. s \in PointerState
  BY DEF StateOK
<1>2. \A last : EventOK(r, UpdateDelta(e, s), last)
  BY LocationIsOK
<1>3. StateOK(d, t)
  <2>1. /\ t \in PointerState /\ t.is_down = s.is_down
        /\ t.is_pan_zoom_active = s.is_pan_zoom_active
        /\ t.pointer_identifier = s.pointer_identifier
    BY <1>1, LocatedFields
  <2> HIDE DEF t
  <2> QED
    BY <2>1 DEF StateOK
<1>4. Seen(q, d, t) /\ Elsewhere(r, q, d)
  <2>1. CASE LocationNeedsUpdate(e, s)
    <3>1. q = Receive(r, UpdateDelta(e, s)) /\ t = UpdateState(e, s)
      BY <2>1 DEF AfterSynthesis, Located
    <3> QED
      BY <1>1, <3>1, LocationIsSeen
  <2>2. CASE ~LocationNeedsUpdate(e, s)
    <3>1. q = r /\ t = s
      BY <2>2 DEF AfterSynthesis, Located
    <3>2. Elsewhere(r, r, d)
      BY DEF Elsewhere
    <3> QED
      BY <3>1, <3>2
  <2> QED
    BY <2>1, <2>2
<1> QED
  BY <1>2, <1>3, <1>4

LEMMA DeliverSynthesized ==
  ASSUME NEW e, NEW s, NEW b, Deliver(Append(Synthesized(e, s), b)),
         LocationNeedsUpdate(e, s) => EventOK(reader, UpdateDelta(e, s), FALSE),
         EventOK(AfterSynthesis(reader, e, s), b, TRUE)
  PROVE  PacketOK /\ reader' = Receive(AfterSynthesis(reader, e, s), b)
<1>1. CASE LocationNeedsUpdate(e, s)
  <2>1. Append(Synthesized(e, s), b) = <<UpdateDelta(e, s), b>>
    <3>1. Synthesized(e, s) = <<UpdateDelta(e, s)>>
      BY <1>1 DEF Synthesized
    <3> QED
      BY <3>1, OneThenOne
  <2>2. AfterSynthesis(reader, e, s) = Receive(reader, UpdateDelta(e, s))
    BY <1>1 DEF AfterSynthesis
  <2> QED
    BY <1>1, <2>1, <2>2, DeliverTwo
<1>2. CASE ~LocationNeedsUpdate(e, s)
  <2>1. Append(Synthesized(e, s), b) = <<b>>
    BY <1>2 DEF Synthesized
  <2>2. AfterSynthesis(reader, e, s) = reader
    BY <1>2 DEF AfterSynthesis
  <2> QED
    BY <2>1, <2>2, DeliverOne
<1> QED
  BY <1>1, <1>2

-----------------------------------------------------------------------------
(* The invariant after each way the state of a device can change.          *)

LEMMA StoreKeepsInv ==
  ASSUME ConverterInv, NEW d \in Device, NEW t, states_' = Store(states_, d, t),
         StateOK(d, t), Seen(reader', d, t), Elsewhere(reader, reader', d),
         pointer_' \in 0..MaxPointers, views' \subseteq View, PacketOK
  PROVE  ConverterInv'
<1>1. /\ DOMAIN states_' = DOMAIN states_ \cup {d}
      /\ states_'[d] = t
      /\ \A x \in DOMAIN states_ : x # d => states_'[x] = states_[x]
  BY DEF Store
<1>2. /\ DOMAIN states_ \subseteq Device /\ DOMAIN reader = DOMAIN states_
      /\ \A x \in DOMAIN states_ : StateOK(x, states_[x]) /\ Seen(reader, x, states_[x])
  BY DEF ConverterInv, ConverterTypeOK
<1>3. \A x \in DOMAIN states_' : StateOK(x, states_'[x]) /\ Seen(reader', x, states_'[x])
  <2>1. ASSUME NEW x \in DOMAIN states_, x # d
        PROVE  StateOK(x, states_'[x]) /\ Seen(reader', x, states_'[x])
    <3>1. x \in DOMAIN reader' /\ reader'[x] = reader[x] /\ states_'[x] = states_[x]
      BY <1>1, <1>2, <2>1 DEF Elsewhere
    <3>2. StateOK(x, states_[x]) /\ Seen(reader, x, states_[x])
      BY <1>2
    <3> QED
      BY <3>1, <3>2 DEF Seen
  <2> QED
    BY <1>1, <2>1
<1>4. DOMAIN reader' = DOMAIN states_'
  BY <1>1, <1>2 DEF Elsewhere, Seen
<1>5. ConverterTypeOK'
  <2>1. \A x \in DOMAIN states_' : states_'[x] \in PointerState
    BY <1>3 DEF StateOK
  <2> QED
    BY <1>1, <1>2, <2>1 DEF ConverterTypeOK, PacketOK
<1> QED
  BY <1>3, <1>4, <1>5 DEF ConverterInv, StateOK, Seen, Known_, PointerState

LEMMA DropKeepsInv ==
  ASSUME ConverterInv, NEW d \in Device, states_' = Drop(states_, d),
         d \notin DOMAIN reader', Elsewhere(reader, reader', d),
         pointer_' \in 0..MaxPointers, views' \subseteq View, PacketOK
  PROVE  ConverterInv'
<1>1. /\ DOMAIN states_' = DOMAIN states_ \ {d}
      /\ \A x \in DOMAIN states_ : x # d => states_'[x] = states_[x]
  BY DEF Drop
<1>2. /\ DOMAIN states_ \subseteq Device /\ DOMAIN reader = DOMAIN states_
      /\ \A x \in DOMAIN states_ : StateOK(x, states_[x]) /\ Seen(reader, x, states_[x])
  BY DEF ConverterInv, ConverterTypeOK
<1>3. \A x \in DOMAIN states_' : StateOK(x, states_'[x]) /\ Seen(reader', x, states_'[x])
  <2>1. ASSUME NEW x \in DOMAIN states_, x # d
        PROVE  StateOK(x, states_'[x]) /\ Seen(reader', x, states_'[x])
    <3>1. x \in DOMAIN reader' /\ reader'[x] = reader[x] /\ states_'[x] = states_[x]
      BY <1>1, <1>2, <2>1 DEF Elsewhere
    <3>2. StateOK(x, states_[x]) /\ Seen(reader, x, states_[x])
      BY <1>2
    <3> QED
      BY <3>1, <3>2 DEF Seen
  <2> QED
    BY <1>1, <2>1
<1>4. DOMAIN reader' = DOMAIN states_'
  BY <1>1, <1>2 DEF Elsewhere
<1>5. ConverterTypeOK'
  <2>1. \A x \in DOMAIN states_' : states_'[x] \in PointerState
    BY <1>3 DEF StateOK
  <2> QED
    BY <1>1, <1>2, <2>1 DEF ConverterTypeOK, PacketOK
<1> QED
  BY <1>3, <1>4, <1>5 DEF ConverterInv, StateOK, Seen, Known_, PointerState

LEMMA NothingKeepsInv ==
  ASSUME ConverterInv, UNCHANGED <<states_, reader>>,
         pointer_' \in 0..MaxPointers, views' \subseteq View, PacketOK
  PROVE  ConverterInv'
<1>1. ConverterTypeOK'
  BY DEF ConverterInv, ConverterTypeOK, PacketOK
<1> QED
  BY <1>1 DEF ConverterInv, StateOK, Seen, Known_, PointerState

-----------------------------------------------------------------------------
(* The copies of an event, and the device it is of.                        *)

LEMMA AsFields ==
  ASSUME NEW e \in PointerData, NEW change \in Change
  PROVE  LET c == As(e, change)
         IN /\ c \in PointerData /\ c.change = change /\ c.device = e.device
            /\ c.view_id = e.view_id /\ c.physical = e.physical /\ c.pan = e.pan
            /\ c.delta = e.delta /\ c.pointer_identifier = e.pointer_identifier
BY DEF As, PointerData

LEMMA IdentifiedFields ==
  ASSUME NEW e \in PointerData, NEW s \in PointerState
  PROVE  LET c == Identified(e, s)
         IN /\ c \in PointerData /\ c.change = e.change /\ c.device = e.device
            /\ c.view_id = e.view_id /\ c.physical = e.physical /\ c.pan = e.pan
            /\ c.delta = e.delta /\ c.pointer_identifier = s.pointer_identifier
BY DEF Identified, PointerData, PointerState

LEMMA KnownIsSeen ==
  ASSUME ConverterInv, NEW d, Known(d)
  PROVE  StateOK(d, states_[d]) /\ Seen(reader, d, states_[d])
BY DEF ConverterInv, Known

(* What the reader knows once it has been told of the device of e.         *)
AfterAdd(e) == IF Known(e.device) THEN reader ELSE Receive(reader, As(e, "add"))

LEMMA StateForIsSeen ==
  ASSUME ConverterInv, NEW e \in PointerData
  PROVE  LET s == StateFor(e)
             d == e.device
         IN /\ StateOK(d, s) /\ Seen(AfterAdd(e), d, s) /\ Elsewhere(reader, AfterAdd(e), d)
            /\ ~Known(d) => /\ \A last : EventOK(reader, As(e, "add"), last)
                            /\ s.physical = e.physical
                            /\ ~s.is_down /\ ~s.is_pan_zoom_active
<1> DEFINE d == e.device
<1>1. CASE Known(d)
  <2>1. StateFor(e) = states_[d] /\ AfterAdd(e) = reader
    BY <1>1 DEF StateFor, AfterAdd
  <2>2. Elsewhere(reader, reader, d)
    BY DEF Elsewhere
  <2> QED
    BY <1>1, <2>1, <2>2, KnownIsSeen
<1>2. CASE ~Known(d)
  <2> DEFINE a == As(e, "add")
             s == EnsurePointerState(e)
  <2>1. StateFor(e) = s /\ AfterAdd(e) = Receive(reader, a)
    BY <1>2 DEF StateFor, AfterAdd
  <2>2. /\ a \in PointerData /\ a.change = "add" /\ a.device = d
        /\ EnsurePointerState(a) = s
    <3>1. "add" \in Change
      BY DEF Change
    <3>2. /\ a \in PointerData /\ a.change = "add" /\ a.device = d
          /\ a.view_id = e.view_id /\ a.physical = e.physical
      BY <3>1, AsFields
    <3> HIDE DEF a
    <3> QED
      BY <3>2 DEF EnsurePointerState
  <2>3. /\ s \in PointerState /\ s.physical = e.physical
        /\ ~s.is_down /\ ~s.is_pan_zoom_active
    BY ConverterAssumption DEF EnsurePointerState, PointerState, PointerData
  <2> HIDE DEF a, s
  <2>4. Seen(Receive(reader, a), d, s) /\ Elsewhere(reader, Receive(reader, a), d)
    BY <2>2, AddIsSeen
  <2>5. d \notin DOMAIN reader
    BY <1>2 DEF ConverterInv, Known
  <2>6. \A last : EventOK(reader, a, last)
    BY <2>2, <2>5, AddIsOK
  <2>7. StateOK(d, s)
    BY <2>3 DEF StateOK
  <2> QED
    BY <1>2, <2>1, <2>3, <2>4, <2>6, <2>7 DEF a
<1> QED
  BY <1>1, <1>2

LEMMA DeliverAfterAdd ==
  ASSUME NEW e \in PointerData, NEW h, NEW s, NEW b,
         Deliver(MissingAdd(e) \o Append(Synthesized(h, s), b)),
         Known(e.device) /\ LocationNeedsUpdate(h, s)
           => EventOK(reader, UpdateDelta(h, s), FALSE),
         ~Known(e.device) => /\ ~LocationNeedsUpdate(h, s)
                             /\ EventOK(reader, As(e, "add"), FALSE),
         EventOK(AfterSynthesis(AfterAdd(e), h, s), b, TRUE)
  PROVE  PacketOK /\ reader' = Receive(AfterSynthesis(AfterAdd(e), h, s), b)
<1>1. CASE Known(e.device)
  <2>1. AfterAdd(e) = reader /\ MissingAdd(e) = <<>>
    BY <1>1 DEF AfterAdd, MissingAdd
  <2>2. <<>> \o Append(Synthesized(h, s), b) = Append(Synthesized(h, s), b)
    <3>1. CASE LocationNeedsUpdate(h, s)
      <4>1. Append(Synthesized(h, s), b) = <<UpdateDelta(h, s), b>>
        BY <3>1, OneThenOne DEF Synthesized
      <4> QED
        BY <4>1
    <3>2. CASE ~LocationNeedsUpdate(h, s)
      <4>1. Append(Synthesized(h, s), b) = <<b>>
        BY <3>2 DEF Synthesized
      <4> QED
        BY <4>1
    <3> QED
      BY <3>1, <3>2
  <2> QED
    BY <1>1, <2>1, <2>2, DeliverSynthesized
<1>2. CASE ~Known(e.device)
  <2>1. Synthesized(h, s) = <<>> /\ MissingAdd(e) = <<As(e, "add")>>
    BY <1>2 DEF Synthesized, MissingAdd
  <2>2. Append(Synthesized(h, s), b) = <<b>>
    BY <2>1
  <2>3. MissingAdd(e) \o Append(Synthesized(h, s), b) = <<As(e, "add"), b>>
    BY <2>1, <2>2, OneThenOne
  <2>4. AfterSynthesis(AfterAdd(e), h, s) = Receive(reader, As(e, "add"))
    BY <1>2 DEF AfterSynthesis, AfterAdd
  <2> QED
    BY <1>2, <2>3, <2>4, DeliverTwo
<1> QED
  BY <1>1, <1>2

-----------------------------------------------------------------------------
(* ConvertPointerData, case by case.                                       *)

LEMMA NothingConverts ==
  ASSUME ConverterInv, Deliver(<<>>), UNCHANGED <<states_, pointer_, views>>
  PROVE  ConverterInv' /\ PacketOK
<1>1. PacketOK /\ reader' = reader
  BY DeliverNone
<1>2. pointer_' \in 0..MaxPointers /\ views' \subseteq View
  BY DEF ConverterInv, ConverterTypeOK
<1> QED
  BY <1>1, <1>2, NothingKeepsInv

LEMMA ContactEndConverts ==
  ASSUME ConverterInv, NEW e \in RawData, Expected(e), CancelKnown(e) \/ Up(e),
         UNCHANGED views
  PROVE  ConverterInv' /\ PacketOK
<1> DEFINE d == e.device
           s == states_[d]
           c == Identified(e, s)
           h == As(c, "move")
           q == AfterSynthesis(reader, h, s)
           t == Located(h, s)
<1>1. /\ e \in PointerData /\ e.delta = 0 /\ d \in Device
      /\ e.change = "up" \/ e.change = "cancel"
  BY RawTypes DEF CancelKnown, Up, PointerData
<1>2. /\ StateOK(d, s) /\ Seen(reader, d, s) /\ s.is_down
  BY KnownIsSeen DEF CancelKnown, Up, Expected, Asserted
<1>3. s \in PointerState
  BY <1>2 DEF StateOK
<1>4. /\ c \in PointerData /\ c.change \in {"up", "cancel"} /\ c.device = d
      /\ c.physical = e.physical /\ c.delta = 0
      /\ c.pointer_identifier = s.pointer_identifier
  BY <1>1, <1>3, IdentifiedFields
<1> HIDE DEF c
<1>5. /\ h \in PointerData /\ h.change = "move" /\ h.device = d
      /\ h.physical = c.physical /\ h.pan = c.pan
  BY <1>4, AsFields DEF Change
<1>6. Located(c, s) = t
  BY <1>5 DEF Located, LocationNeedsUpdate, UpdateState
<1>7. /\ states_' = Store(states_, d, [t EXCEPT !.is_down = FALSE])
      /\ Deliver(Append(Synthesized(h, s), c))
      /\ pointer_' = pointer_
  BY <1>6 DEF CancelKnown, Up, Emit, c
<1> HIDE DEF h
<1>8. /\ LocationNeedsUpdate(h, s) => EventOK(reader, UpdateDelta(h, s), FALSE)
      /\ StateOK(d, t) /\ Seen(q, d, t) /\ Elsewhere(reader, q, d)
  BY <1>2, <1>5, SynthesizedIsSeen
<1>9. /\ t.physical = c.physical /\ t.is_down
      /\ t.pointer_identifier = s.pointer_identifier
  BY <1>2, <1>3, <1>5, LocatedFields
<1> HIDE DEF q, t, s
<1>10. /\ EventOK(q, c, TRUE)
       /\ StateOK(d, [t EXCEPT !.is_down = FALSE])
       /\ Seen(Receive(q, c), d, [t EXCEPT !.is_down = FALSE])
       /\ Elsewhere(q, Receive(q, c), d)
  BY <1>4, <1>8, <1>9, EndContact
<1>11. PacketOK /\ reader' = Receive(q, c)
  BY <1>7, <1>8, <1>10, DeliverSynthesized DEF q
<1>12. Elsewhere(reader, reader', d)
  BY <1>8, <1>10, <1>11, ElsewhereTwice
<1>13. pointer_' \in 0..MaxPointers /\ views' \subseteq View
  BY <1>7 DEF ConverterInv, ConverterTypeOK
<1> HIDE DEF d
<1> QED
  BY <1>1, <1>7, <1>10, <1>11, <1>12, <1>13, StoreKeepsInv DEF d

LEMMA PanZoomEndConverts ==
  ASSUME ConverterInv, NEW e \in RawData, Expected(e), PanZoomEnd(e), UNCHANGED views
  PROVE  ConverterInv' /\ PacketOK
<1> DEFINE d == e.device
           s == states_[d]
           c == Identified(e, s)
           h == [As(c, "pan_zoom_update") EXCEPT !.pan = s.pan]
           q == AfterSynthesis(reader, h, s)
           t == Located(h, s)
<1>1. /\ e \in PointerData /\ e.delta = 0 /\ e.change = "pan_zoom_end" /\ d \in Device
  BY RawTypes DEF PanZoomEnd, PointerData
<1>2. /\ StateOK(d, s) /\ Seen(reader, d, s) /\ s.is_pan_zoom_active
  BY KnownIsSeen DEF PanZoomEnd, Expected, Asserted
<1>3. s \in PointerState /\ s.pan \in Pan
  BY <1>2 DEF StateOK, PointerState
<1>4. /\ c \in PointerData /\ c.change = "pan_zoom_end" /\ c.device = d
      /\ c.physical = e.physical /\ c.delta = 0
      /\ c.pointer_identifier = s.pointer_identifier
  BY <1>1, <1>3, IdentifiedFields
<1>5. /\ states_' = Store(states_, d, [t EXCEPT !.is_pan_zoom_active = FALSE])
      /\ Deliver(Append(Synthesized(h, s), c))
      /\ pointer_' = pointer_
  BY DEF PanZoomEnd, Emit
<1> HIDE DEF c
<1>6. /\ h \in PointerData /\ h.change = "pan_zoom_update" /\ h.device = d
      /\ h.physical = c.physical /\ h.pointer_identifier = c.pointer_identifier
  <2> DEFINE a == As(c, "pan_zoom_update")
  <2>1. /\ a \in PointerData /\ a.change = "pan_zoom_update" /\ a.device = d
        /\ a.physical = c.physical /\ a.pointer_identifier = c.pointer_identifier
    BY <1>4, AsFields DEF Change
  <2> HIDE DEF a
  <2>2. LET b == [a EXCEPT !.pan = s.pan]
        IN /\ b \in PointerData /\ b.change = a.change /\ b.device = a.device
           /\ b.physical = a.physical /\ b.pointer_identifier = a.pointer_identifier
    BY <1>3, <2>1 DEF PointerData
  <2> QED
    BY <2>1, <2>2 DEF a
<1> HIDE DEF h
<1>7. /\ LocationNeedsUpdate(h, s) => EventOK(reader, UpdateDelta(h, s), FALSE)
      /\ StateOK(d, t) /\ Seen(q, d, t) /\ Elsewhere(reader, q, d)
  BY <1>2, <1>4, <1>6, SynthesizedIsSeen
<1>8. /\ t.physical = c.physical /\ t.is_pan_zoom_active
      /\ t.pointer_identifier = s.pointer_identifier
  BY <1>2, <1>3, <1>6, LocatedFields
<1> HIDE DEF q, t, s
<1>9. /\ EventOK(q, c, TRUE)
      /\ StateOK(d, [t EXCEPT !.is_pan_zoom_active = FALSE])
      /\ Seen(Receive(q, c), d, [t EXCEPT !.is_pan_zoom_active = FALSE])
      /\ Elsewhere(q, Receive(q, c), d)
  BY <1>4, <1>7, <1>8, EndGesture
<1>10. PacketOK /\ reader' = Receive(q, c)
  BY <1>5, <1>7, <1>9, DeliverSynthesized DEF q
<1>11. Elsewhere(reader, reader', d)
  BY <1>7, <1>9, <1>10, ElsewhereTwice
<1>12. pointer_' \in 0..MaxPointers /\ views' \subseteq View
  BY <1>5 DEF ConverterInv, ConverterTypeOK
<1> HIDE DEF d
<1> QED
  BY <1>1, <1>5, <1>9, <1>10, <1>11, <1>12, StoreKeepsInv DEF d

LEMMA MoveConverts ==
  ASSUME ConverterInv, NEW e \in RawData, Expected(e), Move(e) \/ PanZoomUpdate(e),
         UNCHANGED views
  PROVE  ConverterInv' /\ PacketOK
<1> DEFINE d == e.device
           s == states_[d]
           c == Identified(e, s)
           t == UpdateState(c, s)
           u == UpdateDelta(c, s)
<1>1. /\ e \in PointerData /\ d \in Device
      /\ e.change = "move" \/ e.change = "pan_zoom_update"
  BY RawTypes DEF Move, PanZoomUpdate, PointerData
<1>2. /\ StateOK(d, s) /\ Seen(reader, d, s)
      /\ e.change = "move" => s.is_down
      /\ e.change = "pan_zoom_update" => s.is_pan_zoom_active
  BY KnownIsSeen DEF Move, PanZoomUpdate, Expected, Asserted
<1>3. s \in PointerState
  BY <1>2 DEF StateOK
<1>4. /\ c \in PointerData /\ c.change = e.change /\ c.device = d
      /\ c.physical = e.physical /\ c.pan = e.pan
      /\ c.pointer_identifier = s.pointer_identifier
  BY <1>1, <1>3, IdentifiedFields
<1>5. UpdateState(e, s) = t
  BY <1>4 DEF UpdateState
<1>6. /\ states_' = Store(states_, d, t) /\ Deliver(<<u>>) /\ pointer_' = pointer_
  BY <1>5 DEF Move, PanZoomUpdate, Emit
<1> HIDE DEF c, s
<1>7. EventOK(reader, u, TRUE) /\ StateOK(d, t)
  BY <1>1, <1>2, <1>4, LocationIsOK
<1>8. Seen(Receive(reader, u), d, t) /\ Elsewhere(reader, Receive(reader, u), d)
  BY <1>1, <1>2, <1>3, <1>4, LocationIsSeen
<1>9. PacketOK /\ reader' = Receive(reader, u)
  BY <1>6, <1>7, DeliverOne
<1>10. pointer_' \in 0..MaxPointers /\ views' \subseteq View
  BY <1>6 DEF ConverterInv, ConverterTypeOK
<1> HIDE DEF d, t, u
<1> QED
  BY <1>1, <1>6, <1>7, <1>8, <1>9, <1>10, StoreKeepsInv DEF d

LEMMA HoverConverts ==
  ASSUME ConverterInv, NEW e \in RawData, Expected(e), Hover(e), UNCHANGED views
  PROVE  ConverterInv' /\ PacketOK
<1> DEFINE d == e.device
           s == StateFor(e)
           t == Located(e, s)
           u == UpdateDelta(e, s)
           q == AfterSynthesis(AfterAdd(e), e, s)
<1>1. e \in PointerData /\ e.change = "hover" /\ d \in Device
  BY RawTypes DEF Hover, PointerData
<1>2. /\ StateOK(d, s) /\ Seen(AfterAdd(e), d, s) /\ Elsewhere(reader, AfterAdd(e), d)
      /\ ~Known(d) => EventOK(reader, As(e, "add"), TRUE) /\ s.physical = e.physical
      /\ ~s.is_down
  <2>1. Known(d) => ~s.is_down
    BY <1>1 DEF Expected, Asserted, StateFor
  <2> QED
    BY <1>1, <2>1, StateForIsSeen
<1>3. /\ states_' = Store(states_, d, t) /\ pointer_' = pointer_
      /\ Deliver(MissingAdd(e) \o Synthesized(e, s))
  BY DEF Hover, Emit
<1> HIDE DEF s
<1>4. /\ LocationNeedsUpdate(e, s) => EventOK(AfterAdd(e), u, TRUE)
      /\ StateOK(d, t) /\ Seen(q, d, t) /\ Elsewhere(AfterAdd(e), q, d)
  BY <1>1, <1>2, SynthesizedIsSeen
<1>5. PacketOK /\ reader' = q
  <2>1. CASE Known(d) /\ LocationNeedsUpdate(e, s)
    <3>1. MissingAdd(e) \o Synthesized(e, s) = <<u>>
      BY <2>1 DEF MissingAdd, Synthesized
    <3>2. AfterAdd(e) = reader /\ q = Receive(reader, u)
      BY <2>1 DEF AfterAdd, AfterSynthesis
    <3> QED
      BY <1>3, <1>4, <2>1, <3>1, <3>2, DeliverOne
  <2>2. CASE Known(d) /\ ~LocationNeedsUpdate(e, s)
    <3>1. MissingAdd(e) \o Synthesized(e, s) = <<>>
      BY <2>2 DEF MissingAdd, Synthesized
    <3>2. q = reader
      BY <2>2 DEF AfterAdd, AfterSynthesis
    <3> QED
      BY <1>3, <3>1, <3>2, DeliverNone
  <2>3. CASE ~Known(d)
    <3>1. ~LocationNeedsUpdate(e, s)
      BY <1>2, <2>3 DEF LocationNeedsUpdate
    <3>2. MissingAdd(e) \o Synthesized(e, s) = <<As(e, "add")>>
      BY <2>3, <3>1 DEF MissingAdd, Synthesized
    <3>3. q = Receive(reader, As(e, "add"))
      BY <2>3, <3>1 DEF AfterAdd, AfterSynthesis
    <3> QED
      BY <1>2, <1>3, <2>3, <3>2, <3>3, DeliverOne
  <2> QED
    BY <2>1, <2>2, <2>3
<1>6. Elsewhere(reader, reader', d)
  BY <1>2, <1>4, <1>5, ElsewhereTwice
<1>7. pointer_' \in 0..MaxPointers /\ views' \subseteq View
  BY <1>3 DEF ConverterInv, ConverterTypeOK
<1> HIDE DEF d, t, q, u
<1> QED
  BY <1>1, <1>3, <1>4, <1>5, <1>6, <1>7, StoreKeepsInv DEF d

LEMMA DownConverts ==
  ASSUME ConverterInv, NEW e \in RawData, Expected(e), Down(e), UNCHANGED views
  PROVE  ConverterInv' /\ PacketOK
<1> DEFINE d == e.device
           s == StateFor(e)
           h == As(e, "hover")
           l == Located(h, s)
           t == [l EXCEPT !.pointer_identifier = pointer_', !.is_down = TRUE]
           b == Identified(e, t)
           p == AfterAdd(e)
           q == AfterSynthesis(p, h, s)
<1>1. /\ e \in PointerData /\ e.delta = 0 /\ e.change = "down" /\ d \in Device
      /\ d \notin Trackpad
  BY RawTypes DEF Down, PointerData
<1>2. pointer_' \in 0..MaxPointers /\ pointer_' # 0 /\ pointer_' = pointer_ + 1
      /\ views' \subseteq View
  BY <1>1, ConverterAssumption DEF ConverterInv, ConverterTypeOK, Down, Expected
<1>3. /\ StateOK(d, s) /\ Seen(p, d, s) /\ Elsewhere(reader, p, d)
      /\ ~Known(d) => EventOK(reader, As(e, "add"), FALSE) /\ s.physical = e.physical
      /\ ~s.is_down /\ ~s.is_pan_zoom_active
  <2>1. Known(d) => ~s.is_down
    BY <1>1 DEF Expected, Asserted, StateFor
  <2>2. /\ StateOK(d, s) /\ Seen(p, d, s) /\ Elsewhere(reader, p, d)
        /\ ~Known(d) => /\ EventOK(reader, As(e, "add"), FALSE)
                        /\ s.physical = e.physical /\ ~s.is_down
    BY <1>1, StateForIsSeen
  <2> HIDE DEF s
  <2>3. ~s.is_pan_zoom_active
    BY <1>1, <2>2 DEF StateOK
  <2> QED
    BY <2>1, <2>2, <2>3
<1>4. s \in PointerState
  BY <1>3 DEF StateOK
<1>5. /\ h \in PointerData /\ h.change = "hover" /\ h.device = d
      /\ h.physical = e.physical /\ h.pan = e.pan
  BY <1>1, AsFields DEF Change
<1>6. Located(e, s) = l
  BY <1>5 DEF Located, LocationNeedsUpdate, UpdateState
<1>7. /\ states_' = Store(states_, d, t)
      /\ Deliver(MissingAdd(e) \o Append(Synthesized(h, s), b))
  BY <1>6 DEF Down, Emit
<1> HIDE DEF h, s, p
<1>8. /\ LocationNeedsUpdate(h, s) => EventOK(p, UpdateDelta(h, s), FALSE)
      /\ StateOK(d, l) /\ Seen(q, d, l) /\ Elsewhere(p, q, d)
  BY <1>3, <1>5, SynthesizedIsSeen
<1>9. /\ l \in PointerState /\ l.physical = e.physical
      /\ ~l.is_down /\ ~l.is_pan_zoom_active
  BY <1>3, <1>4, <1>5, LocatedFields
<1> HIDE DEF l, q
<1>10. t \in PointerState /\ t.pointer_identifier = pointer_'
  BY <1>2, <1>9 DEF PointerState
<1> HIDE DEF t
<1>11. /\ b \in PointerData /\ b.change = "down" /\ b.device = d
       /\ b.physical = e.physical /\ b.delta = 0 /\ b.pointer_identifier = pointer_'
  BY <1>1, <1>10, IdentifiedFields
<1> HIDE DEF b
<1>12. t = [l EXCEPT !.pointer_identifier = b.pointer_identifier, !.is_down = TRUE]
  BY <1>11 DEF t
<1>13. /\ EventOK(q, b, TRUE)
       /\ StateOK(d, t) /\ Seen(Receive(q, b), d, t) /\ Elsewhere(q, Receive(q, b), d)
  <2>1. /\ b.pointer_identifier # 0 /\ b.device \notin Trackpad
        /\ StateOK(b.device, l) /\ Seen(q, b.device, l) /\ b.physical = l.physical
    BY <1>1, <1>2, <1>8, <1>9, <1>11
  <2> DEFINE u == [l EXCEPT !.pointer_identifier = b.pointer_identifier, !.is_down = TRUE]
  <2>2. /\ EventOK(q, b, TRUE)
        /\ StateOK(b.device, u) /\ Seen(Receive(q, b), b.device, u)
        /\ Elsewhere(q, Receive(q, b), b.device)
    BY <1>9, <1>11, <2>1, StartContact
  <2>3. u = t
    BY <1>12
  <2> HIDE DEF u
  <2> QED
    BY <1>11, <2>2, <2>3
<1>14. PacketOK /\ reader' = Receive(q, b)
  <2>1. Known(d) => p = reader
    BY DEF p, AfterAdd
  <2>2. ~Known(d) => ~LocationNeedsUpdate(h, s)
    BY <1>3, <1>5 DEF LocationNeedsUpdate
  <2> QED
    BY <1>1, <1>3, <1>7, <1>8, <1>13, <2>1, <2>2, DeliverAfterAdd DEF q, p
<1>15. Elsewhere(reader, reader', d)
  BY <1>3, <1>8, <1>13, <1>14, ElsewhereTwice
<1> HIDE DEF d
<1> QED
  BY <1>1, <1>2, <1>7, <1>13, <1>14, <1>15, StoreKeepsInv DEF d

LEMMA PanZoomStartConverts ==
  ASSUME ConverterInv, NEW e \in RawData, Expected(e), PanZoomStart(e), UNCHANGED views
  PROVE  ConverterInv' /\ PacketOK
<1> DEFINE d == e.device
           s == StateFor(e)
           h == As(e, "hover")
           l == Located(h, s)
           t == [l EXCEPT !.pointer_identifier = pointer_', !.is_pan_zoom_active = TRUE,
                          !.pan = 0]
           b == Identified(e, t)
           p == AfterAdd(e)
           q == AfterSynthesis(p, h, s)
<1>1. /\ e \in PointerData /\ e.delta = 0 /\ e.change = "pan_zoom_start" /\ d \in Device
      /\ d \in Trackpad
  BY RawTypes DEF PanZoomStart, PointerData
<1>2. pointer_' \in 0..MaxPointers /\ pointer_' # 0 /\ pointer_' = pointer_ + 1
      /\ views' \subseteq View
  BY <1>1, ConverterAssumption DEF ConverterInv, ConverterTypeOK, PanZoomStart, Expected
<1>3. /\ StateOK(d, s) /\ Seen(p, d, s) /\ Elsewhere(reader, p, d)
      /\ ~Known(d) => EventOK(reader, As(e, "add"), FALSE) /\ s.physical = e.physical
      /\ ~s.is_down /\ ~s.is_pan_zoom_active
  <2>1. Known(d) => ~s.is_down /\ ~s.is_pan_zoom_active
    BY <1>1 DEF Expected, Asserted, StateFor
  <2> QED
    BY <1>1, <2>1, StateForIsSeen
<1>4. s \in PointerState
  BY <1>3 DEF StateOK
<1>5. /\ h \in PointerData /\ h.change = "hover" /\ h.device = d
      /\ h.physical = e.physical /\ h.pan = e.pan
  BY <1>1, AsFields DEF Change
<1>6. Located(e, s) = l
  BY <1>5 DEF Located, LocationNeedsUpdate, UpdateState
<1>7. /\ states_' = Store(states_, d, t)
      /\ Deliver(MissingAdd(e) \o Append(Synthesized(h, s), b))
  BY <1>6 DEF PanZoomStart, Emit
<1> HIDE DEF h, s, p
<1>8. /\ LocationNeedsUpdate(h, s) => EventOK(p, UpdateDelta(h, s), FALSE)
      /\ StateOK(d, l) /\ Seen(q, d, l) /\ Elsewhere(p, q, d)
  BY <1>3, <1>5, SynthesizedIsSeen
<1>9. /\ l \in PointerState /\ l.physical = e.physical
      /\ ~l.is_down /\ ~l.is_pan_zoom_active
  BY <1>3, <1>4, <1>5, LocatedFields
<1> HIDE DEF l, q
<1>10. t \in PointerState /\ t.pointer_identifier = pointer_'
  BY <1>2, <1>9, ConverterAssumption DEF PointerState
<1> HIDE DEF t
<1>11. /\ b \in PointerData /\ b.change = "pan_zoom_start" /\ b.device = d
       /\ b.physical = e.physical /\ b.delta = 0 /\ b.pointer_identifier = pointer_'
  BY <1>1, <1>10, IdentifiedFields
<1> HIDE DEF b
<1>12. t = [l EXCEPT !.pointer_identifier = b.pointer_identifier,
                     !.is_pan_zoom_active = TRUE, !.pan = 0]
  BY <1>11 DEF t
<1>13. /\ EventOK(q, b, TRUE)
       /\ StateOK(d, t) /\ Seen(Receive(q, b), d, t) /\ Elsewhere(q, Receive(q, b), d)
  <2>1. /\ b.pointer_identifier # 0 /\ b.device \in Trackpad
        /\ StateOK(b.device, l) /\ Seen(q, b.device, l) /\ b.physical = l.physical
    BY <1>1, <1>2, <1>8, <1>9, <1>11
  <2> DEFINE u == [l EXCEPT !.pointer_identifier = b.pointer_identifier,
                            !.is_pan_zoom_active = TRUE, !.pan = 0]
  <2>2. /\ EventOK(q, b, TRUE)
        /\ StateOK(b.device, u) /\ Seen(Receive(q, b), b.device, u)
        /\ Elsewhere(q, Receive(q, b), b.device)
    BY <1>9, <1>11, <2>1, StartGesture
  <2>3. u = t
    BY <1>12
  <2> HIDE DEF u
  <2> QED
    BY <1>11, <2>2, <2>3
<1>14. PacketOK /\ reader' = Receive(q, b)
  <2>1. Known(d) => p = reader
    BY DEF p, AfterAdd
  <2>2. ~Known(d) => ~LocationNeedsUpdate(h, s)
    BY <1>3, <1>5 DEF LocationNeedsUpdate
  <2> QED
    BY <1>1, <1>3, <1>7, <1>8, <1>13, <2>1, <2>2, DeliverAfterAdd DEF q, p
<1>15. Elsewhere(reader, reader', d)
  BY <1>3, <1>8, <1>13, <1>14, ElsewhereTwice
<1> HIDE DEF d
<1> QED
  BY <1>1, <1>2, <1>7, <1>13, <1>14, <1>15, StoreKeepsInv DEF d

LEMMA SignalConverts ==
  ASSUME ConverterInv, NEW e \in RawData, Expected(e), Signal(e), UNCHANGED views
  PROVE  ConverterInv' /\ PacketOK
<1> DEFINE d == e.device
           s == StateFor(e)
           h == As(e, IF s.is_down THEN "move" ELSE "hover")
           l == Located(h, s)
           p == AfterAdd(e)
           q == AfterSynthesis(p, h, s)
<1>1. e \in PointerData /\ e.delta = 0 /\ e.change = "signal" /\ d \in Device
  BY RawTypes DEF Signal, PointerData
<1>2. /\ StateOK(d, s) /\ Seen(p, d, s) /\ Elsewhere(reader, p, d)
      /\ ~Known(d) => EventOK(reader, As(e, "add"), FALSE) /\ s.physical = e.physical
  BY <1>1, StateForIsSeen
<1>3. s \in PointerState
  BY <1>2 DEF StateOK
<1>4. /\ h \in PointerData /\ h.device = d
      /\ h.change = (IF s.is_down THEN "move" ELSE "hover")
      /\ h.physical = e.physical /\ h.pan = e.pan
  BY <1>1, AsFields DEF Change
<1>5. Located(e, s) = l
  BY <1>4 DEF Located, LocationNeedsUpdate, UpdateState
<1>6. /\ states_' = Store(states_, d, l) /\ pointer_' = pointer_
      /\ Deliver(MissingAdd(e) \o Append(Synthesized(h, s), e))
  BY <1>5 DEF Signal, Emit
<1> HIDE DEF h, s, p
<1>7. /\ LocationNeedsUpdate(h, s) => EventOK(p, UpdateDelta(h, s), FALSE)
      /\ StateOK(d, l) /\ Seen(q, d, l) /\ Elsewhere(p, q, d)
  BY <1>2, <1>4, SynthesizedIsSeen
<1>8. l.physical = e.physical
  BY <1>3, <1>4, LocatedFields
<1> HIDE DEF l, q
<1>9. EventOK(q, e, TRUE) /\ Receive(q, e) = q
  BY <1>1, <1>7, <1>8, SignalIsOK, SignalIsNotSeen
<1>10. PacketOK /\ reader' = q
  <2>1. Known(d) => p = reader
    BY DEF p, AfterAdd
  <2>2. ~Known(d) => ~LocationNeedsUpdate(h, s)
    BY <1>2, <1>4 DEF LocationNeedsUpdate
  <2> QED
    BY <1>1, <1>2, <1>6, <1>7, <1>9, <2>1, <2>2, DeliverAfterAdd DEF q, p
<1>11. Elsewhere(reader, reader', d)
  BY <1>2, <1>7, <1>10, ElsewhereTwice
<1>12. pointer_' \in 0..MaxPointers /\ views' \subseteq View
  BY <1>6 DEF ConverterInv, ConverterTypeOK
<1> HIDE DEF d
<1> QED
  BY <1>1, <1>6, <1>7, <1>10, <1>11, <1>12, StoreKeepsInv DEF d

LEMMA AddConverts ==
  ASSUME ConverterInv, NEW e \in RawData, Expected(e), Add(e), UNCHANGED views
  PROVE  ConverterInv' /\ PacketOK
<1> DEFINE d == e.device
           s == states_[d]
           view == IF s.view_id \in views THEN s.view_id ELSE e.view_id
           old == [e EXCEPT !.physical = s.physical, !.pan = s.pan,
                            !.view_id = IF s.view_id \in views THEN s.view_id ELSE @]
           c == Identified(As(old, "cancel"), s)
           x == As(old, "remove")
           t == EnsurePointerState(e)
           cancel == IF s.view_id \in views /\ s.is_down THEN <<c>> ELSE <<>>
           remove == IF Known(d) THEN Append(cancel, x) ELSE <<>>
<1>1. e \in PointerData /\ e.delta = 0 /\ e.change = "add" /\ d \in Device
  BY RawTypes DEF Add, PointerData
<1>2. states_' = Store(states_, d, t) /\ pointer_' = pointer_ /\ Deliver(Append(remove, e))
  BY DEF Add, Emit
<1>3. StateOK(d, t)
  <2>1. t \in PointerState /\ ~t.is_down /\ ~t.is_pan_zoom_active
    BY <1>1, ConverterAssumption DEF EnsurePointerState, PointerState, PointerData
  <2> QED
    BY <2>1 DEF StateOK
<1>4. pointer_' \in 0..MaxPointers /\ views' \subseteq View
  BY <1>2 DEF ConverterInv, ConverterTypeOK
<1> HIDE DEF t
<1>5. ASSUME NEW q, d \notin DOMAIN q, Elsewhere(reader, q, d),
             PacketOK, reader' = Receive(q, e)
      PROVE  ConverterInv' /\ PacketOK
  <2>1. Seen(Receive(q, e), d, t) /\ Elsewhere(q, Receive(q, e), d)
    BY <1>1, AddIsSeen DEF t
  <2>2. Elsewhere(reader, reader', d)
    BY <1>5, <2>1, ElsewhereTwice
  <2> HIDE DEF d
  <2> QED
    BY <1>1, <1>2, <1>3, <1>4, <1>5, <2>1, <2>2, StoreKeepsInv DEF d
<1>6. CASE ~Known(d)
  <2>1. Append(remove, e) = <<e>>
    BY <1>6
  <2>2. d \notin DOMAIN reader
    BY <1>6 DEF ConverterInv, Known
  <2>3. EventOK(reader, e, TRUE)
    BY <1>1, <2>2, AddIsOK
  <2>4. PacketOK /\ reader' = Receive(reader, e)
    BY <1>2, <2>1, <2>3, DeliverOne
  <2>5. Elsewhere(reader, reader, d)
    BY DEF Elsewhere
  <2> QED
    BY <1>5, <2>2, <2>4, <2>5
<1>7. CASE Known(d)
  <2>1. StateOK(d, s) /\ Seen(reader, d, s) /\ ~s.is_pan_zoom_active
    BY <1>1, <1>7, KnownIsSeen DEF Expected
  <2>2. s \in PointerState
    BY <2>1 DEF StateOK
  <2>3. /\ old \in PointerData /\ old.device = d /\ old.physical = s.physical
        /\ old.delta = 0
    <3>1. s.physical \in Place /\ s.pan \in Pan /\ view \in View
      BY <1>1, <2>2 DEF PointerState, PointerData
    <3>2. old = [e EXCEPT !.physical = s.physical, !.pan = s.pan, !.view_id = view]
      OBVIOUS
    <3> HIDE DEF s, old, view
    <3> QED
      BY <1>1, <3>1, <3>2 DEF PointerData
  <2> HIDE DEF old, s
  <2>4. /\ x \in PointerData /\ x.change = "remove" /\ x.device = d
        /\ x.physical = s.physical /\ x.delta = 0
    BY <2>3, AsFields DEF Change
  <2> HIDE DEF x
  <2>5. CASE s.view_id \in views /\ s.is_down
    <3> DEFINE a == As(old, "cancel")
               q == Receive(reader, c)
               u == [s EXCEPT !.is_down = FALSE]
    <3>1. /\ a \in PointerData /\ a.change = "cancel" /\ a.device = d
          /\ a.physical = s.physical /\ a.delta = 0
      BY <2>3, AsFields DEF Change
    <3> HIDE DEF a
    <3>2. /\ c \in PointerData /\ c.change = "cancel" /\ c.device = d
          /\ c.physical = s.physical /\ c.delta = 0
          /\ c.pointer_identifier = s.pointer_identifier
      BY <2>2, <3>1, IdentifiedFields DEF a
    <3>3. Deliver(<<c, x, e>>)
      <4>1. remove = <<c, x>>
        BY <1>7, <2>5, OneThenOne
      <4> HIDE DEF remove
      <4>2. Append(remove, e) = <<c, x, e>>
        BY <4>1, TwoThenOne
      <4> QED
        BY <1>2, <4>2
    <3> HIDE DEF c
    <3>4. EventOK(reader, c, FALSE) /\ Seen(q, d, u) /\ Elsewhere(reader, q, d)
      BY <2>1, <2>5, <3>2, EndContact
    <3>5. u.is_down = FALSE /\ u.is_pan_zoom_active = FALSE /\ u.physical = s.physical
      BY <2>1, <2>2 DEF PointerState
    <3> HIDE DEF q, u
    <3>6. /\ EventOK(q, x, FALSE)
          /\ d \notin DOMAIN Receive(q, x) /\ Elsewhere(q, Receive(q, x), d)
      BY <2>4, <3>4, <3>5, RemoveIsOK, RemoveIsSeen
    <3>7. EventOK(Receive(q, x), e, TRUE)
      BY <1>1, <3>6, AddIsOK
    <3>8. PacketOK /\ reader' = Receive(Receive(q, x), e)
      BY <3>3, <3>4, <3>6, <3>7, DeliverThree DEF q
    <3>9. Elsewhere(reader, Receive(q, x), d)
      BY <3>4, <3>6, ElsewhereTwice
    <3> QED
      BY <1>5, <3>6, <3>8, <3>9
  <2>6. CASE ~(s.view_id \in views /\ s.is_down)
    <3>1. Append(remove, e) = <<x, e>>
      <4>1. cancel = <<>>
        BY <2>6
      <4> HIDE DEF cancel
      <4>2. Append(<<>>, x) = <<x>>
        OBVIOUS
      <4>3. remove = <<x>>
        BY <1>7, <4>1, <4>2
      <4> HIDE DEF remove
      <4> QED
        BY <4>3, OneThenOne
    <3>2. /\ EventOK(reader, x, FALSE)
          /\ d \notin DOMAIN Receive(reader, x) /\ Elsewhere(reader, Receive(reader, x), d)
      BY <2>1, <2>4, <2>6, RemoveIsOK, RemoveIsSeen
    <3>3. EventOK(Receive(reader, x), e, TRUE)
      BY <1>1, <3>2, AddIsOK
    <3>4. PacketOK /\ reader' = Receive(Receive(reader, x), e)
      BY <1>2, <3>1, <3>2, <3>3, DeliverTwo
    <3> QED
      BY <1>5, <3>2, <3>4
  <2> QED
    BY <2>5, <2>6
<1> QED
  BY <1>6, <1>7

LEMMA RemoveConverts ==
  ASSUME ConverterInv, NEW e \in RawData, Expected(e), Remove(e), UNCHANGED views
  PROVE  ConverterInv' /\ PacketOK
<1> DEFINE d == e.device
           s == states_[d]
           c == Identified(As(e, "cancel"), s)
           h == As(e, "hover")
           cancel == IF s.is_down THEN <<c>> ELSE <<>>
<1>1. /\ e \in PointerData /\ e.delta = 0 /\ e.change = "remove" /\ d \in Device
      /\ s.view_id = e.view_id
  BY RawTypes DEF Remove, PointerData
<1>2. /\ states_' = Drop(states_, d) /\ pointer_' = pointer_
      /\ Deliver(Append(cancel \o Synthesized(h, s), e))
  BY DEF Remove
<1>3. StateOK(d, s) /\ Seen(reader, d, s) /\ ~s.is_pan_zoom_active
  BY <1>1, KnownIsSeen DEF Expected, Asserted
<1>4. s \in PointerState
  BY <1>3 DEF StateOK
<1>5. /\ h \in PointerData /\ h.change = "hover" /\ h.device = d
      /\ h.physical = e.physical /\ h.pan = e.pan
  BY <1>1, AsFields DEF Change
<1>6. pointer_' \in 0..MaxPointers /\ views' \subseteq View
  BY <1>2 DEF ConverterInv, ConverterTypeOK
<1> HIDE DEF s, h
<1>7. ASSUME NEW q, NEW l, Seen(q, d, l), Elsewhere(reader, q, d), l.physical = e.physical,
             ~l.is_down, ~l.is_pan_zoom_active
      PROVE  /\ EventOK(q, e, TRUE)
             /\ PacketOK /\ reader' = Receive(q, e) => ConverterInv'
  <2>1. EventOK(q, e, TRUE)
    BY <1>1, <1>7, RemoveIsOK
  <2>2. d \notin DOMAIN Receive(q, e) /\ Elsewhere(q, Receive(q, e), d)
    BY <1>1, RemoveIsSeen
  <2>3. Elsewhere(reader, Receive(q, e), d)
    BY <1>7, <2>2, ElsewhereTwice
  <2> HIDE DEF d
  <2>4. ASSUME PacketOK, reader' = Receive(q, e)
        PROVE  ConverterInv'
    BY <1>1, <1>2, <1>6, <2>2, <2>3, <2>4, DropKeepsInv DEF d
  <2> QED
    BY <2>1, <2>4
<1>8. CASE ~s.is_down
  <2> DEFINE q == AfterSynthesis(reader, h, s)
             l == Located(h, s)
  <2>1. /\ LocationNeedsUpdate(h, s) => EventOK(reader, UpdateDelta(h, s), FALSE)
        /\ Seen(q, d, l) /\ Elsewhere(reader, q, d)
    BY <1>3, <1>5, <1>8, SynthesizedIsSeen
  <2>2. l.physical = e.physical /\ ~l.is_down /\ ~l.is_pan_zoom_active
    BY <1>3, <1>4, <1>5, <1>8, LocatedFields
  <2>3. cancel \o Synthesized(h, s) = Synthesized(h, s)
    BY <1>8 DEF Synthesized
  <2> HIDE DEF q, l
  <2>4. /\ EventOK(q, e, TRUE)
        /\ PacketOK /\ reader' = Receive(q, e) => ConverterInv'
    BY <1>7, <2>1, <2>2
  <2>5. PacketOK /\ reader' = Receive(q, e)
    BY <1>2, <2>1, <2>3, <2>4, DeliverSynthesized DEF q
  <2> QED
    BY <2>4, <2>5
<1>9. CASE s.is_down
  <2> DEFINE a == As(e, "cancel")
             r == Receive(reader, c)
             v == [s EXCEPT !.is_down = FALSE]
             u == UpdateDelta(h, s)
             q == AfterSynthesis(r, h, v)
             l == Located(h, v)
  <2>1. a \in PointerData /\ a.change = "cancel" /\ a.device = d /\ a.delta = 0
    BY <1>1, AsFields DEF Change
  <2> HIDE DEF a
  <2>2. /\ c \in PointerData /\ c.change = "cancel" /\ c.device = d /\ c.delta = 0
        /\ c.pointer_identifier = s.pointer_identifier
    BY <1>4, <2>1, IdentifiedFields DEF a
  <2> HIDE DEF c
  <2>3. EventOK(reader, c, FALSE) /\ StateOK(d, v) /\ Seen(r, d, v) /\ Elsewhere(reader, r, d)
    BY <1>3, <1>9, <2>2, EndContact
  <2>4. /\ v \in PointerState /\ v.is_down = FALSE /\ v.is_pan_zoom_active = FALSE
        /\ v.physical = s.physical /\ v.pan = s.pan
    BY <1>3, <1>4 DEF PointerState
  <2>5. /\ LocationNeedsUpdate(h, v) <=> LocationNeedsUpdate(h, s)
        /\ UpdateDelta(h, v) = u
    BY <2>4 DEF LocationNeedsUpdate, UpdateDelta
  <2> HIDE DEF r, v
  <2>6. /\ LocationNeedsUpdate(h, v) => EventOK(r, UpdateDelta(h, v), FALSE)
        /\ Seen(q, d, l) /\ Elsewhere(r, q, d)
    BY <1>5, <2>3, <2>4, SynthesizedIsSeen
  <2>7. l.physical = e.physical /\ ~l.is_down /\ ~l.is_pan_zoom_active
    BY <1>5, <2>4, LocatedFields
  <2> HIDE DEF q, l, u
  <2>8. Elsewhere(reader, q, d)
    BY <2>3, <2>6, ElsewhereTwice
  <2>9. /\ EventOK(q, e, TRUE)
        /\ PacketOK /\ reader' = Receive(q, e) => ConverterInv'
    BY <1>7, <2>6, <2>7, <2>8
  <2>10. PacketOK /\ reader' = Receive(q, e)
    <3>1. CASE LocationNeedsUpdate(h, s)
      <4>1. cancel \o Synthesized(h, s) = <<c, u>>
        BY <1>9, <3>1, OneThenOne DEF Synthesized, u
      <4>2. Deliver(<<c, u, e>>)
        BY <1>2, <4>1, TwoThenOne
      <4>3. q = Receive(r, u)
        BY <2>5, <3>1 DEF q, AfterSynthesis
      <4>4. EventOK(r, u, FALSE) /\ r = Receive(reader, c)
        BY <2>5, <2>6, <3>1 DEF r
      <4> QED
        BY <2>3, <2>9, <4>2, <4>3, <4>4, DeliverThree
    <3>2. CASE ~LocationNeedsUpdate(h, s)
      <4>1. cancel \o Synthesized(h, s) = <<c>>
        BY <1>9, <3>2 DEF Synthesized
      <4>2. Append(cancel \o Synthesized(h, s), e) = <<c, e>>
        BY <4>1, OneThenOne
      <4>3. q = r
        BY <2>5, <3>2 DEF q, AfterSynthesis
      <4> QED
        BY <1>2, <2>3, <2>9, <4>2, <4>3, DeliverTwo DEF r
    <3> QED
      BY <3>1, <3>2
  <2> QED
    BY <2>9, <2>10
<1> QED
  BY <1>8, <1>9

-----------------------------------------------------------------------------
(* Every step.                                                             *)

LEMMA ConversionIsOK ==
  ASSUME ConverterInv, NEW e \in RawData, Expected(e), ConvertPointerData(e)
  PROVE  ConverterInv' /\ PacketOK
<1>1. UNCHANGED views
  BY DEF ConvertPointerData
<1>2. CASE IgnoreUnknownView(e)
  BY <1>1, <1>2, NothingConverts DEF IgnoreUnknownView
<1>3. CASE CancelUnknown(e)
  BY <1>1, <1>3, NothingConverts DEF CancelUnknown
<1>4. CASE RemoveElsewhere(e)
  BY <1>1, <1>4, NothingConverts DEF RemoveElsewhere
<1>5. CASE CancelKnown(e) \/ Up(e)
  BY <1>1, <1>5, ContactEndConverts
<1>6. CASE Add(e)
  BY <1>1, <1>6, AddConverts
<1>7. CASE Remove(e)
  BY <1>1, <1>7, RemoveConverts
<1>8. CASE Hover(e)
  BY <1>1, <1>8, HoverConverts
<1>9. CASE Down(e)
  BY <1>1, <1>9, DownConverts
<1>10. CASE Move(e) \/ PanZoomUpdate(e)
  BY <1>1, <1>10, MoveConverts
<1>11. CASE PanZoomStart(e)
  BY <1>1, <1>11, PanZoomStartConverts
<1>12. CASE PanZoomEnd(e)
  BY <1>1, <1>12, PanZoomEndConverts
<1>13. CASE Signal(e)
  BY <1>1, <1>13, SignalConverts
<1> QED
  BY <1>2, <1>3, <1>4, <1>5, <1>6, <1>7, <1>8, <1>9, <1>10, <1>11, <1>12, <1>13
     DEF ConvertPointerData

LEMMA ViewsAreOK ==
  ASSUME ConverterInv, NEW v \in View, AddView(v) \/ RemoveView(v)
  PROVE  ConverterInv' /\ PacketOK
<1>1. packet' = <<>> /\ UNCHANGED <<states_, pointer_, reader>>
  BY DEF AddView, RemoveView
<1>2. pointer_' \in 0..MaxPointers /\ views' \subseteq View
  BY <1>1 DEF ConverterInv, ConverterTypeOK, AddView, RemoveView
<1>3. PacketOK
  BY <1>1 DEF PacketOK
<1> QED
  BY <1>1, <1>2, <1>3, NothingKeepsInv

LEMMA RestartIsOK ==
  ASSUME ConverterInv, Restart
  PROVE  ConverterInv' /\ PacketOK
<1>1. /\ packet' = <<>> /\ pointer_' = 0 /\ views' = views
      /\ states_' = [d \in {} |-> 0] /\ reader' = [d \in {} |-> 0]
  BY DEF Restart
<1>2. PacketOK
  BY <1>1 DEF PacketOK
<1>3. DOMAIN states_' = {} /\ DOMAIN reader' = {}
  BY <1>1
<1>4. pointer_' \in 0..MaxPointers /\ views' \subseteq View
  BY <1>1, ConverterAssumption DEF ConverterInv, ConverterTypeOK
<1> QED
  BY <1>2, <1>3, <1>4 DEF ConverterInv, ConverterTypeOK, PacketOK

LEMMA ConverterStep ==
  ASSUME ConverterInv, ConverterNext
  PROVE  ConverterInv' /\ PacketOK
BY ConversionIsOK, ViewsAreOK, RestartIsOK DEF ConverterNext

LEMMA ConverterStarts ==
  ASSUME ConverterInit
  PROVE  ConverterInv
<1>1. /\ DOMAIN states_ = {} /\ DOMAIN reader = {} /\ packet = <<>>
      /\ pointer_ \in 0..MaxPointers /\ views \subseteq View
  BY ConverterAssumption DEF ConverterInit
<1> QED
  BY <1>1 DEF ConverterInv, ConverterTypeOK

LEMMA ConverterKeeps ==
  ASSUME ConverterInv, [ConverterNext]_converterVars
  PROVE  ConverterInv'
<1>1. CASE ConverterNext
  BY <1>1, ConverterStep
<1>2. CASE UNCHANGED converterVars
  BY <1>2 DEF converterVars, ConverterInv, ConverterTypeOK, StateOK, Seen, Known_,
              PointerState, PointerData
<1> QED
  BY <1>1, <1>2

LEMMA ConverterInvIsKept == ConverterSpec => []ConverterInv
BY ConverterStarts, ConverterKeeps, PTL DEF ConverterSpec

(* Whatever an embedding that respects the converter's assertions sends    *)
(* and leaves out, with views that come and go and restarts, the state     *)
(* kept per device and what the reader of the stream has been told are the *)
(* same after every packet.                                                *)
(* [ConvertPointerData of pointer_data_packet_converter.cc]                *)
THEOREM ReaderKnowsTheDevices == ConverterSpec => [](ConverterTypeOK /\ ReaderAgrees)
<1>1. ConverterInv => ConverterTypeOK /\ ReaderAgrees
  BY DEF ConverterInv, ReaderAgrees, Seen
<1> QED
  BY <1>1, ConverterInvIsKept, PTL

(* And every event of every packet is one that the framework accepts after *)
(* the events before it: its assertions on adds, contacts, gestures and    *)
(* removes hold, and no location jumps.                                    *)
(* [gestures/binding.dart:395-424, mouse_tracker.dart:218-220]             *)
THEOREM StreamIsClean == ConverterSpec => StreamIsLegal /\ LocationIsContinuous
<1> DEFINE Accepted == \A i \in DOMAIN packet' : Legal(Before(i), packet'[i])
           Continuous ==
             \A i \in DOMAIN packet' :
               LET e == packet'[i]
                   r == Before(i)
               IN e.change # "add" /\ ~(e.change = "cancel" /\ Len(packet') > i)
                    => e.physical = r[e.device].physical + e.delta
<1>1. ConverterInv /\ [ConverterNext]_converterVars
        => [Accepted]_converterVars /\ [Continuous]_converterVars
  BY ConverterStep DEF PacketOK
<1>2. ConverterSpec => [][Accepted]_converterVars /\ [][Continuous]_converterVars
  BY <1>1, ConverterInvIsKept, PTL DEF ConverterSpec
<1> QED
  BY <1>2 DEF StreamIsLegal, LocationIsContinuous

-------------------------------------------------------------------------------

(***************************************************************************)
(* What the events under way will do.  As a window sees it, a device is    *)
(* unknown to the converter ("none"), up, down, or in a gesture ("pan").   *)
(* A trace L gives for each number of packets of the inbox, taken in       *)
(* order, how each window sees each device after that many of them.        *)
(***************************************************************************)
Seeing == {"none", "up", "down", "pan"}

Follows(l, change, m) ==
  \/ change = "add" /\ l = "none" /\ m = "up"
  \/ change = "remove" /\ l \in {"up", "down"} /\ m = "none"
  \/ change = "hover" /\ l = "up" /\ m = "up"
  \/ change = "down" /\ l = "up" /\ m = "down"
  \/ change = "move" /\ l = "down" /\ m = "down"
  \/ change = "up" /\ l = "down" /\ m = "up"
  \/ change = "signal" /\ l \in {"up", "down"} /\ m = l
  \/ change = "pan_zoom_start" /\ l = "up" /\ m = "pan"
  \/ change = "pan_zoom_update" /\ l = "pan" /\ m = "pan"
  \/ change = "pan_zoom_end" /\ l = "pan" /\ m = "up"

(* The state s of the converter is what the window sees as l.              *)
SeenAs(s, l) ==
  /\ l # "none"
  /\ s.is_down <=> l = "down"
  /\ s.is_pan_zoom_active <=> l = "pan"

Of(e, d, v) == e.device = d /\ e.view_id = v

Adds(e, d, v) == e.change = "add" /\ Of(e, d, v)

AddsElsewhere(e, d, v) == e.change = "add" /\ e.device = d /\ e.view_id # v

(* After n packets of q, taken with the states st, device d is in view v.  *)
Current(st, q, n, d, v) ==
  \/ /\ d \in DOMAIN st /\ st[d].view_id = v
     /\ \A k \in 1..n : ~AddsElsewhere(q[k], d, v)
  \/ \E k \in 1..n : /\ Adds(q[k], d, v)
                     /\ \A j \in (k + 1)..n : ~AddsElsewhere(q[j], d, v)

(* After n packets of q, device d has come to view w later than to v, or   *)
(* is at any rate not in v.                                                *)
Later(st, q, n, d, v, w) ==
  \/ /\ d \in DOMAIN st /\ st[d].view_id # v
     /\ \A k \in 1..n : ~Adds(q[k], d, v)
  \/ \E k \in 1..n : /\ Adds(q[k], d, w)
                     /\ \A j \in (k + 1)..n : ~Adds(q[j], d, v)

(* Of the windows W: each event is one that the window may send as it sees *)
(* its device;                                                             *)
Fits(W, L, q) ==
  \A i \in 1..Len(q) : \A d \in Device : \A v \in W :
    /\ Of(q[i], d, v) => Follows(L[i - 1][d][v], q[i].change, L[i][d][v])
    /\ ~Of(q[i], d, v) => L[i][d][v] = L[i - 1][d][v]

(* the trace starts from the states of the converter;                      *)
Begins(st, W, L) ==
  \A d \in Device : \A v \in W :
    /\ d \in DOMAIN st /\ st[d].view_id = v => SeenAs(st[d], L[0][d][v])
    /\ L[0][d][v] # "none" => d \in DOMAIN st

(* only the view that a device is in sends events of it, but for adds and  *)
(* removes;                                                                *)
Sent(st, W, q) ==
  \A i \in 1..Len(q) :
    q[i].view_id \in W /\ q[i].change \notin {"add", "remove"}
      => Current(st, q, i - 1, q[i].device, q[i].view_id)

(* what a remove leaves to other windows, they were given later;           *)
Removed(st, W, L, q) ==
  \A i \in 1..Len(q) : \A w \in W :
    q[i].change = "remove" /\ q[i].view_id \in W \ {w}
      /\ L[i - 1][q[i].device][w] # "none"
      => Later(st, q, i - 1, q[i].device, q[i].view_id, w)

(* and a device comes to a window by an add.                               *)
ComesByAdd(W, L, q) ==
  \A d \in Device : \A v \in W : \A j \in 0..Len(q) : \A i \in 0..j :
    L[i][d][v] = "none" /\ L[j][d][v] # "none" => \E k \in (i + 1)..j : Adds(q[k], d, v)

InboxInv(st, W, L, q) ==
  /\ L \in [0..Len(q) -> [Device -> [View -> Seeing]]]
  /\ Fits(W, L, q)
  /\ Begins(st, W, L)
  /\ Sent(st, W, q)
  /\ Removed(st, W, L, q)
  /\ ComesByAdd(W, L, q)

-----------------------------------------------------------------------------
LEMMA RawFields ==
  ASSUME NEW e \in RawData
  PROVE  e.device \in Device /\ e.view_id \in View /\ e.change \in Change
BY RawTypes DEF PointerData

LEMMA AppendFacts ==
  ASSUME NEW q \in Seq(RawData), NEW e \in RawData
  PROVE  /\ Append(q, e) \in Seq(RawData)
         /\ Len(q) \in Nat /\ Len(Append(q, e)) = Len(q) + 1
         /\ \A i \in 1..Len(q) : Append(q, e)[i] = q[i]
         /\ Append(q, e)[Len(q) + 1] = e
BY AppendProperties

(* A packet that is appended changes nothing before it,                    *)
LEMMA PrefixKept ==
  ASSUME NEW st, NEW q, NEW p, NEW n \in Nat, NEW d, NEW v, NEW w,
         \A i \in 1..n : p[i] = q[i]
  PROVE  /\ Current(st, p, n, d, v) <=> Current(st, q, n, d, v)
         /\ Later(st, p, n, d, v, w) <=> Later(st, q, n, d, v, w)
<1>1. \A k \in 1..n : \A j \in (k + 1)..n : j \in 1..n
  OBVIOUS
<1>2. \A k \in 1..n : /\ Adds(p[k], d, v) <=> Adds(q[k], d, v)
                      /\ Adds(p[k], d, w) <=> Adds(q[k], d, w)
                      /\ AddsElsewhere(p[k], d, v) <=> AddsElsewhere(q[k], d, v)
  OBVIOUS
<1>3. Current(st, p, n, d, v) <=> Current(st, q, n, d, v)
  BY <1>1, <1>2 DEF Current
<1>4. Later(st, p, n, d, v, w) <=> Later(st, q, n, d, v, w)
  BY <1>1, <1>2 DEF Later
<1> QED
  BY <1>3, <1>4

(* and tells only an add from its other places.                            *)
LEMMA OneMore ==
  ASSUME NEW st, NEW p, NEW n \in Nat, NEW d, NEW v, NEW w
  PROVE  /\ Adds(p[n + 1], d, v) => Current(st, p, n + 1, d, v)
         /\ Current(st, p, n, d, v) /\ ~AddsElsewhere(p[n + 1], d, v)
              => Current(st, p, n + 1, d, v)
         /\ Later(st, p, n, d, v, w) /\ ~Adds(p[n + 1], d, v)
              => Later(st, p, n + 1, d, v, w)
<1> DEFINE e == p[n + 1]
<1>1. n + 1 \in 1..(n + 1) /\ (n + 1 + 1)..(n + 1) = {}
  OBVIOUS
<1>2. 1..(n + 1) = 1..n \cup {n + 1}
  OBVIOUS
<1>3. \A k \in 1..n : (k + 1)..(n + 1) = (k + 1)..n \cup {n + 1}
  OBVIOUS
<1>4. Adds(e, d, v) => Current(st, p, n + 1, d, v)
  BY <1>1 DEF Current
<1>5. Current(st, p, n, d, v) /\ ~AddsElsewhere(e, d, v) => Current(st, p, n + 1, d, v)
  BY <1>2, <1>3 DEF Current
<1>6. Later(st, p, n, d, v, w) /\ ~Adds(e, d, v) => Later(st, p, n + 1, d, v, w)
  BY <1>2, <1>3 DEF Later
<1> QED
  BY <1>4, <1>5, <1>6

LEMMA CurrentIsLater ==
  ASSUME NEW st, NEW q, NEW n, NEW d, NEW v, NEW w, v # w, Current(st, q, n, d, w)
  PROVE  Later(st, q, n, d, v, w)
BY DEF Current, Later, Adds, AddsElsewhere, Of

(* Window v now sees device d as m.                                        *)
Sees(f, d, v, m) == [f EXCEPT ![d][v] = m]

(* A packet that a window may send, which then sees its device as m.       *)
MaySend(st, W, L, q, e, m) ==
  /\ W \in SUBSET View /\ q \in Seq(RawData)
  /\ InboxInv(st, W, L, q)
  /\ e \in RawData /\ e.view_id \in W
  /\ m \in Seeing /\ Follows(L[Len(q)][e.device][e.view_id], e.change, m)
  /\ e.change \notin {"add", "remove"} => Current(st, q, Len(q), e.device, e.view_id)
  /\ e.change = "remove" =>
       \A w \in W \ {e.view_id} :
         L[Len(q)][e.device][w] # "none" => Later(st, q, Len(q), e.device, e.view_id, w)

LEMMA Extend ==
  ASSUME NEW st, NEW W, NEW L, NEW q, NEW e, NEW m, MaySend(st, W, L, q, e, m)
  PROVE  \E M : /\ InboxInv(st, W, M, Append(q, e))
                /\ M[Len(q) + 1] = Sees(L[Len(q)], e.device, e.view_id, m)
<1>0. /\ W \in SUBSET View /\ q \in Seq(RawData)
      /\ InboxInv(st, W, L, q)
      /\ e \in RawData /\ e.view_id \in W
      /\ m \in Seeing /\ Follows(L[Len(q)][e.device][e.view_id], e.change, m)
      /\ e.change \notin {"add", "remove"} => Current(st, q, Len(q), e.device, e.view_id)
      /\ e.change = "remove" =>
           \A w \in W \ {e.view_id} :
             L[Len(q)][e.device][w] # "none" => Later(st, q, Len(q), e.device, e.view_id, w)
  BY DEF MaySend
<1> DEFINE n == Len(q)
           p == Append(q, e)
           end == [L[n] EXCEPT ![e.device][e.view_id] = m]
           M == [i \in 0..(n + 1) |-> IF i <= n THEN L[i] ELSE end]
<1>1. /\ n \in Nat /\ Len(p) = n + 1 /\ p[n + 1] = e
      /\ \A i \in 1..n : p[i] = q[i]
  BY <1>0, AppendFacts
<1>2. e.device \in Device /\ e.view_id \in View
  BY <1>0, RawFields
<1>3. /\ L[n] \in [Device -> [View -> Seeing]]
      /\ \A i \in 0..n : L[i] \in [Device -> [View -> Seeing]]
  BY <1>0, <1>1 DEF InboxInv
<1>4. /\ end \in [Device -> [View -> Seeing]]
      /\ end[e.device][e.view_id] = m
      /\ \A d \in Device : \A v \in View :
           ~(d = e.device /\ v = e.view_id) => end[d][v] = L[n][d][v]
  BY <1>0, <1>2, <1>3
<1> HIDE DEF p, end
<1>5. M \in [0..(n + 1) -> [Device -> [View -> Seeing]]]
  BY <1>0, <1>1, <1>3, <1>4
<1>6. /\ M[n + 1] = end
      /\ \A i \in 0..n : M[i] = L[i]
  BY <1>0, <1>1
<1>7. /\ \A i \in 1..(n + 1) : i = n + 1 \/ i \in 1..n
      /\ \A i \in 1..n : i - 1 \in 0..n /\ i \in 0..n /\ i \in Nat /\ i - 1 \in Nat
                         /\ \A j \in 1..(i - 1) : j \in 1..n
      /\ n + 1 - 1 = n /\ n \in 0..n /\ 0 \in 0..n
  BY <1>0, <1>1
<1> HIDE DEF n, M
<1>8. Fits(W, M, p)
  <2> SUFFICES ASSUME NEW i \in 1..(n + 1), NEW d \in Device, NEW v \in W
               PROVE  /\ Of(p[i], d, v) => Follows(M[i - 1][d][v], p[i].change, M[i][d][v])
                      /\ ~Of(p[i], d, v) => M[i][d][v] = M[i - 1][d][v]
    BY <1>0, <1>1 DEF Fits
  <2>1. CASE i \in 1..n
    <3>1. p[i] = q[i] /\ M[i] = L[i] /\ M[i - 1] = L[i - 1]
      BY <1>0, <1>1, <1>6, <1>7, <2>1
    <3> QED
      BY <1>0, <2>1, <3>1 DEF InboxInv, Fits, n
  <2>2. CASE i = n + 1
    <3>1. p[i] = e /\ M[i] = end /\ M[i - 1] = L[n]
      BY <1>0, <1>1, <1>6, <1>7, <2>2
    <3>2. Of(e, d, v) <=> d = e.device /\ v = e.view_id
      BY <1>0 DEF Of
    <3>3. v \in View
      BY <1>0
    <3> QED
      BY <1>0, <1>4, <3>1, <3>2, <3>3 DEF n
  <2> QED
    BY <1>0, <1>7, <2>1, <2>2
<1>9. Begins(st, W, M)
  <2>1. M[0] = L[0]
    BY <1>0, <1>6, <1>7
  <2> QED
    BY <1>0, <2>1 DEF InboxInv, Begins
<1>10. Sent(st, W, p)
  <2> SUFFICES ASSUME NEW i \in 1..(n + 1), p[i].view_id \in W,
                      p[i].change \notin {"add", "remove"}
               PROVE  Current(st, p, i - 1, p[i].device, p[i].view_id)
    BY <1>0, <1>1 DEF Sent
  <2>1. CASE i \in 1..n
    <3>1. Current(st, q, i - 1, q[i].device, q[i].view_id)
      BY <1>0, <1>1, <2>1 DEF InboxInv, Sent, n
    <3>2. p[i] = q[i] /\ \A j \in 1..(i - 1) : p[j] = q[j]
      BY <1>0, <1>1, <1>7, <2>1
    <3> QED
      BY <1>0, <1>7, <2>1, <3>1, <3>2, PrefixKept
  <2>2. CASE i = n + 1
    <3>1. Current(st, q, n, e.device, e.view_id)
      BY <1>0, <1>1, <2>2 DEF n
    <3>2. Current(st, p, n, e.device, e.view_id)
      BY <1>0, <1>1, <3>1, PrefixKept
    <3> QED
      BY <1>0, <1>1, <1>7, <2>2, <3>2
  <2> QED
    BY <1>0, <1>7, <2>1, <2>2
<1>11. Removed(st, W, M, p)
  <2> SUFFICES ASSUME NEW i \in 1..(n + 1), NEW w \in W, p[i].change = "remove",
                      p[i].view_id \in W \ {w}, M[i - 1][p[i].device][w] # "none"
               PROVE  Later(st, p, i - 1, p[i].device, p[i].view_id, w)
    BY <1>0, <1>1 DEF Removed
  <2>1. CASE i \in 1..n
    <3>1. p[i] = q[i] /\ M[i - 1] = L[i - 1] /\ \A j \in 1..(i - 1) : p[j] = q[j]
      BY <1>0, <1>1, <1>6, <1>7, <2>1
    <3>2. Later(st, q, i - 1, q[i].device, q[i].view_id, w)
      BY <1>0, <2>1, <3>1 DEF InboxInv, Removed, n
    <3> QED
      BY <1>0, <1>7, <2>1, <3>1, <3>2, PrefixKept
  <2>2. CASE i = n + 1
    <3>1. Later(st, q, n, e.device, e.view_id, w)
      BY <1>0, <1>1, <1>6, <1>7, <2>2 DEF n
    <3> QED
      BY <1>0, <1>1, <1>7, <2>2, <3>1, PrefixKept
  <2> QED
    BY <1>0, <1>7, <2>1, <2>2
<1>12. ComesByAdd(W, M, p)
  <2> SUFFICES ASSUME NEW d \in Device, NEW v \in W, NEW j \in 0..(n + 1), NEW i \in 0..j,
                      M[i][d][v] = "none", M[j][d][v] # "none"
               PROVE  \E k \in (i + 1)..j : Adds(p[k], d, v)
    BY <1>0, <1>1 DEF ComesByAdd
  <2>1. ASSUME NEW h \in 0..n, i \in 0..h, L[h][d][v] # "none"
        PROVE  \E k \in (i + 1)..h : Adds(p[k], d, v)
    <3>1. M[i] = L[i]
      BY <1>0, <1>1, <1>6, <2>1
    <3>2. PICK k \in (i + 1)..h : Adds(q[k], d, v)
      BY <1>0, <2>1, <3>1 DEF InboxInv, ComesByAdd, n
    <3>3. p[k] = q[k]
      BY <1>0, <1>1, <2>1
    <3> QED
      BY <1>0, <3>2, <3>3
  <2>2. CASE j \in 0..n
    BY <1>0, <1>6, <2>1, <2>2
  <2>3. CASE j = n + 1
    <3>1. i # j
      OBVIOUS
    <3>2. i \in 0..n
      BY <1>0, <1>1, <2>3, <3>1
    <3>3. CASE Adds(e, d, v)
      <4>1. n + 1 \in (i + 1)..j
        BY <1>0, <1>1, <2>3, <3>2
      <4> QED
        BY <1>0, <1>1, <3>3, <4>1
    <3>4. CASE ~Adds(e, d, v)
      <4>1. L[n][d][v] # "none"
        <5>1. Fits(W, M, p) /\ n + 1 \in 1..Len(p) /\ M[n] = L[n] /\ n + 1 - 1 = n
          BY <1>0, <1>1, <1>6, <1>7, <1>8
        <5>2. /\ Of(e, d, v) => Follows(L[n][d][v], e.change, M[n + 1][d][v])
              /\ ~Of(e, d, v) => M[n + 1][d][v] = L[n][d][v]
          BY <1>0, <1>1, <5>1 DEF Fits
        <5> QED
          BY <1>0, <2>3, <3>4, <5>2 DEF Follows, Adds
      <4>2. \E k \in (i + 1)..n : Adds(p[k], d, v)
        BY <1>0, <1>7, <2>1, <3>2, <4>1
      <4> QED
        BY <1>0, <1>1, <2>3, <4>2
    <3> QED
      BY <1>0, <3>3, <3>4
  <2>4. j \in 0..n \/ j = n + 1
    BY <1>0, <1>1
  <2> QED
    BY <1>0, <2>2, <2>3, <2>4
<1>13. InboxInv(st, W, M, p)
  BY <1>0, <1>1, <1>5, <1>8, <1>9, <1>10, <1>11, <1>12 DEF InboxInv
<1> QED
  BY <1>6, <1>13 DEF p, n, end, Sees

-----------------------------------------------------------------------------
(* The states after the converter has taken packet e, which its window     *)
(* then sees as m.                                                         *)
Taken(st, st2, W, e, m) ==
  \/ e.view_id \notin W /\ st2 = st
  \/ /\ e.view_id \in W /\ e.change = "remove"
     /\ \/ st[e.device].view_id = e.view_id /\ st2 = Drop(st, e.device)
        \/ st[e.device].view_id # e.view_id /\ st2 = st
  \/ /\ e.view_id \in W /\ e.change # "remove"
     /\ \E s : /\ st2 = Store(st, e.device, s)
               /\ s.view_id = e.view_id /\ SeenAs(s, m)

(* The converter takes the first packet of q.                              *)
Takes(st, st2, W, L, q) ==
  /\ W \in SUBSET View /\ q \in Seq(RawData) /\ q # <<>>
  /\ InboxInv(st, W, L, q)
  /\ Taken(st, st2, W, q[1], L[1][q[1].device][q[1].view_id])

LEMMA TailFacts ==
  ASSUME NEW q \in Seq(RawData), q # <<>>
  PROVE  /\ Tail(q) \in Seq(RawData) /\ Head(q) = q[1] /\ q[1] \in RawData
         /\ Len(q) \in Nat \ {0} /\ Len(Tail(q)) = Len(q) - 1
         /\ \A i \in 1..(Len(q) - 1) : Tail(q)[i] = q[i + 1]
BY HeadTailProperties, ElementOfSeq, EmptySeq

(* What the first packet does.                                             *)
LEMMA FirstPacket ==
  ASSUME NEW st, NEW st2, NEW W, NEW L, NEW q, Takes(st, st2, W, L, q),
         NEW d \in Device, NEW v \in W
  PROVE  /\ d \in DOMAIN st2 /\ st2[d].view_id = v => SeenAs(st2[d], L[1][d][v])
         /\ L[1][d][v] # "none" => d \in DOMAIN st2
         /\ Adds(q[1], d, v) => d \in DOMAIN st2 /\ st2[d].view_id = v
         /\ d \in DOMAIN st /\ st[d].view_id = v /\ ~AddsElsewhere(q[1], d, v)
              => \/ d \in DOMAIN st2 /\ st2[d].view_id = v
                 \/ L[1][d][v] = "none"
         /\ d \in DOMAIN st /\ st[d].view_id # v /\ ~Adds(q[1], d, v)
              => \/ d \in DOMAIN st2 /\ st2[d].view_id # v
                 \/ \A w \in W : L[1][d][w] = "none"
<1> DEFINE e == q[1]
           x == e.view_id
<1>0. /\ W \in SUBSET View /\ q \in Seq(RawData) /\ q # <<>>
      /\ InboxInv(st, W, L, q)
      /\ Taken(st, st2, W, e, L[1][e.device][x])
  BY DEF Takes
<1>1. e \in RawData /\ 1 \in 1..Len(q) /\ 1 - 1 = 0
  BY <1>0, TailFacts
<1>2. e.device \in Device /\ x \in View
  BY <1>1, RawFields
<1>3. \A w \in W : /\ Of(e, d, w) => Follows(L[0][d][w], e.change, L[1][d][w])
                   /\ ~Of(e, d, w) => L[1][d][w] = L[0][d][w]
  BY <1>0, <1>1 DEF InboxInv, Fits
<1>4. \A w \in W : /\ d \in DOMAIN st /\ st[d].view_id = w => SeenAs(st[d], L[0][d][w])
                   /\ L[0][d][w] # "none" => d \in DOMAIN st
  BY <1>0 DEF InboxInv, Begins
<1>5. CASE x \notin W \/ e.device # d
  <2>1. \A w \in W : ~Of(e, d, w)
    BY <1>5 DEF Of
  <2>2. d \in DOMAIN st2 <=> d \in DOMAIN st
    BY <1>0, <1>5 DEF Taken, Store, Drop
  <2>3. d \in DOMAIN st => st2[d] = st[d]
    BY <1>0, <1>5 DEF Taken, Store, Drop
  <2>4. \A w \in W : L[1][d][w] = L[0][d][w]
    BY <1>3, <2>1
  <2> QED
    BY <1>4, <2>1, <2>2, <2>3, <2>4 DEF Adds
<1>6. CASE x \in W /\ e.device = d /\ e.change = "remove"
  <2>1. L[1][d][x] = "none" /\ d \in DOMAIN st
    BY <1>3, <1>4, <1>6 DEF Follows, Of
  <2>2. \A w \in W \ {x} : L[1][d][w] = L[0][d][w]
    BY <1>3 DEF Of
  <2>3. ~Adds(e, d, v) /\ ~AddsElsewhere(e, d, v)
    BY <1>6 DEF Adds, AddsElsewhere
  <2>4. CASE st[d].view_id # x
    <3>1. st2 = st
      BY <1>0, <1>6, <2>4 DEF Taken
    <3>2. v # x \/ (st[d].view_id # v /\ L[1][d][v] = "none")
      BY <2>1, <2>4
    <3> QED
      BY <1>4, <2>1, <2>2, <2>3, <3>1, <3>2
  <2>5. CASE st[d].view_id = x
    <3>1. st2 = Drop(st, d)
      BY <1>0, <1>6, <2>5 DEF Taken
    <3>2. d \notin DOMAIN st2
      BY <3>1 DEF Drop
    <3>3. \A w \in W \ {x} : L[0][d][w] = "none"
      <4> SUFFICES ASSUME NEW w \in W \ {x}, L[0][d][w] # "none"
                   PROVE  FALSE
        OBVIOUS
      <4>1. Later(st, q, 0, d, x, w)
        BY <1>0, <1>1, <1>6 DEF InboxInv, Removed
      <4> QED
        BY <2>5, <4>1 DEF Later
    <3>4. \A w \in W : L[1][d][w] = "none"
      BY <2>1, <2>2, <3>3
    <3> QED
      BY <2>3, <3>2, <3>4
  <2> QED
    BY <2>4, <2>5
<1>7. CASE x \in W /\ e.device = d /\ e.change # "remove"
  <2>1. PICK s : /\ st2 = Store(st, d, s)
                 /\ s.view_id = x /\ SeenAs(s, L[1][d][x])
    BY <1>0, <1>7 DEF Taken
  <2>2. d \in DOMAIN st2 /\ st2[d] = s
    BY <2>1 DEF Store
  <2>3. CASE e.change = "add"
    <3>1. (Adds(e, d, v) <=> v = x) /\ (AddsElsewhere(e, d, v) <=> v # x)
      BY <1>7, <2>3 DEF Adds, AddsElsewhere, Of
    <3> QED
      BY <2>1, <2>2, <3>1
  <2>4. CASE e.change # "add"
    <3>1. Current(st, q, 0, d, x)
      BY <1>0, <1>1, <1>7, <2>4 DEF InboxInv, Sent
    <3>2. d \in DOMAIN st /\ st[d].view_id = x
      BY <3>1 DEF Current
    <3>3. ~Adds(e, d, v)
      BY <2>4 DEF Adds
    <3> QED
      BY <2>1, <2>2, <3>2, <3>3
  <2> QED
    BY <2>3, <2>4
<1> QED
  BY <1>5, <1>6, <1>7

(* Once it is taken, the packets after it stand as they stood.             *)
LEMMA ShiftKept ==
  ASSUME NEW st, NEW st2, NEW W, NEW L, NEW q, Takes(st, st2, W, L, q),
         NEW n \in 1..Len(q), NEW d \in Device, NEW v \in W
  PROVE  /\ Current(st, q, n, d, v) /\ L[n][d][v] # "none"
              => Current(st2, Tail(q), n - 1, d, v)
         /\ \A w \in W \ {v} : Later(st, q, n, d, v, w) /\ L[n][d][w] # "none"
              => Later(st2, Tail(q), n - 1, d, v, w)
<1> DEFINE t == Tail(q)
<1>0. /\ W \in SUBSET View /\ q \in Seq(RawData) /\ q # <<>>
      /\ InboxInv(st, W, L, q)
  BY DEF Takes
<1>1. /\ Len(q) \in Nat /\ n \in Nat /\ 1 \in 1..n /\ 1 \in 0..n /\ n \in 0..Len(q)
      /\ \A k \in 2..n : k - 1 \in 1..(n - 1) /\ t[k - 1] = q[k]
      /\ \A k \in 1..(n - 1) : k + 1 \in 2..n /\ t[k] = q[k + 1]
  BY <1>0, TailFacts
<1>2. \A k \in 1..n : k = 1 \/ k \in 2..n
  BY <1>1
<1>3. ASSUME NEW w \in W, L[1][d][w] = "none", L[n][d][w] # "none"
      PROVE  \E k \in 2..n : Adds(q[k], d, w)
  <2>1. \E k \in (1 + 1)..n : Adds(q[k], d, w)
    BY <1>0, <1>1, <1>3 DEF InboxInv, ComesByAdd
  <2> QED
    BY <2>1
<1>6. \A w \in W :
        /\ Adds(q[1], d, w) => d \in DOMAIN st2 /\ st2[d].view_id = w
        /\ d \in DOMAIN st /\ st[d].view_id = w /\ ~AddsElsewhere(q[1], d, w)
             => \/ d \in DOMAIN st2 /\ st2[d].view_id = w
                \/ L[1][d][w] = "none"
        /\ d \in DOMAIN st /\ st[d].view_id # w /\ ~Adds(q[1], d, w)
             => \/ d \in DOMAIN st2 /\ st2[d].view_id # w
                \/ \A u \in W : L[1][d][u] = "none"
  <2> SUFFICES ASSUME NEW w \in W
               PROVE  /\ Adds(q[1], d, w) => d \in DOMAIN st2 /\ st2[d].view_id = w
                      /\ d \in DOMAIN st /\ st[d].view_id = w /\ ~AddsElsewhere(q[1], d, w)
                           => \/ d \in DOMAIN st2 /\ st2[d].view_id = w
                              \/ L[1][d][w] = "none"
                      /\ d \in DOMAIN st /\ st[d].view_id # w /\ ~Adds(q[1], d, w)
                           => \/ d \in DOMAIN st2 /\ st2[d].view_id # w
                              \/ \A u \in W : L[1][d][u] = "none"
    OBVIOUS
  <2> QED
    BY FirstPacket
<1> HIDE DEF t
<1>4. ASSUME Current(st, q, n, d, v), L[n][d][v] # "none"
      PROVE  Current(st2, t, n - 1, d, v)
  <2>1. ASSUME NEW k \in 2..n, Adds(q[k], d, v), \A j \in (k + 1)..n : ~AddsElsewhere(q[j], d, v)
        PROVE  Current(st2, t, n - 1, d, v)
    <3>1. k - 1 \in 1..(n - 1) /\ Adds(t[k - 1], d, v)
      BY <1>1, <2>1
    <3>2. \A j \in (k - 1 + 1)..(n - 1) : ~AddsElsewhere(t[j], d, v)
      <4> SUFFICES ASSUME NEW j \in (k - 1 + 1)..(n - 1)
                   PROVE  ~AddsElsewhere(t[j], d, v)
        OBVIOUS
      <4>1. j + 1 \in (k + 1)..n /\ j \in 1..(n - 1)
        BY <1>1
      <4> QED
        BY <1>1, <2>1, <4>1
    <3> QED
      BY <3>1, <3>2 DEF Current
  <2>2. ASSUME d \in DOMAIN st2, st2[d].view_id = v, \A j \in 2..n : ~AddsElsewhere(q[j], d, v)
        PROVE  Current(st2, t, n - 1, d, v)
    <3>1. \A j \in 1..(n - 1) : ~AddsElsewhere(t[j], d, v)
      BY <1>1, <2>2
    <3> QED
      BY <2>2, <3>1 DEF Current
  <2>3. CASE /\ d \in DOMAIN st /\ st[d].view_id = v
             /\ \A k \in 1..n : ~AddsElsewhere(q[k], d, v)
    <3>1. \A k \in 2..n : k \in 1..n /\ \A j \in (k + 1)..n : j \in 1..n
      BY <1>1
    <3>2. (d \in DOMAIN st2 /\ st2[d].view_id = v) \/ L[1][d][v] = "none"
      BY <1>1, <2>3, <1>6
    <3>3. CASE L[1][d][v] = "none"
      <4>1. PICK k \in 2..n : Adds(q[k], d, v)
        BY <1>3, <1>4, <3>3
      <4> QED
        BY <2>1, <2>3, <3>1, <4>1
    <3>4. CASE d \in DOMAIN st2 /\ st2[d].view_id = v
      BY <2>2, <2>3, <3>1, <3>4
    <3> QED
      BY <3>2, <3>3, <3>4
  <2>4. ASSUME NEW k \in 1..n, Adds(q[k], d, v), \A j \in (k + 1)..n : ~AddsElsewhere(q[j], d, v)
        PROVE  Current(st2, t, n - 1, d, v)
    <3>1. CASE k = 1
      <4>1. d \in DOMAIN st2 /\ st2[d].view_id = v
        BY <2>4, <3>1, <1>6
      <4> QED
        BY <2>2, <2>4, <3>1, <4>1
    <3> QED
      BY <1>2, <2>1, <2>4, <3>1
  <2> QED
    BY <1>4, <2>3, <2>4 DEF Current
<1>5. ASSUME NEW w \in W \ {v}, Later(st, q, n, d, v, w), L[n][d][w] # "none"
      PROVE  Later(st2, t, n - 1, d, v, w)
  <2>1. ASSUME NEW k \in 2..n, Adds(q[k], d, w), \A j \in (k + 1)..n : ~Adds(q[j], d, v)
        PROVE  Later(st2, t, n - 1, d, v, w)
    <3>1. k - 1 \in 1..(n - 1) /\ Adds(t[k - 1], d, w)
      BY <1>1, <2>1
    <3>2. \A j \in (k - 1 + 1)..(n - 1) : ~Adds(t[j], d, v)
      <4> SUFFICES ASSUME NEW j \in (k - 1 + 1)..(n - 1)
                   PROVE  ~Adds(t[j], d, v)
        OBVIOUS
      <4>1. j + 1 \in (k + 1)..n /\ j \in 1..(n - 1)
        BY <1>1
      <4> QED
        BY <1>1, <2>1, <4>1
    <3> QED
      BY <3>1, <3>2 DEF Later
  <2>2. ASSUME d \in DOMAIN st2, st2[d].view_id # v, \A j \in 2..n : ~Adds(q[j], d, v)
        PROVE  Later(st2, t, n - 1, d, v, w)
    <3>1. \A j \in 1..(n - 1) : ~Adds(t[j], d, v)
      BY <1>1, <2>2
    <3> QED
      BY <2>2, <3>1 DEF Later
  <2>3. CASE /\ d \in DOMAIN st /\ st[d].view_id # v
             /\ \A k \in 1..n : ~Adds(q[k], d, v)
    <3>1. \A k \in 2..n : k \in 1..n /\ \A j \in (k + 1)..n : j \in 1..n
      BY <1>1
    <3>2. (d \in DOMAIN st2 /\ st2[d].view_id # v) \/ L[1][d][w] = "none"
      BY <1>1, <2>3, <1>6
    <3>3. CASE L[1][d][w] = "none"
      <4>1. PICK k \in 2..n : Adds(q[k], d, w)
        BY <1>3, <1>5, <3>3
      <4> QED
        BY <2>1, <2>3, <3>1, <4>1
    <3>4. CASE d \in DOMAIN st2 /\ st2[d].view_id # v
      BY <2>2, <2>3, <3>1, <3>4
    <3> QED
      BY <3>2, <3>3, <3>4
  <2>4. ASSUME NEW k \in 1..n, Adds(q[k], d, w), \A j \in (k + 1)..n : ~Adds(q[j], d, v)
        PROVE  Later(st2, t, n - 1, d, v, w)
    <3>1. CASE k = 1
      <4>1. d \in DOMAIN st2 /\ st2[d].view_id = w
        BY <2>4, <3>1, <1>6
      <4> QED
        BY <2>2, <2>4, <3>1, <4>1
    <3> QED
      BY <1>2, <2>1, <2>4, <3>1
  <2> QED
    BY <1>5, <2>3, <2>4 DEF Later
<1> QED
  BY <1>4, <1>5 DEF t

LEMMA TakeKeeps ==
  ASSUME NEW st, NEW st2, NEW W, NEW L, NEW q, Takes(st, st2, W, L, q)
  PROVE  InboxInv(st2, W, [i \in 0..(Len(q) - 1) |-> L[i + 1]], Tail(q))
<1> DEFINE n == Len(q)
           t == Tail(q)
           M == [i \in 0..(n - 1) |-> L[i + 1]]
<1>1. /\ W \in SUBSET View /\ q \in Seq(RawData) /\ q # <<>>
      /\ InboxInv(st, W, L, q)
  BY DEF Takes
<1>2. /\ n \in Nat \ {0} /\ Len(t) = n - 1
      /\ \A i \in 1..(n - 1) : t[i] = q[i + 1]
  BY <1>1, TailFacts
<1>3. /\ \A i \in 0..(n - 1) : i + 1 \in 0..n /\ i + 1 \in 1..n /\ M[i] = L[i + 1]
      /\ \A i \in 1..(n - 1) : i - 1 \in 0..(n - 1) /\ i \in 0..(n - 1) /\ i \in 1..n
                               /\ i - 1 + 1 = i /\ i + 1 - 1 = i
      /\ 0 \in 0..(n - 1) /\ 0 + 1 = 1
  BY <1>2
<1>4. M \in [0..(n - 1) -> [Device -> [View -> Seeing]]]
  BY <1>1, <1>3 DEF InboxInv
<1>5. \A i \in 1..(n - 1) : M[i] = L[i + 1] /\ M[i - 1] = L[i]
  BY <1>3
<1>6. M[0] = L[1]
  BY <1>3
<1>7. \A i \in 1..(n - 1) : t[i] \in RawData /\ t[i].device \in Device
  <2> SUFFICES ASSUME NEW i \in 1..(n - 1)
               PROVE  t[i] \in RawData /\ t[i].device \in Device
    OBVIOUS
  <2>1. q[i + 1] \in RawData
    BY <1>1, <1>3, ElementOfSeq
  <2> QED
    BY <1>2, <2>1, RawFields
<1> HIDE DEF M, t, n
<1>8. Fits(W, M, t)
  <2>1. Len(t) = n - 1
    BY <1>2
  <2> SUFFICES ASSUME NEW i \in 1..(n - 1), NEW d \in Device, NEW v \in W
               PROVE  /\ Of(t[i], d, v) => Follows(M[i - 1][d][v], t[i].change, M[i][d][v])
                      /\ ~Of(t[i], d, v) => M[i][d][v] = M[i - 1][d][v]
    BY <2>1 DEF Fits
  <2>2. i + 1 \in 1..n /\ i + 1 - 1 = i /\ t[i] = q[i + 1]
    BY <1>2, <1>3
  <2>3. /\ Of(q[i + 1], d, v) => Follows(L[i][d][v], q[i + 1].change, L[i + 1][d][v])
        /\ ~Of(q[i + 1], d, v) => L[i + 1][d][v] = L[i][d][v]
    BY <1>1, <2>2 DEF InboxInv, Fits, n
  <2> QED
    BY <1>5, <2>2, <2>3
<1>9. Begins(st2, W, M)
  <2> SUFFICES ASSUME NEW d \in Device, NEW v \in W
               PROVE  /\ d \in DOMAIN st2 /\ st2[d].view_id = v => SeenAs(st2[d], M[0][d][v])
                      /\ M[0][d][v] # "none" => d \in DOMAIN st2
    BY DEF Begins
  <2>1. /\ d \in DOMAIN st2 /\ st2[d].view_id = v => SeenAs(st2[d], L[1][d][v])
        /\ L[1][d][v] # "none" => d \in DOMAIN st2
    BY FirstPacket
  <2> QED
    BY <1>6, <2>1
<1>10. Sent(st2, W, t)
  <2> SUFFICES ASSUME NEW i \in 1..(n - 1), t[i].view_id \in W,
                      t[i].change \notin {"add", "remove"}
               PROVE  Current(st2, t, i - 1, t[i].device, t[i].view_id)
    BY <1>2 DEF Sent
  <2> DEFINE d == t[i].device
             v == t[i].view_id
  <2>1. i + 1 \in 1..n /\ i + 1 - 1 = i /\ t[i] = q[i + 1] /\ i \in 1..n /\ d \in Device
    BY <1>2, <1>3, <1>7
  <2>2. Current(st, q, i, d, v)
    BY <1>1, <2>1 DEF InboxInv, Sent, n
  <2>3. Follows(L[i][d][v], t[i].change, L[i + 1][d][v])
    BY <1>1, <2>1 DEF InboxInv, Fits, n, Of
  <2>4. L[i][d][v] # "none"
    BY <2>3 DEF Follows
  <2> QED
    BY <2>1, <2>2, <2>4, ShiftKept DEF n, t
<1>11. Removed(st2, W, M, t)
  <2> SUFFICES ASSUME NEW i \in 1..(n - 1), NEW w \in W, t[i].change = "remove",
                      t[i].view_id \in W \ {w}, M[i - 1][t[i].device][w] # "none"
               PROVE  Later(st2, t, i - 1, t[i].device, t[i].view_id, w)
    BY <1>2 DEF Removed
  <2> DEFINE d == t[i].device
             v == t[i].view_id
  <2>1. i + 1 \in 1..n /\ i + 1 - 1 = i /\ t[i] = q[i + 1] /\ i \in 1..n /\ d \in Device
    BY <1>2, <1>3, <1>7
  <2>2. L[i][d][w] # "none"
    BY <1>5
  <2>3. Later(st, q, i, d, v, w)
    BY <1>1, <2>1, <2>2 DEF InboxInv, Removed, n
  <2>4. v \in W /\ w \in W \ {v}
    OBVIOUS
  <2> QED
    BY <2>1, <2>2, <2>3, <2>4, ShiftKept DEF n, t
<1>12. ComesByAdd(W, M, t)
  <2> SUFFICES ASSUME NEW d \in Device, NEW v \in W, NEW j \in 0..(n - 1), NEW i \in 0..j,
                      M[i][d][v] = "none", M[j][d][v] # "none"
               PROVE  \E k \in (i + 1)..j : Adds(t[k], d, v)
    BY <1>2 DEF ComesByAdd
  <2>1. j + 1 \in 0..n /\ i + 1 \in 0..(j + 1) /\ i \in 0..(n - 1)
    BY <1>2
  <2>2. M[i] = L[i + 1] /\ M[j] = L[j + 1]
    BY <1>3, <2>1
  <2>3. PICK k \in (i + 1 + 1)..(j + 1) : Adds(q[k], d, v)
    BY <1>1, <2>1, <2>2 DEF InboxInv, ComesByAdd, n
  <2>4. k - 1 \in (i + 1)..j /\ k - 1 \in 1..(n - 1) /\ k - 1 + 1 = k
    BY <1>2, <2>1
  <2>5. t[k - 1] = q[k]
    BY <1>2, <2>4
  <2> QED
    BY <2>3, <2>4, <2>5
<1>13. InboxInv(st2, W, M, t)
  BY <1>2, <1>4, <1>8, <1>9, <1>10, <1>11, <1>12 DEF InboxInv
<1> QED
  BY <1>13 DEF M, t, n

(* Windows that are gone are not missed,                                   *)
LEMMA FewerWindows ==
  ASSUME NEW st, NEW W, NEW V \in SUBSET W, NEW L, NEW q, InboxInv(st, W, L, q)
  PROVE  InboxInv(st, V, L, q)
<1>1. Fits(V, L, q)
  BY DEF InboxInv, Fits
<1>2. Begins(st, V, L)
  BY DEF InboxInv, Begins
<1>3. Sent(st, V, q)
  BY DEF InboxInv, Sent
<1>4. Removed(st, V, L, q)
  BY DEF InboxInv, Removed
<1>5. ComesByAdd(V, L, q)
  BY DEF InboxInv, ComesByAdd
<1> QED
  BY <1>1, <1>2, <1>3, <1>4, <1>5 DEF InboxInv

(* and one that nothing under way is of may come.                          *)
MayCome(st, W, x, L, q) ==
  /\ W \in SUBSET View /\ x \in View \ W /\ q \in Seq(RawData)
  /\ InboxInv(st, W, L, q)
  /\ \A i \in 1..Len(q) : q[i].view_id # x
  /\ \A d \in DOMAIN st : st[d].view_id # x

HasCome(st, W, x, L, q) ==
  \E M : /\ InboxInv(st, W \cup {x}, M, q)
         /\ \A d \in Device : M[Len(q)][d][x] = "none"
         /\ \A d \in Device : \A v \in W : M[Len(q)][d][v] = L[Len(q)][d][v]

LEMMA OneMoreWindow ==
  ASSUME NEW st, NEW W, NEW x, NEW L, NEW q, MayCome(st, W, x, L, q)
  PROVE  HasCome(st, W, x, L, q)
<1> DEFINE n == Len(q)
           V == W \cup {x}
           M == [i \in 0..n |-> [d \in Device |-> [v \in View |->
                   IF v = x THEN "none" ELSE L[i][d][v]]]]
<1>0. /\ W \in SUBSET View /\ x \in View \ W /\ q \in Seq(RawData)
      /\ InboxInv(st, W, L, q)
      /\ \A i \in 1..Len(q) : q[i].view_id # x
      /\ \A d \in DOMAIN st : st[d].view_id # x
  BY DEF MayCome
<1>1. n \in Nat /\ \A i \in 1..n : i \in 0..n /\ i - 1 \in 0..n /\ q[i].device \in Device
  BY <1>0, ElementOfSeq, RawFields
<1>2. L \in [0..n -> [Device -> [View -> Seeing]]]
  BY <1>0 DEF InboxInv
<1>3. M \in [0..n -> [Device -> [View -> Seeing]]]
  BY <1>0, <1>2 DEF Seeing
<1>4. \A i \in 0..n : \A d \in Device : \A v \in View :
        M[i][d][v] = IF v = x THEN "none" ELSE L[i][d][v]
  OBVIOUS
<1> HIDE DEF n, M
<1>5. Fits(V, M, q)
  <2> SUFFICES ASSUME NEW i \in 1..n, NEW d \in Device, NEW v \in V
               PROVE  /\ Of(q[i], d, v) => Follows(M[i - 1][d][v], q[i].change, M[i][d][v])
                      /\ ~Of(q[i], d, v) => M[i][d][v] = M[i - 1][d][v]
    BY <1>0 DEF Fits, n
  <2>1. i \in 0..n /\ i - 1 \in 0..n /\ v \in View
    BY <1>0, <1>1
  <2>2. CASE v = x
    BY <1>0, <1>4, <2>1, <2>2 DEF Of, n
  <2>3. CASE v # x
    <3>1. /\ Of(q[i], d, v) => Follows(L[i - 1][d][v], q[i].change, L[i][d][v])
          /\ ~Of(q[i], d, v) => L[i][d][v] = L[i - 1][d][v]
      BY <1>0, <2>3 DEF InboxInv, Fits, n
    <3> QED
      BY <1>0, <1>4, <2>1, <2>3, <3>1
  <2> QED
    BY <1>0, <2>2, <2>3
<1>6. Begins(st, V, M)
  BY <1>0, <1>1, <1>4 DEF InboxInv, Begins
<1>7. Sent(st, V, q)
  BY <1>0 DEF InboxInv, Sent, n
<1>8. Removed(st, V, M, q)
  <2> SUFFICES ASSUME NEW i \in 1..n, NEW w \in V, q[i].change = "remove",
                      q[i].view_id \in V \ {w}, M[i - 1][q[i].device][w] # "none"
               PROVE  Later(st, q, i - 1, q[i].device, q[i].view_id, w)
    BY DEF Removed, n
  <2>1. q[i].view_id # x /\ w \in View
    BY <1>0 DEF n
  <2>2. w # x /\ L[i - 1][q[i].device][w] # "none"
    BY <1>1, <1>4, <2>1
  <2> QED
    BY <1>0, <2>1, <2>2 DEF InboxInv, Removed, n
<1>9. ComesByAdd(V, M, q)
  <2> SUFFICES ASSUME NEW d \in Device, NEW v \in V, NEW j \in 0..n, NEW i \in 0..j,
                      M[i][d][v] = "none", M[j][d][v] # "none"
               PROVE  \E k \in (i + 1)..j : Adds(q[k], d, v)
    BY <1>0 DEF ComesByAdd, n
  <2>1. i \in 0..n /\ v \in View
    BY <1>0, <1>1
  <2>2. v # x
    BY <1>0, <1>4, <2>1
  <2>3. L[i][d][v] = "none" /\ L[j][d][v] # "none" /\ v \in W
    BY <1>0, <1>4, <2>1, <2>2
  <2> QED
    BY <1>0, <2>3 DEF InboxInv, ComesByAdd, n
<1>10. InboxInv(st, V, M, q)
  BY <1>0, <1>3, <1>5, <1>6, <1>7, <1>8, <1>9 DEF InboxInv, n
<1>11. \A d \in Device : \A v \in W : v \in View => M[n][d][v] = L[n][d][v]
  BY <1>0, <1>1, <1>4
<1> QED
  BY <1>0, <1>1, <1>4, <1>10, <1>11 DEF HasCome, n

-----------------------------------------------------------------------------
(* What is sent.                                                           *)
LEMMA AfterOne ==
  ASSUME NEW st, NEW q \in Seq(RawData), NEW e \in RawData
  PROVE  LET p == Append(q, e)
         IN /\ \A d, v : Adds(e, d, v) => Current(st, p, Len(p), d, v)
            /\ \A d, v : Current(st, q, Len(q), d, v) /\ ~AddsElsewhere(e, d, v)
                           => Current(st, p, Len(p), d, v)
            /\ \A d, v, w : Later(st, q, Len(q), d, v, w) /\ ~Adds(e, d, v)
                              => Later(st, p, Len(p), d, v, w)
<1> DEFINE n == Len(q)
           p == Append(q, e)
<1>1. /\ n \in Nat /\ Len(p) = n + 1 /\ p[n + 1] = e
      /\ \A i \in 1..n : p[i] = q[i]
  BY AppendFacts
<1> HIDE DEF n, p
<1>2. \A d, v : Adds(e, d, v) => Current(st, p, n + 1, d, v)
  BY <1>1, OneMore
<1>3. \A d, v : Current(st, q, n, d, v) /\ ~AddsElsewhere(e, d, v)
                  => Current(st, p, n + 1, d, v)
  BY <1>1, OneMore, PrefixKept
<1>4. \A d, v, w : Later(st, q, n, d, v, w) /\ ~Adds(e, d, v)
                     => Later(st, p, n + 1, d, v, w)
  BY <1>1, OneMore, PrefixKept
<1> QED
  BY <1>1, <1>2, <1>3, <1>4 DEF n, p

(* Window v sends event e of device d, after the add a if the device is    *)
(* new to it, and the packets under way are then p.                        *)
SendsEvent(st, W, L, q, d, v, new, a, e, m, p) ==
  /\ W \in SUBSET View /\ q \in Seq(RawData) /\ InboxInv(st, W, L, q)
  /\ d \in Device /\ v \in W /\ new \in BOOLEAN
  /\ e \in RawData /\ Of(e, d, v) /\ e.change \notin {"add", "remove"}
  /\ a \in RawData /\ Adds(a, d, v)
  /\ m \in Seeing
  /\ new => L[Len(q)][d][v] = "none" /\ Follows("up", e.change, m)
  /\ ~new => Current(st, q, Len(q), d, v) /\ Follows(L[Len(q)][d][v], e.change, m)
  /\ p = IF new THEN Append(Append(q, a), e) ELSE Append(q, e)

LEMMA SentPackets ==
  ASSUME NEW st, NEW W, NEW L, NEW q, NEW d, NEW v, NEW new, NEW a, NEW e, NEW m, NEW p,
         SendsEvent(st, W, L, q, d, v, new, a, e, m, p)
  PROVE  /\ p \in Seq(RawData)
         /\ Current(st, p, Len(p), d, v)
         /\ \A x, w : x # d /\ Current(st, q, Len(q), x, w) => Current(st, p, Len(p), x, w)
         /\ \A x, u, w : (x # d \/ u # v) /\ Later(st, q, Len(q), x, u, w)
                           => Later(st, p, Len(p), x, u, w)
         /\ \E M : /\ InboxInv(st, W, M, p)
                   /\ M[Len(p)] = Sees(L[Len(q)], d, v, m)
<1>0. /\ W \in SUBSET View /\ q \in Seq(RawData) /\ InboxInv(st, W, L, q)
      /\ d \in Device /\ v \in W /\ new \in BOOLEAN
      /\ e \in RawData /\ Of(e, d, v) /\ e.change \notin {"add", "remove"}
      /\ a \in RawData /\ Adds(a, d, v)
      /\ m \in Seeing
      /\ new => L[Len(q)][d][v] = "none" /\ Follows("up", e.change, m)
      /\ ~new => Current(st, q, Len(q), d, v) /\ Follows(L[Len(q)][d][v], e.change, m)
      /\ p = IF new THEN Append(Append(q, a), e) ELSE Append(q, e)
  BY DEF SendsEvent
<1>1. /\ \A x, w : ~AddsElsewhere(e, x, w) /\ ~Adds(e, x, w)
      /\ \A x, w : x # d => ~AddsElsewhere(a, x, w) /\ ~Adds(a, x, w)
      /\ \A w : w # v => ~Adds(a, d, w)
      /\ e.device = d /\ e.view_id = v /\ a.device = d /\ a.view_id = v /\ a.change = "add"
  BY <1>0 DEF Adds, AddsElsewhere, Of
<1>2. CASE ~new
  <2>1. p = Append(q, e) /\ p \in Seq(RawData) /\ Len(p) = Len(q) + 1
    BY <1>0, <1>2, AppendFacts
  <2>2. Current(st, q, Len(q), d, v) /\ Follows(L[Len(q)][d][v], e.change, m)
    BY <1>0, <1>2
  <2> MaySend(st, W, L, q, e, m)
    BY <1>0, <1>1, <2>2 DEF MaySend
  <2>3. \E M : InboxInv(st, W, M, p) /\ M[Len(p)] = Sees(L[Len(q)], d, v, m)
    <3>1. \E M : /\ InboxInv(st, W, M, Append(q, e))
                 /\ M[Len(q) + 1] = Sees(L[Len(q)], e.device, e.view_id, m)
      BY Extend
    <3> QED
      BY <1>0, <1>1, <2>1, <3>1
  <2>4. /\ \A x, w : Current(st, q, Len(q), x, w) => Current(st, p, Len(p), x, w)
        /\ \A x, u, w : Later(st, q, Len(q), x, u, w) => Later(st, p, Len(p), x, u, w)
    BY <1>0, <1>1, <2>1, AfterOne
  <2> QED
    BY <1>0, <2>1, <2>2, <2>3, <2>4
<1>3. CASE new
  <2> DEFINE r == Append(q, a)
             n == Len(q)
  <2>1. /\ r \in Seq(RawData) /\ Len(r) = n + 1
        /\ p = Append(r, e) /\ p \in Seq(RawData) /\ Len(p) = Len(r) + 1
    BY <1>0, <1>3, AppendFacts
  <2>2. Follows(L[n][d][v], a.change, "up") /\ "up" \in Seeing
    BY <1>0, <1>1, <1>3 DEF Follows, Seeing
  <2>3. PICK M : InboxInv(st, W, M, r) /\ M[n + 1] = Sees(L[n], d, v, "up")
    <3>1. MaySend(st, W, L, q, a, "up")
      BY <1>0, <1>1, <2>2 DEF MaySend
    <3>2. \E M : /\ InboxInv(st, W, M, Append(q, a))
                 /\ M[Len(q) + 1] = Sees(L[Len(q)], a.device, a.view_id, "up")
      BY <1>0, <3>1, Extend
    <3> QED
      BY <1>0, <1>1, <3>2
  <2>4. L[n] \in [Device -> [View -> Seeing]]
    BY <1>0, AppendFacts DEF InboxInv
  <2>5. /\ M[Len(r)][d][v] = "up"
        /\ Sees(M[Len(r)], d, v, m) = Sees(L[n], d, v, m)
    <3> DEFINE f == L[n]
    <3>1. f \in [Device -> [View -> Seeing]] /\ v \in View
      BY <1>0, <2>4
    <3>2. M[Len(r)] = Sees(f, d, v, "up")
      BY <1>0, <2>1, <2>3
    <3> HIDE DEF f
    <3>3. /\ Sees(f, d, v, "up")[d][v] = "up"
          /\ Sees(Sees(f, d, v, "up"), d, v, m) = Sees(f, d, v, m)
      BY <1>0, <3>1 DEF Sees
    <3> QED
      BY <1>0, <3>2, <3>3 DEF f
  <2>6. Follows(M[Len(r)][d][v], e.change, m)
    BY <1>0, <1>3, <2>5
  <2>7. /\ Current(st, r, Len(r), d, v)
        /\ \A x, w : x # d /\ Current(st, q, n, x, w) => Current(st, r, Len(r), x, w)
        /\ \A x, u, w : (x # d \/ u # v) /\ Later(st, q, n, x, u, w)
                          => Later(st, r, Len(r), x, u, w)
    BY <1>0, <1>1, AfterOne
  <2> HIDE DEF r
  <2>8. \E K : InboxInv(st, W, K, p) /\ K[Len(p)] = Sees(M[Len(r)], d, v, m)
    <3>1. MaySend(st, W, M, r, e, m)
      BY <1>0, <1>1, <2>1, <2>3, <2>6, <2>7 DEF MaySend
    <3>2. \E K : /\ InboxInv(st, W, K, Append(r, e))
                 /\ K[Len(r) + 1] = Sees(M[Len(r)], e.device, e.view_id, m)
      BY <1>0, <3>1, Extend
    <3> QED
      BY <1>0, <1>1, <2>1, <3>2
  <2>9. /\ \A x, w : Current(st, r, Len(r), x, w) => Current(st, p, Len(p), x, w)
        /\ \A x, u, w : Later(st, r, Len(r), x, u, w) => Later(st, p, Len(p), x, u, w)
    BY <1>0, <1>1, <2>1, AfterOne
  <2> QED
    BY <1>0, <2>1, <2>5, <2>7, <2>8, <2>9
<1> QED
  BY <1>0, <1>2, <1>3

-----------------------------------------------------------------------------
(***************************************************************************)
(* The windows.                                                            *)
(***************************************************************************)

(* What a window sees of a device when all packets will have been taken.   *)
Local(d, v) ==
  IF d \notin DOMAIN pointer_states[v] THEN "none"
  ELSE IF d \in Trackpad /\ viewport[v] = "running" THEN "pan"
  ELSE IF pointer_states[v][d].flutter_state_is_down THEN "down" ELSE "up"

(* What a window keeps of a device: the mouse and a touch point are down   *)
(* with their buttons, and a trackpad is its own.                          *)
PointerOK(d, v, p) ==
  /\ p \in Pointer /\ p.flutter_state_is_added
  /\ p.flutter_state_is_down <=> p.buttons # {}
  /\ d = Touch => p.buttons = {Left}
  /\ d \in Trackpad => p.buttons = {} /\ d = TrackpadOf[v]
  /\ d \in Trackpad \cup {Mouse, Touch}

WindowsTypeOK ==
  /\ windows \subseteq View /\ closed \subseteq View /\ windows \cap closed = {}
  /\ views = windows
  /\ over \in windows \cup {NoView}
  /\ leaving \in Seq(windows)
  /\ viewport \in [View -> {"ready", "running", "inertia"}]
  /\ DOMAIN pointer_states = View
  /\ \A v \in View : \A d \in DOMAIN pointer_states[v] :
       v \in windows /\ d \in Device /\ PointerOK(d, v, pointer_states[v][d])

(* The mouse is known in the window it is in and in those it has left, one *)
(* window is touched, and a gesture has a trackpad.                        *)
MouseIsIn(v) == v = over \/ \E i \in DOMAIN leaving : leaving[i] = v

DevicesOK ==
  /\ \A v \in View : Mouse \in DOMAIN pointer_states[v] <=> v \in windows /\ MouseIsIn(v)
  /\ \A i, j \in DOMAIN leaving : leaving[i] # over /\ (i # j => leaving[i] # leaving[j])
  /\ \A v, w \in View : Touched(v) /\ Touched(w) => v = w
  /\ \A v \in View : viewport[v] = "running" => TrackpadOf[v] \in DOMAIN pointer_states[v]

(* The packets under way and the states of the converter are of windows    *)
(* that there are or were.                                                 *)
PacketOK_(e, V) ==
  /\ e.view_id \in V /\ e.change # "cancel"
  /\ e.device \in Trackpad => e.device = TrackpadOf[e.view_id]

StateOf(d, s, V) ==
  /\ s.view_id \in V
  /\ d \in Trackpad => d = TrackpadOf[s.view_id]
  /\ s.is_pan_zoom_active => d \in Trackpad

UnderWay ==
  /\ inbox \in Seq(RawData)
  /\ \A i \in 1..Len(inbox) : PacketOK_(inbox[i], windows \cup closed)
  /\ \A d \in DOMAIN states_ : StateOf(d, states_[d], windows \cup closed)

(* The device of every window that may go on to send events is in it by    *)
(* then, and the windows that the mouse has left were left in order.       *)
WillBeIn(d, v) == Current(states_, inbox, Len(inbox), d, v)

WillBeLater(v, w) == Later(states_, inbox, Len(inbox), Mouse, v, w)

Placed ==
  /\ \A v \in View : \A d \in DOMAIN pointer_states[v] \ {Mouse} : WillBeIn(d, v)
  /\ over # NoView => WillBeIn(Mouse, over)
  /\ \A j \in DOMAIN leaving : \A i \in 1..(j - 1) : WillBeLater(leaving[i], leaving[j])

Traced(L) ==
  /\ InboxInv(states_, windows, L, inbox)
  /\ \A d \in Device : \A v \in windows : L[Len(inbox)][d][v] = Local(d, v)

WindowsInv ==
  /\ WindowsTypeOK /\ DevicesOK /\ UnderWay /\ Placed
  /\ \E L : Traced(L)

-----------------------------------------------------------------------------
LEMMA RawEvent ==
  ASSUME NEW change \in Change, NEW d \in Device, NEW v \in View, NEW at \in Place,
         change \in {"down", "move", "up", "cancel"} => d \notin Trackpad,
         change \in {"pan_zoom_start", "pan_zoom_update", "pan_zoom_end"} => d \in Trackpad
  PROVE  /\ Raw(change, d, v, at, 0) \in RawData
         /\ change = "pan_zoom_update" =>
              \A pan \in Pan : Raw(change, d, v, at, pan) \in RawData
<1> DEFINE Plain(device, view, physical) ==
             {Raw(c, device, view, physical, pan) :
                c \in IF device \in Trackpad
                        THEN Change \ {"down", "move", "up", "cancel"}
                        ELSE Change \ {"pan_zoom_start", "pan_zoom_update", "pan_zoom_end"},
                pan \in {0}}
           Pans(device, view, physical) ==
             {Raw("pan_zoom_update", device, view, physical, pan) :
                pan \in IF device \in Trackpad THEN Pan ELSE {}}
           Both(device, view, physical) ==
             Plain(device, view, physical) \cup Pans(device, view, physical)
<1>1. RawData = UNION {Both(device, view, physical) :
                         device \in Device, view \in View, physical \in Place}
  BY DEF RawData
<1>2. Raw(change, d, v, at, 0) \in Plain(d, v, at)
  OBVIOUS
<1>3. ASSUME change = "pan_zoom_update", NEW pan \in Pan
      PROVE  Raw(change, d, v, at, pan) \in Pans(d, v, at)
  BY <1>3
<1> HIDE DEF Plain, Pans
<1>4. Plain(d, v, at) \cup Pans(d, v, at) \subseteq RawData
  <2>1. Both(d, v, at) \in {Both(device, view, physical) :
                              device \in Device, view \in View, physical \in Place}
    OBVIOUS
  <2>2. Both(d, v, at) = Plain(d, v, at) \cup Pans(d, v, at)
    OBVIOUS
  <2> HIDE DEF Both
  <2> QED
    BY <1>1, <2>1, <2>2
<1> QED
  BY <1>2, <1>3, <1>4

(* Packets that are posted are appended one after the other.               *)
LEMMA Posted ==
  ASSUME NEW S, NEW q \in Seq(S), NEW a \in S, NEW b \in S
  PROVE  /\ q \o Append(<<>>, b) = Append(q, b)
         /\ q \o Append(<<a>>, b) = Append(Append(q, a), b)
         /\ q \o <<a, b>> = Append(Append(q, a), b)
<1>1. Append(<<>>, b) = <<b>> /\ Append(<<a>>, b) = <<a, b>> /\ <<a>> \o <<b>> = <<a, b>>
  BY OneThenOne
<1>2. <<a>> \in Seq(S) /\ <<b>> \in Seq(S) /\ Append(q, a) \in Seq(S)
  BY AppendProperties
<1>3. q \o <<b>> = Append(q, b) /\ q \o <<a>> = Append(q, a)
  BY AppendIsConcat
<1>4. Append(q, a) \o <<b>> = Append(Append(q, a), b)
  BY <1>2, AppendIsConcat
<1>5. (q \o <<a>>) \o <<b>> = q \o (<<a>> \o <<b>>)
  BY <1>2, ConcatAssociative
<1> QED
  BY <1>1, <1>3, <1>4, <1>5

(* Window v sends an event of device d, which it then sees as m.           *)
Sends(v, d, t, change, at, pan, m) ==
  /\ v \in windows /\ d \in Device /\ at \in Place
  /\ change \in Change \ {"add", "remove", "cancel"}
  /\ Raw(change, d, v, at, pan) \in RawData
  /\ Send(v, d, GetOrCreatePointerState(v, d), t, change, at, pan)
  /\ PointerOK(d, v, [t EXCEPT !.flutter_state_is_added = TRUE])
  /\ viewport' \in [View -> {"ready", "running", "inertia"}]
  /\ \A w \in View \ {v} : viewport'[w] = viewport[w]
  /\ d \notin Trackpad => viewport' = viewport
  /\ d \in DOMAIN pointer_states[v] => WillBeIn(d, v)
  /\ Follows(IF d \in DOMAIN pointer_states[v] THEN Local(d, v) ELSE "up", change, m)
  /\ m = IF d \in Trackpad /\ viewport'[v] = "running" THEN "pan"
         ELSE IF t.flutter_state_is_down THEN "down" ELSE "up"

(* That is one more packet, or two with the add.                           *)
PostsPackets(v, d, t, change, at, pan) ==
  LET e == Raw(change, d, v, at, pan)
      a == Raw("add", d, v, at, 0)
  IN /\ UNCHANGED <<converterVars, windows, closed>>
     /\ pointer_states' = [pointer_states EXCEPT
          ![v] = Store(@, d, [t EXCEPT !.flutter_state_is_added = TRUE])]
     /\ e \in RawData /\ Of(e, d, v) /\ e.change = change
     /\ a \in RawData /\ Adds(a, d, v)
     /\ inbox' = IF d \notin DOMAIN pointer_states[v]
                   THEN Append(Append(inbox, a), e) ELSE Append(inbox, e)

LEMMA SendPosts ==
  ASSUME WindowsInv, NEW v, NEW d, NEW t, NEW change, NEW at, NEW pan, NEW m,
         Sends(v, d, t, change, at, pan, m)
  PROVE  PostsPackets(v, d, t, change, at, pan)
<1> DEFINE e == Raw(change, d, v, at, pan)
           a == Raw("add", d, v, at, 0)
           s == GetOrCreatePointerState(v, d)
<1>1. /\ v \in windows /\ v \in View /\ d \in Device /\ at \in Place
      /\ e \in RawData /\ Send(v, d, s, t, change, at, pan)
  BY DEF Sends, WindowsInv, WindowsTypeOK
<1>2. /\ UNCHANGED <<converterVars, windows, closed>>
      /\ pointer_states' = [pointer_states EXCEPT
              ![v] = Store(@, d, [t EXCEPT !.flutter_state_is_added = TRUE])]
      /\ inbox' = inbox \o Packets(v, d, s, change, at, pan)
  BY <1>1 DEF Send, Post
<1>3. Of(e, d, v) /\ e.change = change /\ Adds(a, d, v)
  BY DEF Raw, Of, Adds
<1>4. a \in RawData
  BY <1>1, RawEvent DEF Change
<1>5. s.flutter_state_is_added <=> d \in DOMAIN pointer_states[v]
  BY <1>1 DEF GetOrCreatePointerState, WindowsInv, WindowsTypeOK, PointerOK
<1>6. Packets(v, d, s, change, at, pan)
        = IF d \notin DOMAIN pointer_states[v] THEN Append(<<a>>, e) ELSE Append(<<>>, e)
  BY <1>5 DEF Packets
<1>7. inbox \in Seq(RawData)
  BY DEF WindowsInv, UnderWay
<1> HIDE DEF e, a, s
<1>8. /\ inbox \o Append(<<>>, e) = Append(inbox, e)
      /\ inbox \o Append(<<a>>, e) = Append(Append(inbox, a), e)
  BY <1>1, <1>4, <1>7, Posted
<1>9. inbox' = IF d \notin DOMAIN pointer_states[v]
                 THEN Append(Append(inbox, a), e) ELSE Append(inbox, e)
  BY <1>2, <1>6, <1>8
<1> QED
  BY <1>1, <1>2, <1>3, <1>4, <1>9 DEF e, a, PostsPackets

LEMMA LocalSees ==
  ASSUME WindowsInv, NEW d \in Device, NEW v \in View
  PROVE  /\ Local(d, v) \in Seeing
         /\ Local(d, v) = "none" <=> d \notin DOMAIN pointer_states[v]
BY DEF Local, Seeing

LEMMA SendKeeps ==
  ASSUME WindowsInv, NEW v, NEW d, NEW t, NEW change, NEW at, NEW pan, NEW m,
         Sends(v, d, t, change, at, pan, m)
  PROVE  /\ windows' = windows /\ closed' = closed /\ views' = views
         /\ UnderWay'
         /\ (\E L : Traced(L))'
         /\ DOMAIN pointer_states' = View
         /\ \A w \in View :
              DOMAIN pointer_states'[w] = IF w = v THEN DOMAIN pointer_states[v] \cup {d}
                                          ELSE DOMAIN pointer_states[w]
         /\ \A w \in View : \A x \in DOMAIN pointer_states'[w] :
              w \in windows /\ x \in Device /\ PointerOK(x, w, pointer_states'[w][x])
         /\ WillBeIn(d, v)'
         /\ \A x, w : x # d /\ WillBeIn(x, w) => WillBeIn(x, w)'
         /\ \A u, w : (d # Mouse \/ u # v) /\ WillBeLater(u, w) => WillBeLater(u, w)'
<1> DEFINE e == Raw(change, d, v, at, pan)
           a == Raw("add", d, v, at, 0)
           new == d \notin DOMAIN pointer_states[v]
           p == [t EXCEPT !.flutter_state_is_added = TRUE]
<1>1. /\ windows \in SUBSET View /\ v \in windows /\ v \in View /\ d \in Device
      /\ inbox \in Seq(RawData)
      /\ DOMAIN pointer_states = View
  BY DEF Sends, WindowsInv, WindowsTypeOK, UnderWay
<1>2. /\ states_' = states_ /\ views' = views /\ windows' = windows /\ closed' = closed
      /\ pointer_states' = [pointer_states EXCEPT ![v] = Store(@, d, p)]
      /\ e \in RawData /\ Of(e, d, v) /\ e.change = change
      /\ a \in RawData /\ Adds(a, d, v)
      /\ inbox' = IF new THEN Append(Append(inbox, a), e) ELSE Append(inbox, e)
  <2>1. /\ UNCHANGED <<converterVars, windows, closed>>
        /\ pointer_states' = [pointer_states EXCEPT ![v] = Store(@, d, p)]
        /\ e \in RawData /\ Of(e, d, v) /\ e.change = change
        /\ a \in RawData /\ Adds(a, d, v)
        /\ inbox' = IF new THEN Append(Append(inbox, a), e) ELSE Append(inbox, e)
    <3>1. PostsPackets(v, d, t, change, at, pan)
      BY SendPosts
    <3> QED
      BY <3>1 DEF PostsPackets
  <2> QED
    BY <2>1 DEF converterVars
<1>3. /\ change \in Change \ {"add", "remove", "cancel"}
      /\ PointerOK(d, v, p)
      /\ viewport' \in [View -> {"ready", "running", "inertia"}]
      /\ \A w \in View \ {v} : viewport'[w] = viewport[w]
      /\ d \notin Trackpad => viewport' = viewport
      /\ ~new => WillBeIn(d, v)
      /\ Follows(IF new THEN "up" ELSE Local(d, v), change, m)
      /\ m = IF d \in Trackpad /\ viewport'[v] = "running" THEN "pan"
             ELSE IF t.flutter_state_is_down THEN "down" ELSE "up"
  BY DEF Sends
<1> HIDE DEF e, a, p
<1>4. PICK L : Traced(L)
  BY DEF WindowsInv
<1>5. /\ L[Len(inbox)][d][v] = Local(d, v)
      /\ InboxInv(states_, windows, L, inbox)
      /\ L[Len(inbox)] \in [Device -> [View -> Seeing]]
  BY <1>1, <1>4, AppendFacts DEF Traced, InboxInv
<1>6. m \in Seeing
  BY <1>3 DEF Seeing
<1>7. /\ inbox' \in Seq(RawData)
      /\ Current(states_, inbox', Len(inbox'), d, v)
      /\ \A x, w : x # d /\ Current(states_, inbox, Len(inbox), x, w)
                     => Current(states_, inbox', Len(inbox'), x, w)
      /\ \A x, u, w : (x # d \/ u # v) /\ Later(states_, inbox, Len(inbox), x, u, w)
                        => Later(states_, inbox', Len(inbox'), x, u, w)
      /\ \E M : /\ InboxInv(states_, windows, M, inbox')
                /\ M[Len(inbox')] = Sees(L[Len(inbox)], d, v, m)
  <2>1. new => L[Len(inbox)][d][v] = "none" /\ Follows("up", e.change, m)
    BY <1>2, <1>3, <1>5 DEF Local
  <2>2. ~new => /\ Current(states_, inbox, Len(inbox), d, v)
                /\ Follows(L[Len(inbox)][d][v], e.change, m)
    BY <1>2, <1>3, <1>5 DEF WillBeIn
  <2>3. new \in BOOLEAN /\ e.change \notin {"add", "remove"}
    BY <1>2, <1>3
  <2> HIDE DEF new
  <2>4. SendsEvent(states_, windows, L, inbox, d, v, new, a, e, m, inbox')
    BY <1>1, <1>2, <1>5, <1>6, <2>1, <2>2, <2>3 DEF SendsEvent
  <2> QED
    BY <2>4, SentPackets
<1>8. /\ DOMAIN pointer_states' = View
      /\ pointer_states'[v] = Store(pointer_states[v], d, p)
      /\ \A w \in View \ {v} : pointer_states'[w] = pointer_states[w]
  BY <1>1, <1>2
<1>9. /\ DOMAIN pointer_states'[v] = DOMAIN pointer_states[v] \cup {d}
      /\ pointer_states'[v][d] = p
      /\ \A x \in DOMAIN pointer_states[v] \ {d} : pointer_states'[v][x] = pointer_states[v][x]
  BY <1>8 DEF Store
<1>10. \A w \in View : \A x \in DOMAIN pointer_states'[w] :
         w \in windows /\ x \in Device /\ PointerOK(x, w, pointer_states'[w][x])
  BY <1>1, <1>3, <1>8, <1>9 DEF WindowsInv, WindowsTypeOK
<1>11. \A x \in Device : \A w \in windows :
         Local(x, w)' = IF x = d /\ w = v THEN m ELSE Local(x, w)
  <2> SUFFICES ASSUME NEW x \in Device, NEW w \in windows
               PROVE  Local(x, w)' = IF x = d /\ w = v THEN m ELSE Local(x, w)
    OBVIOUS
  <2>1. CASE w # v
    BY <1>1, <1>3, <1>8, <2>1 DEF Local
  <2>2. CASE w = v /\ x = d
    <3>1. p.flutter_state_is_down = t.flutter_state_is_down
      BY DEF p
    <3>2. Local(d, v)' = IF d \in Trackpad /\ viewport'[v] = "running" THEN "pan"
                         ELSE IF p.flutter_state_is_down THEN "down" ELSE "up"
      BY <1>9 DEF Local
    <3> QED
      BY <1>3, <2>2, <3>1, <3>2
  <2>3. CASE w = v /\ x # d
    <3>1. CASE x \notin DOMAIN pointer_states[v]
      BY <1>9, <2>3, <3>1 DEF Local
    <3>2. CASE x \in DOMAIN pointer_states[v]
      <4>1. PointerOK(x, v, pointer_states[v][x])
        BY <1>1, <3>2 DEF WindowsInv, WindowsTypeOK
      <4>2. x \in Trackpad => d \notin Trackpad
        BY <1>3, <2>3, <4>1 DEF PointerOK
      <4> QED
        BY <1>3, <1>9, <2>3, <3>2, <4>2 DEF Local
    <3> QED
      BY <3>1, <3>2
  <2> QED
    BY <2>1, <2>2, <2>3
<1>12. (\E M : Traced(M))'
  <2>1. PICK M : /\ InboxInv(states_, windows, M, inbox')
                 /\ M[Len(inbox')] = Sees(L[Len(inbox)], d, v, m)
    BY <1>7
  <2>2. \A x \in Device : \A w \in windows :
          M[Len(inbox')][x][w] = IF x = d /\ w = v THEN m ELSE L[Len(inbox)][x][w]
    BY <1>1, <1>5, <2>1 DEF Sees
  <2>3. \A x \in Device : \A w \in windows : M[Len(inbox')][x][w] = Local(x, w)'
    BY <1>4, <1>11, <2>2 DEF Traced
  <2>4. InboxInv(states_', windows', M, inbox')
    BY <1>2, <2>1
  <2> QED
    BY <1>2, <2>3, <2>4 DEF Traced
<1>13. UnderWay'
  <2>1. d \in Trackpad => d = TrackpadOf[v]
    BY <1>3 DEF PointerOK
  <2>2. PacketOK_(e, windows \cup closed) /\ PacketOK_(a, windows \cup closed)
    BY <1>1, <1>2, <1>3, <2>1 DEF PacketOK_, Of, Adds
  <2>3. \A i \in 1..Len(inbox) : PacketOK_(inbox[i], windows \cup closed)
    BY DEF WindowsInv, UnderWay
  <2>4. ASSUME NEW q \in Seq(RawData), NEW b \in RawData, PacketOK_(b, windows \cup closed),
               \A i \in 1..Len(q) : PacketOK_(q[i], windows \cup closed)
        PROVE  \A i \in 1..Len(Append(q, b)) : PacketOK_(Append(q, b)[i], windows \cup closed)
    <3>1. /\ Len(q) \in Nat /\ Len(Append(q, b)) = Len(q) + 1
          /\ \A i \in 1..Len(q) : Append(q, b)[i] = q[i]
          /\ Append(q, b)[Len(q) + 1] = b
      BY <2>4, AppendFacts
    <3>2. \A i \in 1..(Len(q) + 1) : i \in 1..Len(q) \/ i = Len(q) + 1
      BY <3>1
    <3> QED
      BY <2>4, <3>1, <3>2
  <2>5. \A i \in 1..Len(inbox') : PacketOK_(inbox'[i], windows \cup closed)
    <3>1. CASE ~new
      BY <1>1, <1>2, <2>2, <2>3, <2>4, <3>1
    <3>2. CASE new
      <4>1. Append(inbox, a) \in Seq(RawData)
        BY <1>1, <1>2, AppendFacts
      <4>2. \A i \in 1..Len(Append(inbox, a)) :
              PacketOK_(Append(inbox, a)[i], windows \cup closed)
        BY <1>1, <1>2, <2>2, <2>3, <2>4
      <4> QED
        BY <1>2, <2>2, <2>4, <3>2, <4>1, <4>2
    <3> QED
      BY <3>1, <3>2
  <2>6. \A x \in DOMAIN states_' : StateOf(x, states_'[x], windows \cup closed)
    BY <1>2 DEF WindowsInv, UnderWay
  <2> QED
    BY <1>2, <1>7, <2>5, <2>6 DEF UnderWay
<1>14. /\ WillBeIn(d, v)'
       /\ \A x, w : x # d /\ WillBeIn(x, w) => WillBeIn(x, w)'
       /\ \A u, w : (d # Mouse \/ u # v) /\ WillBeLater(u, w) => WillBeLater(u, w)'
  BY <1>2, <1>7 DEF WillBeIn, WillBeLater
<1> QED
  BY <1>2, <1>8, <1>9, <1>10, <1>12, <1>13, <1>14

(* The mouse in a window that knows it,                                    *)
LEMMA MouseSends ==
  ASSUME WindowsInv, over # NoView, NEW t, NEW change, NEW at, NEW pan, NEW m,
         Sends(over, Mouse, t, change, at, pan, m),
         UNCHANGED <<over, leaving, viewport>>
  PROVE  WindowsInv'
<1>1. /\ over' = over /\ leaving' = leaving /\ viewport' = viewport
      /\ windows' = windows /\ closed' = closed /\ views' = views
  BY SendKeeps
<1>2. UnderWay' /\ (\E L : Traced(L))'
  BY SendKeeps
<1>3. /\ DOMAIN pointer_states' = View
      /\ \A w \in View :
           DOMAIN pointer_states'[w] = IF w = over THEN DOMAIN pointer_states[over] \cup {Mouse}
                                       ELSE DOMAIN pointer_states[w]
      /\ \A w \in View : \A x \in DOMAIN pointer_states'[w] :
           w \in windows /\ x \in Device /\ PointerOK(x, w, pointer_states'[w][x])
  BY SendKeeps
<1>4. /\ WillBeIn(Mouse, over)'
      /\ \A x, w : x # Mouse /\ WillBeIn(x, w) => WillBeIn(x, w)'
      /\ \A u, w : u # over /\ WillBeLater(u, w) => WillBeLater(u, w)'
  BY SendKeeps
<1>5. over \in windows /\ over \in View /\ Mouse \in DOMAIN pointer_states[over]
  BY DEF WindowsInv, WindowsTypeOK, DevicesOK, MouseIsIn
<1>6. \A w \in View : DOMAIN pointer_states'[w] = DOMAIN pointer_states[w]
  BY <1>3, <1>5
<1>7. WindowsTypeOK'
  BY <1>1, <1>3 DEF WindowsInv, WindowsTypeOK
<1>8. DevicesOK'
  BY <1>1, <1>6 DEF WindowsInv, DevicesOK, MouseIsIn, Touched
<1>9. Placed'
  <2>1. \A v \in View : \A d \in DOMAIN pointer_states'[v] \ {Mouse} : WillBeIn(d, v)'
    BY <1>4, <1>6 DEF WindowsInv, Placed
  <2>2. \A j \in DOMAIN leaving : \A i \in 1..(j - 1) : WillBeLater(leaving[i], leaving[j])'
    <3> SUFFICES ASSUME NEW j \in DOMAIN leaving, NEW i \in 1..(j - 1)
                 PROVE  WillBeLater(leaving[i], leaving[j])'
      OBVIOUS
    <3>1. WillBeLater(leaving[i], leaving[j])
      BY DEF WindowsInv, Placed
    <3>2. i \in DOMAIN leaving
      BY DEF WindowsInv, WindowsTypeOK
    <3>3. leaving[i] # over
      BY <3>2 DEF WindowsInv, DevicesOK
    <3> QED
      BY <1>4, <3>1, <3>3
  <2> QED
    BY <1>1, <1>4, <2>1, <2>2 DEF Placed
<1> QED
  BY <1>2, <1>7, <1>8, <1>9 DEF WindowsInv

(* and the other devices.                                                  *)
LEMMA OtherSends ==
  ASSUME WindowsInv, NEW v, NEW d, d # Mouse, NEW t, NEW change, NEW at, NEW pan, NEW m,
         Sends(v, d, t, change, at, pan, m),
         over' = over, leaving' = leaving,
         d = Touch => \A w \in View : Touched(w) => w = v,
         viewport'[v] = "running" => d = TrackpadOf[v] \/ viewport[v] = "running"
  PROVE  WindowsInv'
<1>1. /\ windows' = windows /\ closed' = closed /\ views' = views
      /\ viewport' \in [View -> {"ready", "running", "inertia"}]
      /\ \A w \in View \ {v} : viewport'[w] = viewport[w]
      /\ v \in windows /\ v \in View
  BY SendKeeps DEF Sends, WindowsInv, WindowsTypeOK
<1>2. UnderWay' /\ (\E L : Traced(L))'
  BY SendKeeps
<1>3. /\ DOMAIN pointer_states' = View
      /\ \A w \in View :
           DOMAIN pointer_states'[w] = IF w = v THEN DOMAIN pointer_states[v] \cup {d}
                                       ELSE DOMAIN pointer_states[w]
      /\ \A w \in View : \A x \in DOMAIN pointer_states'[w] :
           w \in windows /\ x \in Device /\ PointerOK(x, w, pointer_states'[w][x])
  BY SendKeeps
<1>4. /\ WillBeIn(d, v)'
      /\ \A x, w : x # d /\ WillBeIn(x, w) => WillBeIn(x, w)'
      /\ \A u, w : WillBeLater(u, w) => WillBeLater(u, w)'
  BY SendKeeps
<1>5. WindowsTypeOK'
  BY <1>1, <1>3 DEF WindowsInv, WindowsTypeOK
<1>6. DevicesOK'
  <2>1. \A w \in View : Mouse \in DOMAIN pointer_states'[w] <=> Mouse \in DOMAIN pointer_states[w]
    BY <1>3
  <2>2. \A w, u \in View : Touched(w)' /\ Touched(u)' => w = u
    <3>1. CASE d = Touch
      BY <1>3, <3>1 DEF Touched
    <3>2. CASE d # Touch
      BY <1>3, <3>2 DEF Touched, WindowsInv, DevicesOK
    <3> QED
      BY <3>1, <3>2
  <2>3. \A w \in View : viewport'[w] = "running" => TrackpadOf[w] \in DOMAIN pointer_states'[w]
    BY <1>1, <1>3 DEF WindowsInv, DevicesOK
  <2> QED
    BY <1>1, <2>1, <2>2, <2>3 DEF WindowsInv, DevicesOK, MouseIsIn
<1>7. Placed'
  <2>1. \A w \in View : \A x \in DOMAIN pointer_states'[w] \ {Mouse} : WillBeIn(x, w)'
    <3> SUFFICES ASSUME NEW w \in View, NEW x \in DOMAIN pointer_states'[w] \ {Mouse}
                 PROVE  WillBeIn(x, w)'
      OBVIOUS
    <3>1. CASE x # d
      <4>1. x \in DOMAIN pointer_states[w]
        BY <1>3, <3>1
      <4> QED
        BY <1>4, <3>1, <4>1 DEF WindowsInv, Placed
    <3>2. CASE x = d /\ w = v
      BY <1>4, <3>2
    <3>3. CASE x = d /\ w # v
      <4>1. x \in DOMAIN pointer_states[w]
        BY <1>3, <3>3
      <4>2. PointerOK(d, w, pointer_states'[w][d]) /\ PointerOK(d, v, pointer_states'[v][d])
        BY <1>1, <1>3, <3>3
      <4>3. d # Touch
        BY <3>3, <4>1 DEF Touched
      <4>4. TrackpadOf[w] = TrackpadOf[v]
        BY <4>2, <4>3 DEF PointerOK
      <4> QED
        BY <1>1, <3>3, <4>4, WindowsAssumption
    <3> QED
      BY <3>1, <3>2, <3>3
  <2>2. over # NoView => WillBeIn(Mouse, over)'
    BY <1>4 DEF WindowsInv, Placed
  <2>3. \A j \in DOMAIN leaving : \A i \in 1..(j - 1) : WillBeLater(leaving[i], leaving[j])'
    BY <1>4 DEF WindowsInv, Placed
  <2> QED
    BY <2>1, <2>2, <2>3 DEF Placed
<1> QED
  BY <1>2, <1>5, <1>6, <1>7 DEF WindowsInv

-----------------------------------------------------------------------------
(* The events a window sends are ones that it may send.                    *)

LEMMA PointersAreKept ==
  ASSUME WindowsInv, NEW v \in windows, NEW d \in {Mouse, Touch}
  PROVE  LET s == GetOrCreatePointerState(v, d)
         IN /\ s \in Pointer
            /\ s.flutter_state_is_down <=> s.buttons # {}
            /\ s.flutter_state_is_added <=> d \in DOMAIN pointer_states[v]
            /\ d = Touch /\ d \in DOMAIN pointer_states[v] => s.buttons = {Left}
            /\ d \notin DOMAIN pointer_states[v] => s.buttons = {}
            /\ d \in DOMAIN pointer_states[v] =>
                 Local(d, v) = IF s.flutter_state_is_down THEN "down" ELSE "up"
            /\ d \in Device /\ d \notin Trackpad
<1>1. d \in Device /\ d \notin Trackpad /\ v \in View
  BY WindowsAssumption DEF WindowsInv, WindowsTypeOK
<1>2. CASE d \in DOMAIN pointer_states[v]
  <2>1. PointerOK(d, v, pointer_states[v][d])
    BY <1>1, <1>2 DEF WindowsInv, WindowsTypeOK
  <2> QED
    BY <1>1, <1>2, <2>1 DEF GetOrCreatePointerState, PointerOK, Local
<1>3. CASE d \notin DOMAIN pointer_states[v]
  BY <1>1, <1>3 DEF GetOrCreatePointerState, Pointer
<1> QED
  BY <1>2, <1>3

(* A mouse or touch event is of the state s, which leaves state t.         *)
LEMMA PointerSends ==
  ASSUME WindowsInv, NEW v \in windows, NEW d \in {Mouse, Touch}, NEW at \in Place,
         NEW s, NEW t, NEW change \in {"hover", "down", "move", "up", "signal"},
         s.flutter_state_is_added <=> d \in DOMAIN pointer_states[v],
         Send(v, d, s, t, change, at, 0),
         t \in Pointer, t.flutter_state_is_down <=> t.buttons # {},
         d = Touch => t.buttons = {Left},
         viewport' = viewport,
         d \in DOMAIN pointer_states[v] => WillBeIn(d, v),
         Follows(IF d \in DOMAIN pointer_states[v] THEN Local(d, v) ELSE "up", change,
                 IF t.flutter_state_is_down THEN "down" ELSE "up")
  PROVE  \E m : Sends(v, d, t, change, at, 0, m)
<1> DEFINE g == GetOrCreatePointerState(v, d)
           m == IF t.flutter_state_is_down THEN "down" ELSE "up"
<1>1. /\ g.flutter_state_is_added <=> d \in DOMAIN pointer_states[v]
      /\ d \in Device /\ d \notin Trackpad /\ v \in View
  BY PointersAreKept DEF WindowsInv, WindowsTypeOK
<1>2. Packets(v, d, g, change, at, 0) = Packets(v, d, s, change, at, 0)
  BY <1>1 DEF Packets
<1>3. Send(v, d, g, t, change, at, 0)
  BY <1>2 DEF Send
<1>4. Raw(change, d, v, at, 0) \in RawData
  BY <1>1, RawEvent DEF Change
<1>5. PointerOK(d, v, [t EXCEPT !.flutter_state_is_added = TRUE])
  BY <1>1 DEF PointerOK, Pointer
<1>6. viewport' \in [View -> {"ready", "running", "inertia"}]
  BY DEF WindowsInv, WindowsTypeOK
<1>7. change \in Change \ {"add", "remove", "cancel"}
  BY DEF Change
<1>8. Sends(v, d, t, change, at, 0, m)
  BY <1>1, <1>3, <1>4, <1>5, <1>6, <1>7 DEF Sends
<1> QED
  BY <1>8

(* SendPointerMove                                                         *)
LEMMA MoveSends ==
  ASSUME WindowsInv, NEW v \in windows, NEW d \in {Mouse, Touch}, NEW at \in Place,
         SendPointerMove(v, d, at), viewport' = viewport,
         d \in DOMAIN pointer_states[v] => WillBeIn(d, v),
         d = Touch => d \in DOMAIN pointer_states[v]
  PROVE  \E t, change, m : Sends(v, d, t, change, at, 0, m)
<1> DEFINE s == GetOrCreatePointerState(v, d)
<1>1. /\ s \in Pointer
      /\ s.flutter_state_is_down <=> s.buttons # {}
      /\ s.flutter_state_is_added <=> d \in DOMAIN pointer_states[v]
      /\ d = Touch => s.buttons = {Left}
      /\ d \notin DOMAIN pointer_states[v] => s.buttons = {}
      /\ d \in DOMAIN pointer_states[v] =>
           Local(d, v) = IF s.flutter_state_is_down THEN "down" ELSE "up"
  BY PointersAreKept
<1>2. Send(v, d, s, s, Phase(s), at, 0)
  BY DEF SendPointerMove
<1> HIDE DEF s
<1>3. /\ s.flutter_state_is_down => Phase(s) = "move"
      /\ ~s.flutter_state_is_down => Phase(s) = "hover"
  BY <1>1 DEF Phase
<1>4. Follows(IF d \in DOMAIN pointer_states[v] THEN Local(d, v) ELSE "up", Phase(s),
              IF s.flutter_state_is_down THEN "down" ELSE "up")
  BY <1>1, <1>3 DEF Follows
<1>5. Phase(s) \in {"hover", "down", "move", "up", "signal"}
  BY <1>1, <1>3 DEF Pointer
<1> QED
  BY <1>1, <1>2, <1>4, <1>5, PointerSends

(* SendPointerDown                                                         *)
LEMMA DownSends ==
  ASSUME WindowsInv, NEW v \in windows, NEW d \in {Mouse, Touch}, NEW at \in Place,
         NEW button \in Button,
         SendPointerDown(v, d, button, at), viewport' = viewport,
         d \in DOMAIN pointer_states[v] => WillBeIn(d, v),
         d = Touch => button = Left /\ d \notin DOMAIN pointer_states[v]
  PROVE  \E t, change, m : Sends(v, d, t, change, at, 0, m)
<1> DEFINE g == GetOrCreatePointerState(v, d)
           s == [g EXCEPT !.buttons = @ \cup {button}]
           t == [s EXCEPT !.flutter_state_is_down = TRUE]
<1>1. /\ g \in Pointer
      /\ g.flutter_state_is_down <=> g.buttons # {}
      /\ g.flutter_state_is_added <=> d \in DOMAIN pointer_states[v]
      /\ d \notin DOMAIN pointer_states[v] => g.buttons = {}
      /\ d \in DOMAIN pointer_states[v] =>
           Local(d, v) = IF g.flutter_state_is_down THEN "down" ELSE "up"
  BY PointersAreKept
<1>2. Send(v, d, s, t, Phase(s), at, 0)
  BY DEF SendPointerDown
<1> HIDE DEF g
<1>3. /\ s \in Pointer /\ s.buttons = g.buttons \cup {button}
      /\ s.flutter_state_is_down = g.flutter_state_is_down
      /\ s.flutter_state_is_added = g.flutter_state_is_added
      /\ t \in Pointer /\ t.flutter_state_is_down /\ t.buttons = g.buttons \cup {button}
  BY <1>1 DEF Pointer
<1> HIDE DEF s, t
<1>4. /\ g.flutter_state_is_down => Phase(s) = "move"
      /\ ~g.flutter_state_is_down => Phase(s) = "down"
  BY <1>3 DEF Phase
<1>5. Follows(IF d \in DOMAIN pointer_states[v] THEN Local(d, v) ELSE "up", Phase(s),
              IF t.flutter_state_is_down THEN "down" ELSE "up")
  BY <1>1, <1>3, <1>4 DEF Follows
<1>6. Phase(s) \in {"hover", "down", "move", "up", "signal"}
  BY <1>1, <1>4 DEF Pointer
<1>7. d = Touch => t.buttons = {Left}
  BY <1>1, <1>3
<1>8. t.flutter_state_is_down <=> t.buttons # {}
  BY <1>3
<1>9. s.flutter_state_is_added <=> d \in DOMAIN pointer_states[v]
  BY <1>1, <1>3
<1> QED
  BY <1>2, <1>3, <1>5, <1>6, <1>7, <1>8, <1>9, PointerSends

(* SendPointerUp of the mouse: with the last button it is up.              *)
LEMMA UpSends ==
  ASSUME WindowsInv, NEW v \in windows, NEW at \in Place, NEW button \in Button,
         SendPointerUp(v, Mouse, button, at), viewport' = viewport,
         WillBeIn(Mouse, v), Mouse \in DOMAIN pointer_states[v]
  PROVE  \E t, change, m : Sends(v, Mouse, t, change, at, 0, m)
<1> DEFINE g == GetOrCreatePointerState(v, Mouse)
           s == [g EXCEPT !.buttons = @ \ {button}]
           down == s.flutter_state_is_down /\ Phase(s) # "up"
           t == [s EXCEPT !.flutter_state_is_down = down]
<1>1. /\ g \in Pointer
      /\ g.flutter_state_is_down <=> g.buttons # {}
      /\ g.flutter_state_is_added <=> Mouse \in DOMAIN pointer_states[v]
      /\ Local(Mouse, v) = IF g.flutter_state_is_down THEN "down" ELSE "up"
  BY PointersAreKept
<1>2. Send(v, Mouse, s, t, Phase(s), at, 0)
  BY DEF SendPointerUp
<1> HIDE DEF g
<1>3. /\ s \in Pointer /\ s.buttons = g.buttons \ {button}
      /\ s.flutter_state_is_down = g.flutter_state_is_down
      /\ s.flutter_state_is_added = g.flutter_state_is_added
  BY <1>1 DEF Pointer
<1>4. /\ down \in BOOLEAN
      /\ down <=> s.flutter_state_is_down /\ Phase(s) # "up"
  BY <1>3 DEF Pointer
<1>5. t \in Pointer /\ t.flutter_state_is_down = down /\ t.buttons = s.buttons
  BY <1>3, <1>4 DEF Pointer
<1> HIDE DEF s, t, down
<1>6. /\ s.buttons = {} /\ g.flutter_state_is_down => Phase(s) = "up"
      /\ s.buttons = {} /\ ~g.flutter_state_is_down => Phase(s) = "hover"
      /\ s.buttons # {} => Phase(s) = "move" /\ g.flutter_state_is_down
  BY <1>1, <1>3 DEF Phase
<1>7. down <=> s.buttons # {}
  BY <1>3, <1>4, <1>6
<1>8. Follows(IF Mouse \in DOMAIN pointer_states[v] THEN Local(Mouse, v) ELSE "up", Phase(s),
              IF t.flutter_state_is_down THEN "down" ELSE "up")
  BY <1>1, <1>5, <1>6, <1>7 DEF Follows
<1>9. Phase(s) \in {"hover", "down", "move", "up", "signal"}
  BY <1>6
<1>10. t.flutter_state_is_down <=> t.buttons # {}
  BY <1>5, <1>7
<1>11. s.flutter_state_is_added <=> Mouse \in DOMAIN pointer_states[v]
  BY <1>1, <1>3
<1> QED
  BY <1>2, <1>5, <1>8, <1>9, <1>10, <1>11, PointerSends, WindowsAssumption

(* SendScroll of the mouse                                                 *)
LEMMA ScrollSends ==
  ASSUME WindowsInv, NEW v \in windows, NEW at \in Place,
         SendSignal(v, Mouse, at), viewport' = viewport,
         WillBeIn(Mouse, v), Mouse \in DOMAIN pointer_states[v]
  PROVE  \E t, change, m : Sends(v, Mouse, t, change, at, 0, m)
<1> DEFINE s == GetOrCreatePointerState(v, Mouse)
<1>1. /\ s \in Pointer
      /\ s.flutter_state_is_down <=> s.buttons # {}
      /\ s.flutter_state_is_added <=> Mouse \in DOMAIN pointer_states[v]
      /\ Local(Mouse, v) = IF s.flutter_state_is_down THEN "down" ELSE "up"
  BY PointersAreKept
<1>2. Send(v, Mouse, s, s, "signal", at, 0)
  BY DEF SendSignal
<1> HIDE DEF s
<1>3. Follows(IF Mouse \in DOMAIN pointer_states[v] THEN Local(Mouse, v) ELSE "up", "signal",
              IF s.flutter_state_is_down THEN "down" ELSE "up")
  BY <1>1 DEF Follows
<1> QED
  BY <1>1, <1>2, <1>3, PointerSends, WindowsAssumption

-----------------------------------------------------------------------------
(* The mouse.                                                              *)

LEMMA MouseIsOver ==
  ASSUME WindowsInv, over # NoView
  PROVE  /\ over \in windows /\ over \in View
         /\ Mouse \in DOMAIN pointer_states[over] /\ WillBeIn(Mouse, over)
BY DEF WindowsInv, WindowsTypeOK, DevicesOK, MouseIsIn, Placed

LEMMA MouseKeeps ==
  ASSUME WindowsInv, NEW at \in Place, NEW button \in Button, WheelToFocus = FALSE,
         OnMouseMove(at) \/ OnMouseDown(button, at) \/ OnMouseUp(button, at) \/ OnScroll(at)
  PROVE  WindowsInv'
<1>1. over # NoView /\ UNCHANGED <<over, leaving, viewport>>
  BY WindowsAssumption DEF WindowsInv, WindowsTypeOK, OnMouseMove, OnMouseDown, OnMouseUp, OnScroll
<1>2. /\ over \in windows /\ Mouse \in DOMAIN pointer_states[over] /\ WillBeIn(Mouse, over)
      /\ Mouse \in {Mouse, Touch} /\ Mouse # Touch
  BY <1>1, MouseIsOver, WindowsAssumption
<1>3. \E t, change, m : Sends(over, Mouse, t, change, at, 0, m)
  <2>1. CASE OnMouseMove(at)
    BY <1>1, <1>2, <2>1, MoveSends DEF OnMouseMove
  <2>2. CASE OnMouseDown(button, at)
    BY <1>1, <1>2, <2>2, DownSends DEF OnMouseDown
  <2>3. CASE OnMouseUp(button, at)
    BY <1>1, <1>2, <2>3, UpSends DEF OnMouseUp
  <2>4. CASE OnScroll(at)
    BY <1>1, <1>2, <2>4, ScrollSends DEF OnScroll
  <2> QED
    BY <2>1, <2>2, <2>3, <2>4
<1> QED
  BY <1>1, <1>3, MouseSends

LEMMA MouseEntersKeeps ==
  ASSUME WindowsInv, NEW at \in Place, NEW v \in View, MouseEnters(v, at)
  PROVE  WindowsInv'
<1>1. /\ v \in windows /\ v # over /\ \A i \in DOMAIN leaving : leaving[i] # v
      /\ over' = v /\ viewport' = viewport
      /\ leaving' = (IF over = NoView THEN leaving ELSE Append(leaving, over))
      /\ SendPointerMove(v, Mouse, at)
  BY DEF MouseEnters
<1>2. Mouse \notin DOMAIN pointer_states[v] /\ v # NoView
  BY <1>1, WindowsAssumption DEF WindowsInv, DevicesOK, MouseIsIn
<1>3. PICK t, change, m : Sends(v, Mouse, t, change, at, 0, m)
  BY <1>1, <1>2, MoveSends, WindowsAssumption
<1>4. /\ windows' = windows /\ closed' = closed /\ views' = views
      /\ UnderWay' /\ (\E L : Traced(L))'
  BY <1>3, SendKeeps
<1>5. /\ DOMAIN pointer_states' = View
      /\ \A w \in View :
           DOMAIN pointer_states'[w] = IF w = v THEN DOMAIN pointer_states[v] \cup {Mouse}
                                       ELSE DOMAIN pointer_states[w]
      /\ \A w \in View : \A x \in DOMAIN pointer_states'[w] :
           w \in windows /\ x \in Device /\ PointerOK(x, w, pointer_states'[w][x])
  BY <1>3, SendKeeps
<1>6. /\ WillBeIn(Mouse, v)'
      /\ \A x, w : x # Mouse /\ WillBeIn(x, w) => WillBeIn(x, w)'
      /\ \A u, w : u # v /\ WillBeLater(u, w) => WillBeLater(u, w)'
  BY <1>3, SendKeeps
<1>7. /\ leaving \in Seq(windows) /\ Len(leaving) \in Nat
      /\ DOMAIN leaving = 1..Len(leaving)
      /\ over \in windows \cup {NoView} /\ NoView \notin windows /\ windows \subseteq View
  BY WindowsAssumption DEF WindowsInv, WindowsTypeOK
<1>8. /\ over = NoView => leaving' = leaving
      /\ over # NoView =>
           /\ leaving' \in Seq(windows) /\ DOMAIN leaving' = 1..(Len(leaving) + 1)
           /\ \A i \in 1..Len(leaving) : leaving'[i] = leaving[i]
           /\ leaving'[Len(leaving) + 1] = over
  <2>1. over \in windows =>
          /\ Append(leaving, over) \in Seq(windows)
          /\ Len(Append(leaving, over)) = Len(leaving) + 1
          /\ \A i \in 1..Len(leaving) : Append(leaving, over)[i] = leaving[i]
          /\ Append(leaving, over)[Len(leaving) + 1] = over
    BY <1>7, AppendProperties
  <2>2. over \in windows => DOMAIN Append(leaving, over) = 1..(Len(leaving) + 1)
    BY <2>1
  <2> DEFINE longer == Append(leaving, over)
  <2> HIDE DEF longer
  <2>3. over # NoView => leaving' = longer /\ over \in windows
    BY <1>1, <1>7 DEF longer
  <2> QED
    BY <1>1, <2>1, <2>2, <2>3 DEF longer
<1>9. WindowsTypeOK'
  <2>1. leaving' \in Seq(windows)
    BY <1>7, <1>8
  <2> QED
    BY <1>1, <1>4, <1>5, <2>1 DEF WindowsInv, WindowsTypeOK
<1>10. \A i, j \in DOMAIN leaving : leaving[i] # over /\ (i # j => leaving[i] # leaving[j])
  BY DEF WindowsInv, DevicesOK
<1>11. DevicesOK'
  <2>1. \A w \in View : Mouse \in DOMAIN pointer_states'[w] <=> w \in windows' /\ MouseIsIn(w)'
    <3> SUFFICES ASSUME NEW w \in View
                 PROVE  Mouse \in DOMAIN pointer_states'[w] <=> w \in windows /\ MouseIsIn(w)'
      BY <1>4
    <3>1. CASE w = v
      BY <1>1, <1>5, <3>1 DEF MouseIsIn
    <3>2. CASE w # v
      <4>1. Mouse \in DOMAIN pointer_states'[w] <=> w \in windows /\ MouseIsIn(w)
        BY <1>5, <3>2 DEF WindowsInv, DevicesOK
      <4>2. MouseIsIn(w)' <=> \E i \in DOMAIN leaving' : leaving'[i] = w
        BY <1>1, <3>2 DEF MouseIsIn
      <4>3. CASE over = NoView
        BY <1>7, <1>8, <4>1, <4>2, <4>3 DEF MouseIsIn
      <4>4. CASE over # NoView
        <5>1. DOMAIN leaving' = DOMAIN leaving \cup {Len(leaving) + 1}
          BY <1>7, <1>8, <4>4
        <5> QED
          BY <1>7, <1>8, <4>1, <4>2, <4>4, <5>1 DEF MouseIsIn
      <4> QED
        BY <4>3, <4>4
    <3> QED
      BY <3>1, <3>2
  <2>2. \A i, j \in DOMAIN leaving' : leaving'[i] # over' /\ (i # j => leaving'[i] # leaving'[j])
    <3>1. CASE over = NoView
      BY <1>1, <1>8, <1>10, <3>1
    <3>2. CASE over # NoView
      <4>1. \A i \in DOMAIN leaving' :
              \/ i \in DOMAIN leaving /\ leaving'[i] = leaving[i]
              \/ i = Len(leaving) + 1 /\ leaving'[i] = over
        BY <1>7, <1>8, <3>2
      <4> QED
        BY <1>1, <1>10, <4>1
    <3> QED
      BY <3>1, <3>2
  <2>3. \A w \in View : /\ Touch \in DOMAIN pointer_states'[w] <=> Touch \in DOMAIN pointer_states[w]
                        /\ DOMAIN pointer_states[w] \subseteq DOMAIN pointer_states'[w]
    BY <1>5, WindowsAssumption
  <2>4. /\ \A w, u \in View : Touched(w)' /\ Touched(u)' => w = u
        /\ \A w \in View : viewport'[w] = "running" => TrackpadOf[w] \in DOMAIN pointer_states'[w]
    BY <1>1, <2>3 DEF WindowsInv, DevicesOK, Touched
  <2> QED
    BY <2>1, <2>2, <2>4 DEF DevicesOK
<1>12. Placed'
  <2>1. \A w \in View : \A d \in DOMAIN pointer_states'[w] \ {Mouse} : WillBeIn(d, w)'
    BY <1>5, <1>6 DEF WindowsInv, Placed
  <2>2. \A j \in DOMAIN leaving : \A i \in 1..(j - 1) :
          \A u, w : u = leaving[i] /\ w = leaving[j] => WillBeLater(u, w)'
    <3> SUFFICES ASSUME NEW j \in DOMAIN leaving, NEW i \in 1..(j - 1),
                        NEW u, NEW w, u = leaving[i], w = leaving[j]
                 PROVE  WillBeLater(u, w)'
      OBVIOUS
    <3>1. WillBeLater(u, w)
      BY DEF WindowsInv, Placed
    <3>2. i \in DOMAIN leaving
      BY <1>7
    <3> QED
      BY <1>1, <1>6, <3>1, <3>2
  <2>3. over # NoView => \A i \in DOMAIN leaving :
          \A u, w : u = leaving[i] /\ w = over => WillBeLater(u, w)'
    <3> SUFFICES ASSUME over # NoView, NEW i \in DOMAIN leaving,
                        NEW u, NEW w, u = leaving[i], w = over
                 PROVE  WillBeLater(u, w)'
      OBVIOUS
    <3>1. WillBeIn(Mouse, w) /\ u # w
      BY <1>10 DEF WindowsInv, Placed
    <3>2. WillBeLater(u, w)
      BY <3>1, CurrentIsLater DEF WillBeIn, WillBeLater
    <3> QED
      BY <1>1, <1>6, <3>2
  <2>4. \A j \in DOMAIN leaving' : \A i \in 1..(j - 1) : WillBeLater(leaving[i], leaving[j])'
    <3> SUFFICES ASSUME NEW j \in DOMAIN leaving', NEW i \in 1..(j - 1)
                 PROVE  WillBeLater(leaving[i], leaving[j])'
      OBVIOUS
    <3>1. CASE over = NoView \/ j # Len(leaving) + 1
      <4>1. /\ j \in DOMAIN leaving /\ i \in DOMAIN leaving
            /\ leaving'[j] = leaving[j] /\ leaving'[i] = leaving[i]
        BY <1>7, <1>8, <3>1
      <4> QED
        BY <2>2, <4>1 DEF WillBeLater
    <3>2. CASE over # NoView /\ j = Len(leaving) + 1
      <4>1. i \in DOMAIN leaving /\ leaving'[j] = over /\ leaving'[i] = leaving[i]
        BY <1>7, <1>8, <3>2
      <4> QED
        BY <2>3, <3>2, <4>1 DEF WillBeLater
    <3> QED
      BY <3>1, <3>2
  <2> QED
    BY <1>1, <1>6, <2>1, <2>4 DEF Placed, WillBeIn
<1> QED
  BY <1>4, <1>9, <1>11, <1>12 DEF WindowsInv

LEMMA MouseExitsKeeps ==
  ASSUME WindowsInv, MouseExits
  PROVE  WindowsInv'
<1>1. /\ over # NoView /\ over' = NoView /\ leaving' = Append(leaving, over)
      /\ UNCHANGED <<windows, closed, pointer_states, viewport, inbox>>
      /\ states_' = states_ /\ views' = views
  BY DEF MouseExits, converterVars
<1>2. /\ over \in windows /\ over \in View /\ WillBeIn(Mouse, over)
  BY <1>1, MouseIsOver
<1>3. /\ leaving \in Seq(windows) /\ Len(leaving) \in Nat
      /\ DOMAIN leaving = 1..Len(leaving) /\ NoView \notin windows
  BY WindowsAssumption DEF WindowsInv, WindowsTypeOK
<1>4. /\ leaving' \in Seq(windows) /\ DOMAIN leaving' = 1..(Len(leaving) + 1)
      /\ \A i \in 1..Len(leaving) : leaving'[i] = leaving[i]
      /\ leaving'[Len(leaving) + 1] = over
  BY <1>1, <1>2, <1>3, AppendProperties
<1>5. \A i \in DOMAIN leaving' :
        \/ i \in DOMAIN leaving /\ leaving'[i] = leaving[i]
        \/ i = Len(leaving) + 1 /\ leaving'[i] = over
  BY <1>3, <1>4
<1>6. \A i, j \in DOMAIN leaving : leaving[i] # over /\ (i # j => leaving[i] # leaving[j])
  BY DEF WindowsInv, DevicesOK
<1>7. WindowsTypeOK'
  BY <1>1, <1>4 DEF WindowsInv, WindowsTypeOK
<1>8. DevicesOK'
  <2>1. \A w \in windows : MouseIsIn(w)' <=> MouseIsIn(w)
    <3> SUFFICES ASSUME NEW w \in windows
                 PROVE  MouseIsIn(w)' <=> MouseIsIn(w)
      OBVIOUS
    <3>1. MouseIsIn(w)' <=> \E i \in DOMAIN leaving' : leaving'[i] = w
      BY <1>1, <1>3 DEF MouseIsIn
    <3>2. DOMAIN leaving' = DOMAIN leaving \cup {Len(leaving) + 1}
      BY <1>3, <1>4
    <3> QED
      BY <1>3, <1>4, <3>1, <3>2 DEF MouseIsIn
  <2>2. \A w \in View : Mouse \in DOMAIN pointer_states'[w] <=> w \in windows' /\ MouseIsIn(w)'
    BY <1>1, <2>1 DEF WindowsInv, DevicesOK
  <2>3. \A i, j \in DOMAIN leaving' : leaving'[i] # over' /\ (i # j => leaving'[i] # leaving'[j])
    <3>1. \A i \in DOMAIN leaving' : leaving'[i] \in windows
      BY <1>2, <1>3, <1>5
    <3> QED
      BY <1>1, <1>3, <1>5, <1>6, <3>1
  <2> QED
    BY <1>1, <2>2, <2>3 DEF WindowsInv, DevicesOK, Touched
<1>9. UnderWay'
  BY <1>1 DEF WindowsInv, UnderWay
<1>10. (\E L : Traced(L))'
  <2>1. PICK L : Traced(L)
    BY DEF WindowsInv
  <2>2. Traced(L)'
    BY <1>1, <2>1 DEF Traced, Local
  <2> QED
    BY <2>2
<1>11. Placed'
  <2>1. \A u, w : WillBeLater(u, w)' <=> WillBeLater(u, w)
    BY <1>1 DEF WillBeLater
  <2>2. \A d, w : WillBeIn(d, w)' <=> WillBeIn(d, w)
    BY <1>1 DEF WillBeIn
  <2>3. \A j \in DOMAIN leaving' : \A i \in 1..(j - 1) :
          \A u, w : u = leaving'[i] /\ w = leaving'[j] => WillBeLater(u, w)
    <3> SUFFICES ASSUME NEW j \in DOMAIN leaving', NEW i \in 1..(j - 1),
                        NEW u, NEW w, u = leaving'[i], w = leaving'[j]
                 PROVE  WillBeLater(u, w)
      OBVIOUS
    <3>1. i \in DOMAIN leaving /\ leaving'[i] = leaving[i]
      BY <1>3, <1>4
    <3>2. CASE j \in DOMAIN leaving /\ leaving'[j] = leaving[j]
      BY <3>1, <3>2 DEF WindowsInv, Placed
    <3>3. CASE leaving'[j] = over
      <4>1. u # w /\ WillBeIn(Mouse, w)
        BY <1>2, <1>6, <3>1, <3>3
      <4> QED
        BY <4>1, CurrentIsLater DEF WillBeIn, WillBeLater
    <3> QED
      BY <1>5, <3>2, <3>3
  <2>4. \A j \in DOMAIN leaving' : \A i \in 1..(j - 1) : WillBeLater(leaving[i], leaving[j])'
    BY <2>1, <2>3 DEF WillBeLater
  <2> QED
    BY <1>1, <2>2, <2>4 DEF WindowsInv, Placed
<1> QED
  BY <1>7, <1>8, <1>9, <1>10, <1>11 DEF WindowsInv

-----------------------------------------------------------------------------
(* A device leaves window v, which knew it, by the last of the packets.    *)
Leaves(v, d, at, L, q) ==
  /\ v \in windows /\ d \in {Mouse, Touch} /\ at \in Place
  /\ q \in Seq(RawData) /\ InboxInv(states_, windows, L, q)
  /\ \A i \in 1..Len(q) : PacketOK_(q[i], windows \cup closed)
  /\ L[Len(q)][d][v] \in {"up", "down"}
  /\ \A x \in Device : \A w \in windows :
       ~(x = d /\ w = v) => L[Len(q)][x][w] = Local(x, w)
  /\ \A w \in windows \ {v} :
       d \in DOMAIN pointer_states[w] => Later(states_, q, Len(q), d, v, w)
  /\ \A x, w : WillBeIn(x, w) => Current(states_, q, Len(q), x, w)
  /\ \A u, w : WillBeLater(u, w) => Later(states_, q, Len(q), Mouse, u, w)
  /\ inbox' = Append(q, Raw("remove", d, v, at, 0))
  /\ pointer_states' = [pointer_states EXCEPT ![v] = Drop(@, d)]
  /\ UNCHANGED <<converterVars, windows, closed, viewport>>

LEMMA LeaveKeeps ==
  ASSUME WindowsInv, NEW v, NEW d, NEW at, NEW L, NEW q, Leaves(v, d, at, L, q)
  PROVE  /\ windows' = windows /\ closed' = closed /\ views' = views
         /\ UnderWay'
         /\ (\E M : Traced(M))'
         /\ DOMAIN pointer_states' = View
         /\ \A w \in View :
              DOMAIN pointer_states'[w] = IF w = v THEN DOMAIN pointer_states[v] \ {d}
                                          ELSE DOMAIN pointer_states[w]
         /\ \A w \in View : \A x \in DOMAIN pointer_states'[w] :
              w \in windows /\ x \in Device /\ PointerOK(x, w, pointer_states'[w][x])
         /\ \A x, w : WillBeIn(x, w) => WillBeIn(x, w)'
         /\ \A u, w : WillBeLater(u, w) => WillBeLater(u, w)'
<1> DEFINE e == Raw("remove", d, v, at, 0)
<1>1. /\ v \in windows /\ d \in {Mouse, Touch} /\ at \in Place
      /\ q \in Seq(RawData) /\ InboxInv(states_, windows, L, q)
      /\ \A i \in 1..Len(q) : PacketOK_(q[i], windows \cup closed)
      /\ L[Len(q)][d][v] \in {"up", "down"}
      /\ \A x \in Device : \A w \in windows :
           ~(x = d /\ w = v) => L[Len(q)][x][w] = Local(x, w)
      /\ \A w \in windows \ {v} :
           d \in DOMAIN pointer_states[w] => Later(states_, q, Len(q), d, v, w)
      /\ \A x, w : WillBeIn(x, w) => Current(states_, q, Len(q), x, w)
      /\ \A u, w : WillBeLater(u, w) => Later(states_, q, Len(q), Mouse, u, w)
      /\ inbox' = Append(q, e)
      /\ pointer_states' = [pointer_states EXCEPT ![v] = Drop(@, d)]
      /\ states_' = states_ /\ views' = views /\ windows' = windows /\ closed' = closed
      /\ viewport' = viewport
  BY DEF Leaves, converterVars
<1>2. /\ windows \in SUBSET View /\ v \in View /\ d \in Device /\ d \notin Trackpad
      /\ DOMAIN pointer_states = View
  BY <1>1, WindowsAssumption DEF WindowsInv, WindowsTypeOK
<1>3. /\ e.device = d /\ e.view_id = v /\ e.change = "remove" /\ e \in RawData
      /\ \A x, w : ~Adds(e, x, w) /\ ~AddsElsewhere(e, x, w)
  BY <1>1, <1>2, RawEvent DEF Raw, Change, Adds, AddsElsewhere
<1> HIDE DEF e
<1>4. /\ DOMAIN pointer_states' = View
      /\ pointer_states'[v] = Drop(pointer_states[v], d)
      /\ \A w \in View \ {v} : pointer_states'[w] = pointer_states[w]
  BY <1>1, <1>2
<1>5. /\ DOMAIN pointer_states'[v] = DOMAIN pointer_states[v] \ {d}
      /\ \A x \in DOMAIN pointer_states[v] \ {d} : pointer_states'[v][x] = pointer_states[v][x]
  BY <1>4 DEF Drop
<1>6. \A w \in View : \A x \in DOMAIN pointer_states'[w] :
        w \in windows /\ x \in Device /\ PointerOK(x, w, pointer_states'[w][x])
  <2> SUFFICES ASSUME NEW w \in View, NEW x \in DOMAIN pointer_states'[w]
               PROVE  w \in windows /\ x \in Device /\ PointerOK(x, w, pointer_states'[w][x])
    OBVIOUS
  <2>1. x \in DOMAIN pointer_states[w] /\ pointer_states'[w][x] = pointer_states[w][x]
    BY <1>4, <1>5
  <2> QED
    BY <2>1 DEF WindowsInv, WindowsTypeOK
<1>7. \A x \in Device : \A w \in windows :
        Local(x, w)' = IF x = d /\ w = v THEN "none" ELSE Local(x, w)
  <2> SUFFICES ASSUME NEW x \in Device, NEW w \in windows
               PROVE  Local(x, w)' = IF x = d /\ w = v THEN "none" ELSE Local(x, w)
    OBVIOUS
  <2>1. CASE w # v
    BY <1>1, <1>2, <1>4, <2>1 DEF Local
  <2>2. CASE w = v
    BY <1>1, <1>5, <2>2 DEF Local
  <2> QED
    BY <2>1, <2>2
<1>8. L[Len(q)] \in [Device -> [View -> Seeing]]
  BY <1>1, AppendFacts DEF InboxInv
<1>9. (\E M : Traced(M))'
  <2>1. MaySend(states_, windows, L, q, e, "none")
    <3>1. Follows(L[Len(q)][d][v], "remove", "none") /\ "none" \in Seeing
      BY <1>1 DEF Follows, Seeing
    <3>2. \A w \in windows \ {v} :
            L[Len(q)][d][w] # "none" => Later(states_, q, Len(q), d, v, w)
      <4> SUFFICES ASSUME NEW w \in windows \ {v}, L[Len(q)][d][w] # "none"
                   PROVE  Later(states_, q, Len(q), d, v, w)
        OBVIOUS
      <4>1. d \in DOMAIN pointer_states[w]
        BY <1>1, <1>2 DEF Local
      <4> QED
        BY <1>1, <4>1
    <3> QED
      BY <1>1, <1>2, <1>3, <3>1, <3>2 DEF MaySend
  <2>2. PICK M : /\ InboxInv(states_, windows, M, Append(q, e))
                 /\ M[Len(q) + 1] = Sees(L[Len(q)], e.device, e.view_id, "none")
    BY <2>1, Extend
  <2>3. Len(inbox') = Len(q) + 1
    BY <1>1, <1>3, AppendFacts
  <2>4. \A x \in Device : \A w \in windows :
          M[Len(inbox')][x][w] = IF x = d /\ w = v THEN "none" ELSE L[Len(q)][x][w]
    BY <1>2, <1>3, <1>8, <2>2, <2>3 DEF Sees
  <2>5. \A x \in Device : \A w \in windows : M[Len(inbox')][x][w] = Local(x, w)'
    BY <1>1, <1>7, <2>4
  <2>6. InboxInv(states_', windows', M, inbox')
    BY <1>1, <2>2
  <2> QED
    BY <1>1, <2>5, <2>6 DEF Traced
<1>10. UnderWay'
  <2>1. PacketOK_(e, windows \cup closed)
    BY <1>1, <1>2, <1>3 DEF PacketOK_
  <2>2. /\ inbox' \in Seq(RawData)
        /\ \A i \in 1..Len(inbox') : PacketOK_(inbox'[i], windows \cup closed)
    <3>1. /\ Append(q, e) \in Seq(RawData)
          /\ Len(q) \in Nat /\ Len(Append(q, e)) = Len(q) + 1
          /\ \A i \in 1..Len(q) : Append(q, e)[i] = q[i]
          /\ Append(q, e)[Len(q) + 1] = e
      BY <1>1, <1>3, AppendFacts
    <3>2. \A i \in 1..(Len(q) + 1) : i \in 1..Len(q) \/ i = Len(q) + 1
      BY <3>1
    <3> QED
      BY <1>1, <2>1, <3>1, <3>2
  <2>3. \A x \in DOMAIN states_' : StateOf(x, states_'[x], windows \cup closed)
    BY <1>1 DEF WindowsInv, UnderWay
  <2> QED
    BY <1>1, <2>2, <2>3 DEF UnderWay
<1>11. /\ \A x, w : WillBeIn(x, w) => WillBeIn(x, w)'
       /\ \A u, w : WillBeLater(u, w) => WillBeLater(u, w)'
  <2>1. /\ \A x, w : Current(states_, q, Len(q), x, w)
                       => Current(states_, inbox', Len(inbox'), x, w)
        /\ \A x, u, w : Later(states_, q, Len(q), x, u, w)
                          => Later(states_, inbox', Len(inbox'), x, u, w)
    BY <1>1, <1>3, AfterOne
  <2> QED
    BY <1>1, <2>1 DEF WillBeIn, WillBeLater
<1> QED
  BY <1>1, <1>4, <1>5, <1>6, <1>9, <1>10, <1>11

LEMMA MouseLeaveKeeps ==
  ASSUME WindowsInv, NEW at \in Place, OnMouseLeave(at)
  PROVE  WindowsInv'
<1> DEFINE v == Head(leaving)
           e == Raw("remove", Mouse, v, at, 0)
<1>1. /\ leaving # <<>> /\ leaving' = Tail(leaving) /\ over' = over /\ viewport' = viewport
      /\ inbox' = inbox \o Packets(v, Mouse, GetOrCreatePointerState(v, Mouse), "remove", at, 0)
      /\ UNCHANGED <<converterVars, windows, closed>>
      /\ pointer_states' = [pointer_states EXCEPT ![v] = Drop(@, Mouse)]
  BY DEF OnMouseLeave, SendPointerLeave, Post
<1>2. /\ leaving \in Seq(windows) /\ Len(leaving) \in Nat \ {0} /\ v = leaving[1]
      /\ DOMAIN leaving = 1..Len(leaving) /\ v \in windows /\ v \in View
      /\ leaving' \in Seq(windows) /\ DOMAIN leaving' = 1..(Len(leaving) - 1)
      /\ \A i \in 1..(Len(leaving) - 1) : leaving'[i] = leaving[i + 1]
  <2>1. leaving \in Seq(windows) /\ windows \subseteq View
    BY DEF WindowsInv, WindowsTypeOK
  <2> QED
    BY <1>1, <2>1, HeadTailProperties, ElementOfSeq, EmptySeq
<1> HIDE DEF v
<1>3. /\ 1 \in DOMAIN leaving
      /\ \A i \in DOMAIN leaving' : i + 1 \in DOMAIN leaving /\ leaving'[i] = leaving[i + 1]
      /\ \A i \in DOMAIN leaving : i = 1 \/ (i - 1 \in DOMAIN leaving' /\ leaving'[i - 1] = leaving[i])
  BY <1>2
<1>4. \A i, j \in DOMAIN leaving : leaving[i] # over /\ (i # j => leaving[i] # leaving[j])
  BY DEF WindowsInv, DevicesOK
<1>5. Mouse \in DOMAIN pointer_states[v]
  BY <1>2, <1>3 DEF WindowsInv, DevicesOK, MouseIsIn
<1>6. inbox' = Append(inbox, e)
  <2>1. GetOrCreatePointerState(v, Mouse).flutter_state_is_added
    BY <1>2, <1>5 DEF GetOrCreatePointerState, WindowsInv, WindowsTypeOK, PointerOK
  <2>2. Packets(v, Mouse, GetOrCreatePointerState(v, Mouse), "remove", at, 0) = Append(<<>>, e)
    BY <2>1 DEF Packets
  <2>3. e \in RawData /\ inbox \in Seq(RawData)
    BY <1>2, RawEvent, WindowsAssumption DEF Change, WindowsInv, UnderWay
  <2> HIDE DEF e
  <2> QED
    BY <1>1, <2>2, <2>3, Posted
<1>7. \A w \in windows \ {v} :
        Mouse \in DOMAIN pointer_states[w] => Later(states_, inbox, Len(inbox), Mouse, v, w)
  <2> SUFFICES ASSUME NEW w \in windows \ {v}, Mouse \in DOMAIN pointer_states[w]
               PROVE  Later(states_, inbox, Len(inbox), Mouse, v, w)
    OBVIOUS
  <2>1. MouseIsIn(w)
    BY DEF WindowsInv, WindowsTypeOK, DevicesOK
  <2>2. CASE w = over
    <3>1. Current(states_, inbox, Len(inbox), Mouse, w)
      BY <2>2, WindowsAssumption DEF WindowsInv, WindowsTypeOK, Placed, WillBeIn
    <3> QED
      BY <3>1, CurrentIsLater
  <2>3. CASE w # over
    <3>1. PICK j \in DOMAIN leaving : leaving[j] = w
      BY <2>1, <2>3 DEF MouseIsIn
    <3>2. 1 \in 1..(j - 1)
      BY <1>2, <3>1
    <3>3. WillBeLater(leaving[1], leaving[j])
      BY <3>2 DEF WindowsInv, Placed
    <3> QED
      BY <1>2, <3>1, <3>3 DEF WillBeLater
  <2> QED
    BY <2>2, <2>3
<1>8. PICK L : Traced(L)
  BY DEF WindowsInv
<1>9. Leaves(v, Mouse, at, L, inbox)
  <2>1. Mouse \in Device /\ L[Len(inbox)][Mouse][v] \in {"up", "down"}
    BY <1>2, <1>5, <1>8, WindowsAssumption DEF Traced, Local
  <2>2. inbox \in Seq(RawData) /\ \A i \in 1..Len(inbox) : PacketOK_(inbox[i], windows \cup closed)
    BY DEF WindowsInv, UnderWay
  <2> QED
    BY <1>1, <1>2, <1>6, <1>7, <1>8, <2>1, <2>2 DEF Leaves, Traced, WillBeIn, WillBeLater
<1>10. /\ windows' = windows /\ closed' = closed /\ views' = views
       /\ UnderWay' /\ (\E M : Traced(M))'
  BY <1>9, LeaveKeeps
<1>11. /\ DOMAIN pointer_states' = View
       /\ \A w \in View :
            DOMAIN pointer_states'[w] = IF w = v THEN DOMAIN pointer_states[v] \ {Mouse}
                                        ELSE DOMAIN pointer_states[w]
       /\ \A w \in View : \A x \in DOMAIN pointer_states'[w] :
            w \in windows /\ x \in Device /\ PointerOK(x, w, pointer_states'[w][x])
  BY <1>9, LeaveKeeps
<1>12. /\ \A x, w : WillBeIn(x, w) => WillBeIn(x, w)'
       /\ \A u, w : WillBeLater(u, w) => WillBeLater(u, w)'
  BY <1>9, LeaveKeeps
<1>13. WindowsTypeOK'
  BY <1>1, <1>2, <1>10, <1>11 DEF WindowsInv, WindowsTypeOK
<1>14. DevicesOK'
  <2>1. \A w \in View : Mouse \in DOMAIN pointer_states'[w] <=> w \in windows' /\ MouseIsIn(w)'
    <3> SUFFICES ASSUME NEW w \in View
                 PROVE  Mouse \in DOMAIN pointer_states'[w] <=> w \in windows /\ MouseIsIn(w)'
      BY <1>10
    <3>1. MouseIsIn(w)' <=> w = over \/ \E i \in DOMAIN leaving' : leaving'[i] = w
      BY <1>1 DEF MouseIsIn
    <3>2. CASE w = v
      <4>1. ~MouseIsIn(w)'
        <5>1. v # over
          BY <1>2, <1>3, <1>4
        <5>2. \A i \in DOMAIN leaving' : leaving'[i] # v
          BY <1>2, <1>3, <1>4
        <5> QED
          BY <3>1, <3>2, <5>1, <5>2
      <4> QED
        BY <1>11, <3>2, <4>1
    <3>3. CASE w # v
      <4>1. MouseIsIn(w)' <=> MouseIsIn(w)
        BY <1>2, <1>3, <3>1, <3>3 DEF MouseIsIn
      <4> QED
        BY <1>11, <3>3, <4>1 DEF WindowsInv, DevicesOK
    <3> QED
      BY <3>2, <3>3
  <2>2. \A i, j \in DOMAIN leaving' : leaving'[i] # over' /\ (i # j => leaving'[i] # leaving'[j])
    BY <1>1, <1>2, <1>3, <1>4
  <2>3. \A w \in View : \A d \in Device \ {Mouse} :
          d \in DOMAIN pointer_states'[w] <=> d \in DOMAIN pointer_states[w]
    BY <1>11
  <2>4. /\ Touch \in Device \ {Mouse}
        /\ \A w \in View : TrackpadOf[w] \in Device \ {Mouse}
    BY WindowsAssumption, ConverterAssumption
  <2>5. /\ \A w, u \in View : Touched(w)' /\ Touched(u)' => w = u
        /\ \A w \in View : viewport'[w] = "running" => TrackpadOf[w] \in DOMAIN pointer_states'[w]
    BY <1>1, <2>3, <2>4 DEF WindowsInv, DevicesOK, Touched
  <2> QED
    BY <2>1, <2>2, <2>5 DEF DevicesOK
<1>15. Placed'
  <2>1. \A w \in View : \A d \in DOMAIN pointer_states'[w] \ {Mouse} : WillBeIn(d, w)'
    <3> SUFFICES ASSUME NEW w \in View, NEW d \in DOMAIN pointer_states'[w] \ {Mouse}
                 PROVE  WillBeIn(d, w)'
      OBVIOUS
    <3>1. d \in DOMAIN pointer_states[w] \ {Mouse}
      BY <1>11
    <3> QED
      BY <1>12, <3>1 DEF WindowsInv, Placed
  <2>2. over # NoView => \A w : w = over => WillBeIn(Mouse, w)'
    BY <1>12 DEF WindowsInv, Placed
  <2>3. \A j \in DOMAIN leaving' : \A i \in 1..(j - 1) :
          \A u, w : u = leaving'[i] /\ w = leaving'[j] => WillBeLater(u, w)'
    <3> SUFFICES ASSUME NEW j \in DOMAIN leaving', NEW i \in 1..(j - 1),
                        NEW u, NEW w, u = leaving'[i], w = leaving'[j]
                 PROVE  WillBeLater(u, w)'
      OBVIOUS
    <3> DEFINE k == j + 1
               h == i + 1
    <3>1. k \in DOMAIN leaving /\ w = leaving[k] /\ h \in 1..(k - 1) /\ u = leaving[h]
      BY <1>2
    <3> HIDE DEF k, h
    <3>3. WillBeLater(u, w)
      BY <3>1 DEF WindowsInv, Placed
    <3> QED
      BY <1>12, <3>3
  <2>4. \A j \in DOMAIN leaving' : \A i \in 1..(j - 1) : WillBeLater(leaving[i], leaving[j])'
    BY <2>3 DEF WillBeLater
  <2> QED
    BY <1>1, <2>1, <2>2, <2>4 DEF Placed, WillBeIn
<1> QED
  BY <1>10, <1>13, <1>14, <1>15 DEF WindowsInv

-----------------------------------------------------------------------------
(* Touch.                                                                  *)

LEMMA TouchKeeps ==
  ASSUME WindowsInv, NEW at \in Place, NEW v \in View,
         OnTouchDown(v, at) \/ OnTouchMove(v, at)
  PROVE  WindowsInv'
<1>1. over' = over /\ leaving' = leaving /\ viewport' = viewport
  BY DEF OnTouchDown, OnTouchMove
<1>2. \E t, change, m : Sends(v, Touch, t, change, at, 0, m)
  <2>1. CASE OnTouchDown(v, at)
    <3>1. v \in windows /\ Touch \notin DOMAIN pointer_states[v]
      BY <2>1 DEF OnTouchDown, Touched
    <3>2. SendPointerDown(v, Touch, Left, at) /\ Left \in Button /\ Mouse # Touch
      BY <2>1, WindowsAssumption DEF OnTouchDown
    <3> QED
      BY <1>1, <3>1, <3>2, DownSends
  <2>2. CASE OnTouchMove(v, at)
    <3>1. Touch \in DOMAIN pointer_states[v] /\ Touch # Mouse
      BY <2>2, WindowsAssumption DEF OnTouchMove, Touched
    <3>2. v \in windows /\ WillBeIn(Touch, v)
      BY <3>1 DEF WindowsInv, WindowsTypeOK, Placed
    <3>3. SendPointerMove(v, Touch, at)
      BY <2>2 DEF OnTouchMove
    <3> QED
      BY <1>1, <3>1, <3>2, <3>3, MoveSends
  <2> QED
    BY <2>1, <2>2
<1>3. \A w \in View : Touched(w) => w = v
  BY DEF OnTouchDown, OnTouchMove, WindowsInv, DevicesOK
<1> QED
  BY <1>1, <1>2, <1>3, OtherSends, WindowsAssumption

LEMMA TouchUpLeaves ==
  ASSUME WindowsInv, NEW at \in Place, NEW v \in View, OnTouchUp(v, at)
  PROVE  \E L, q : Leaves(v, Touch, at, L, q)
<1> DEFINE u == Raw("up", Touch, v, at, 0)
           r == Raw("remove", Touch, v, at, 0)
           n == Len(inbox)
           q == Append(inbox, u)
<1>1. /\ Touch \in DOMAIN pointer_states[v]
      /\ inbox' = inbox \o <<u, r>>
      /\ pointer_states' = [pointer_states EXCEPT ![v] = Drop(@, Touch)]
      /\ UNCHANGED <<converterVars, windows, closed, viewport>>
  BY DEF OnTouchUp, Post, Touched
<1>2. /\ windows \in SUBSET View /\ v \in windows
      /\ Touch \in Device /\ Touch \notin Trackpad /\ Touch # Mouse
      /\ PointerOK(Touch, v, pointer_states[v][Touch])
      /\ inbox \in Seq(RawData)
      /\ \A i \in 1..n : PacketOK_(inbox[i], windows \cup closed)
  BY <1>1, WindowsAssumption DEF WindowsInv, WindowsTypeOK, UnderWay
<1>3. u \in RawData /\ r \in RawData
  BY <1>2, RawEvent DEF Change
<1>4. /\ u.device = Touch /\ u.view_id = v /\ u.change = "up"
      /\ \A x, w : ~Adds(u, x, w) /\ ~AddsElsewhere(u, x, w)
  BY DEF Raw, Adds, AddsElsewhere
<1> HIDE DEF u, r
<1>5. inbox' = Append(q, r)
  BY <1>1, <1>2, <1>3, Posted
<1>6. /\ n \in Nat /\ q \in Seq(RawData) /\ Len(q) = n + 1
      /\ \A i \in 1..n : q[i] = inbox[i]
      /\ q[n + 1] = u
  BY <1>2, <1>3, AppendFacts
<1>7. Local(Touch, v) = "down"
  BY <1>1, <1>2 DEF Local, PointerOK
<1>8. PICK L : Traced(L)
  BY DEF WindowsInv
<1>9. /\ InboxInv(states_, windows, L, inbox)
      /\ L[n] \in [Device -> [View -> Seeing]]
      /\ \A x \in Device : \A w \in windows : L[n][x][w] = Local(x, w)
  BY <1>6, <1>8 DEF Traced, InboxInv
<1>10. PICK M : InboxInv(states_, windows, M, q) /\ M[n + 1] = Sees(L[n], Touch, v, "up")
  <2>1. Current(states_, inbox, n, Touch, v)
    BY <1>1, <1>2 DEF WindowsInv, Placed, WillBeIn
  <2>2. Follows(L[n][Touch][v], "up", "up") /\ "up" \in Seeing
    BY <1>2, <1>7, <1>9 DEF Follows, Seeing
  <2>3. MaySend(states_, windows, L, inbox, u, "up")
    BY <1>2, <1>3, <1>4, <1>9, <2>1, <2>2 DEF MaySend
  <2>4. \E M : /\ InboxInv(states_, windows, M, Append(inbox, u))
               /\ M[Len(inbox) + 1] = Sees(L[Len(inbox)], u.device, u.view_id, "up")
    BY <2>3, Extend
  <2> QED
    BY <1>4, <2>4
<1>11. /\ M[Len(q)][Touch][v] = "up"
       /\ \A x \in Device : \A w \in windows :
            ~(x = Touch /\ w = v) => M[Len(q)][x][w] = Local(x, w)
  <2>1. \A x \in Device : \A w \in View :
          Sees(L[n], Touch, v, "up")[x][w] = IF x = Touch /\ w = v THEN "up" ELSE L[n][x][w]
    BY <1>2, <1>9 DEF Sees
  <2> QED
    BY <1>2, <1>6, <1>9, <1>10, <2>1
<1>12. /\ \A x, w : WillBeIn(x, w) => Current(states_, q, Len(q), x, w)
       /\ \A x, w : WillBeLater(x, w) => Later(states_, q, Len(q), Mouse, x, w)
  BY <1>2, <1>3, <1>4, AfterOne DEF WillBeIn, WillBeLater
<1>13. \A i \in 1..Len(q) : PacketOK_(q[i], windows \cup closed)
  <2>1. PacketOK_(u, windows \cup closed)
    BY <1>2, <1>4 DEF PacketOK_
  <2>2. \A i \in 1..(n + 1) : i \in 1..n \/ i = n + 1
    BY <1>6
  <2> QED
    BY <1>2, <1>6, <2>1, <2>2
<1>14. \A w \in windows \ {v} : Touch \notin DOMAIN pointer_states[w]
  BY <1>1, <1>2 DEF WindowsInv, DevicesOK, Touched
<1> HIDE DEF q, n
<1>15. inbox' = Append(q, Raw("remove", Touch, v, at, 0))
  BY <1>5 DEF r
<1>16. Leaves(v, Touch, at, M, q)
  BY <1>1, <1>2, <1>6, <1>10, <1>11, <1>12, <1>13, <1>14, <1>15 DEF Leaves
<1> QED
  BY <1>16

LEMMA TouchUpKeeps ==
  ASSUME WindowsInv, NEW at \in Place, NEW v \in View, OnTouchUp(v, at)
  PROVE  WindowsInv'
<1>1. PICK L, q : Leaves(v, Touch, at, L, q)
  BY TouchUpLeaves
<1>2. over' = over /\ leaving' = leaving /\ viewport' = viewport
  BY DEF OnTouchUp
<1>3. /\ windows' = windows /\ closed' = closed /\ views' = views
      /\ UnderWay' /\ (\E M : Traced(M))'
  BY <1>1, LeaveKeeps
<1>4. /\ DOMAIN pointer_states' = View
      /\ \A w \in View :
           DOMAIN pointer_states'[w] = IF w = v THEN DOMAIN pointer_states[v] \ {Touch}
                                       ELSE DOMAIN pointer_states[w]
      /\ \A w \in View : \A x \in DOMAIN pointer_states'[w] :
           w \in windows /\ x \in Device /\ PointerOK(x, w, pointer_states'[w][x])
  BY <1>1, LeaveKeeps
<1>5. /\ \A x, w : WillBeIn(x, w) => WillBeIn(x, w)'
      /\ \A u, w : WillBeLater(u, w) => WillBeLater(u, w)'
  BY <1>1, LeaveKeeps
<1>6. WindowsTypeOK'
  BY <1>2, <1>3, <1>4 DEF WindowsInv, WindowsTypeOK
<1>7. DevicesOK'
  <2>1. \A w \in View : DOMAIN pointer_states'[w] \subseteq DOMAIN pointer_states[w]
    BY <1>4
  <2>2. \A w \in View : \A d \in Device \ {Touch} :
          d \in DOMAIN pointer_states'[w] <=> d \in DOMAIN pointer_states[w]
    BY <1>4
  <2>3. Mouse \in Device \ {Touch} /\ \A w \in View : TrackpadOf[w] \in Device \ {Touch}
    BY WindowsAssumption, ConverterAssumption
  <2>4. \A w, u \in View : Touched(w)' /\ Touched(u)' => w = u
    BY <2>1 DEF WindowsInv, DevicesOK, Touched
  <2>5. /\ \A w \in View : Mouse \in DOMAIN pointer_states'[w] <=> w \in windows' /\ MouseIsIn(w)'
        /\ \A w \in View : viewport'[w] = "running" => TrackpadOf[w] \in DOMAIN pointer_states'[w]
    BY <1>2, <1>3, <2>2, <2>3 DEF WindowsInv, DevicesOK, MouseIsIn
  <2> QED
    BY <1>2, <2>4, <2>5 DEF WindowsInv, DevicesOK
<1>8. Placed'
  <2>1. \A w \in View : \A d \in DOMAIN pointer_states'[w] \ {Mouse} : WillBeIn(d, w)'
    <3> SUFFICES ASSUME NEW w \in View, NEW d \in DOMAIN pointer_states'[w] \ {Mouse}
                 PROVE  WillBeIn(d, w)'
      OBVIOUS
    <3>1. d \in DOMAIN pointer_states[w] \ {Mouse}
      BY <1>4
    <3> QED
      BY <1>5, <3>1 DEF WindowsInv, Placed
  <2>2. over # NoView => \A w : w = over => WillBeIn(Mouse, w)'
    BY <1>5 DEF WindowsInv, Placed
  <2>3. \A j \in DOMAIN leaving : \A i \in 1..(j - 1) :
          \A u, w : u = leaving[i] /\ w = leaving[j] => WillBeLater(u, w)'
    BY <1>5 DEF WindowsInv, Placed
  <2>4. \A j \in DOMAIN leaving' : \A i \in 1..(j - 1) : WillBeLater(leaving[i], leaving[j])'
    BY <1>2, <2>3 DEF WillBeLater
  <2> QED
    BY <1>2, <2>1, <2>2, <2>4 DEF Placed, WillBeIn
<1> QED
  BY <1>3, <1>6, <1>7, <1>8 DEF WindowsInv

-----------------------------------------------------------------------------
(* Gestures.                                                               *)

(* The trackpad of v, in a gesture or not.                                 *)
Panning(running) == IF running THEN "pan" ELSE "up"

LEMMA TrackpadIsUp ==
  ASSUME WindowsInv, NEW v \in windows
  PROVE  LET d == TrackpadOf[v]
             s == GetOrCreatePointerState(v, d)
         IN /\ d \in Device /\ d \in Trackpad /\ d # Mouse /\ d # Touch
            /\ s \in Pointer /\ s.buttons = {} /\ ~s.flutter_state_is_down
            /\ d \in DOMAIN pointer_states[v] =>
                 WillBeIn(d, v) /\ Local(d, v) = Panning(viewport[v] = "running")
            /\ d \notin DOMAIN pointer_states[v] => viewport[v] # "running"
<1> DEFINE d == TrackpadOf[v]
<1>1. d \in Device /\ d \in Trackpad /\ v \in View /\ d # Mouse /\ d # Touch
  BY WindowsAssumption, ConverterAssumption DEF WindowsInv, WindowsTypeOK
<1> HIDE DEF d
<1>2. d \notin DOMAIN pointer_states[v] => viewport[v] # "running"
  BY <1>1 DEF WindowsInv, DevicesOK, d
<1>3. CASE d \in DOMAIN pointer_states[v]
  <2>1. PointerOK(d, v, pointer_states[v][d]) /\ WillBeIn(d, v)
    BY <1>1, <1>3 DEF WindowsInv, WindowsTypeOK, Placed
  <2> QED
    BY <1>1, <1>3, <2>1 DEF GetOrCreatePointerState, PointerOK, Local, Panning, d
<1>4. CASE d \notin DOMAIN pointer_states[v]
  BY <1>1, <1>2, <1>4 DEF GetOrCreatePointerState, Pointer, d
<1> QED
  BY <1>3, <1>4

LEMMA TrackpadKeeps ==
  ASSUME WindowsInv, NEW v \in windows, NEW d, d = TrackpadOf[v], NEW at \in Place, NEW pan,
         NEW change \in {"pan_zoom_start", "pan_zoom_update", "pan_zoom_end", "signal"},
         Raw(change, d, v, at, pan) \in RawData,
         Send(v, d, GetOrCreatePointerState(v, d), GetOrCreatePointerState(v, d),
              change, at, pan),
         viewport' \in [View -> {"ready", "running", "inertia"}],
         \A w \in View \ {v} : viewport'[w] = viewport[w],
         Follows(Panning(viewport[v] = "running"), change, Panning(viewport'[v] = "running")),
         over' = over, leaving' = leaving
  PROVE  WindowsInv'
<1> DEFINE s == GetOrCreatePointerState(v, d)
           m == Panning(viewport'[v] = "running")
<1>1. /\ d \in Device /\ d \in Trackpad /\ d # Mouse /\ d # Touch
      /\ s \in Pointer /\ s.buttons = {} /\ ~s.flutter_state_is_down
      /\ d \in DOMAIN pointer_states[v] =>
           WillBeIn(d, v) /\ Local(d, v) = Panning(viewport[v] = "running")
      /\ d \notin DOMAIN pointer_states[v] => viewport[v] # "running"
  BY TrackpadIsUp
<1>2. PointerOK(d, v, [s EXCEPT !.flutter_state_is_added = TRUE])
  BY <1>1 DEF PointerOK, Pointer
<1>3. Follows(IF d \in DOMAIN pointer_states[v] THEN Local(d, v) ELSE "up", change, m)
  BY <1>1 DEF Panning
<1>4. m = IF d \in Trackpad /\ viewport'[v] = "running" THEN "pan"
          ELSE IF s.flutter_state_is_down THEN "down" ELSE "up"
  BY <1>1 DEF Panning
<1>5. change \in Change \ {"add", "remove", "cancel"}
  BY DEF Change
<1>6. Send(v, d, GetOrCreatePointerState(v, d), s, change, at, pan)
  OBVIOUS
<1> HIDE DEF m, s
<1>7. Sends(v, d, s, change, at, pan, m)
  BY <1>1, <1>2, <1>3, <1>4, <1>5, <1>6 DEF Sends
<1> QED
  BY <1>1, <1>7, OtherSends

LEMMA GestureKeeps ==
  ASSUME WindowsInv, NEW v \in View, NEW status \in {"ready", "inertia"},
         OnGestureStart(v) \/ OnContentUpdated(v) \/ OnGestureEnd(v, status)
  PROVE  WindowsInv'
<1>1. /\ over' = over /\ leaving' = leaving
      /\ viewport \in [View -> {"ready", "running", "inertia"}]
  BY DEF OnGestureStart, OnContentUpdated, OnGestureEnd, StatusChanged, WindowsInv, WindowsTypeOK
<1> DEFINE d == TrackpadOf[v]
           s == GetOrCreatePointerState(v, d)
<1>2. d \in Device /\ d \in Trackpad
  BY WindowsAssumption, ConverterAssumption
<1>3. CASE OnGestureStart(v)
  <2>1. /\ v \in windows /\ viewport[v] # "running"
        /\ viewport' = [viewport EXCEPT ![v] = "running"]
    BY <1>3 DEF OnGestureStart, StatusChanged
  <2>2. PICK at \in Place : Send(v, d, s, s, "pan_zoom_start", at, 0)
    BY <1>3 DEF OnGestureStart, SendPanZoom
  <2>3. Raw("pan_zoom_start", d, v, at, 0) \in RawData
    BY <1>2, RawEvent DEF Change
  <2>4. viewport' \in [View -> {"ready", "running", "inertia"}] /\ viewport'[v] = "running"
        /\ \A w \in View \ {v} : viewport'[w] = viewport[w]
    BY <1>1, <2>1
  <2>5. Follows(Panning(viewport[v] = "running"), "pan_zoom_start",
                Panning(viewport'[v] = "running"))
    BY <2>1, <2>4 DEF Follows, Panning
  <2> HIDE DEF d
  <2> QED
    BY <1>1, <2>1, <2>2, <2>3, <2>4, <2>5, TrackpadKeeps DEF d
<1>4. CASE OnContentUpdated(v)
  <2>1. viewport[v] = "running" /\ viewport' = viewport
    BY <1>4 DEF OnContentUpdated
  <2>2. v \in windows
    BY <2>1 DEF WindowsInv, WindowsTypeOK, DevicesOK
  <2>3. PICK pan \in Pan, at \in Place : Send(v, d, s, s, "pan_zoom_update", at, pan)
    BY <1>4 DEF OnContentUpdated, SendPanZoom
  <2>4. Raw("pan_zoom_update", d, v, at, pan) \in RawData
    BY <1>2, RawEvent DEF Change
  <2>5. Follows(Panning(viewport[v] = "running"), "pan_zoom_update",
                Panning(viewport'[v] = "running"))
    BY <2>1 DEF Follows, Panning
  <2>6. viewport' \in [View -> {"ready", "running", "inertia"}]
        /\ \A w \in View \ {v} : viewport'[w] = viewport[w]
    BY <1>1, <2>1
  <2> HIDE DEF d
  <2> QED
    BY <1>1, <2>2, <2>3, <2>4, <2>5, <2>6, TrackpadKeeps DEF d
<1>5. CASE OnGestureEnd(v, status)
  <2>1. /\ v \in windows /\ viewport[v] = "running"
        /\ viewport' = [viewport EXCEPT ![v] = status]
    BY <1>5 DEF OnGestureEnd, StatusChanged
  <2>2. PICK at \in Place : Send(v, d, s, s, "pan_zoom_end", at, 0)
    BY <1>5 DEF OnGestureEnd, SendPanZoom
  <2>3. Raw("pan_zoom_end", d, v, at, 0) \in RawData
    BY <1>2, RawEvent DEF Change
  <2>4. viewport' \in [View -> {"ready", "running", "inertia"}] /\ viewport'[v] # "running"
        /\ \A w \in View \ {v} : viewport'[w] = viewport[w]
    BY <1>1, <2>1
  <2>5. Follows(Panning(viewport[v] = "running"), "pan_zoom_end",
                Panning(viewport'[v] = "running"))
    BY <2>1, <2>4 DEF Follows, Panning
  <2> HIDE DEF d
  <2> QED
    BY <1>1, <2>1, <2>2, <2>3, <2>4, <2>5, TrackpadKeeps DEF d
<1> QED
  BY <1>3, <1>4, <1>5

(* When the content has come to rest, or is stopped by a signal.           *)
LEMMA InertiaKeeps ==
  ASSUME WindowsInv, NEW v \in View, OnInertiaEnd(v)
  PROVE  WindowsInv'
<1>1. /\ over' = over /\ leaving' = leaving /\ v \in windows
      /\ viewport \in [View -> {"ready", "running", "inertia"}]
      /\ viewport[v] = "inertia" /\ viewport' = [viewport EXCEPT ![v] = "ready"]
  BY DEF OnInertiaEnd, StatusChanged, WindowsInv, WindowsTypeOK
<1>2. /\ viewport' \in [View -> {"ready", "running", "inertia"}] /\ viewport'[v] = "ready"
      /\ \A w \in View \ {v} : viewport'[w] = viewport[w]
  BY <1>1
<1>3. ASSUME NEW at \in Place, SendSignal(v, TrackpadOf[v], at)
      PROVE  WindowsInv'
  <2> DEFINE d == TrackpadOf[v]
  <2>1. Send(v, d, GetOrCreatePointerState(v, d), GetOrCreatePointerState(v, d),
             "signal", at, 0)
    BY <1>3 DEF SendSignal
  <2>2. Follows(Panning(viewport[v] = "running"), "signal", Panning(viewport'[v] = "running"))
    BY <1>1, <1>2 DEF Follows, Panning
  <2>3. Raw("signal", d, v, at, 0) \in RawData
    BY RawEvent, WindowsAssumption, ConverterAssumption DEF Change
  <2> HIDE DEF d
  <2> QED
    BY <1>1, <1>2, <2>1, <2>2, <2>3, TrackpadKeeps DEF d
<1>4. CASE UNCHANGED <<converterVars, windows, closed, pointer_states, inbox>>
  <2>1. /\ states_' = states_ /\ views' = views /\ windows' = windows /\ closed' = closed
        /\ pointer_states' = pointer_states /\ inbox' = inbox
    BY <1>4 DEF converterVars
  <2>2. WindowsTypeOK'
    BY <1>1, <1>2, <2>1 DEF WindowsInv, WindowsTypeOK
  <2>3. \A w \in View : viewport'[w] = "running" <=> viewport[w] = "running"
    BY <1>1, <1>2
  <2>4. DevicesOK'
    BY <1>1, <2>1, <2>3 DEF WindowsInv, DevicesOK, MouseIsIn, Touched
  <2>5. UnderWay'
    BY <2>1 DEF WindowsInv, UnderWay
  <2>6. Placed'
    <3>1. /\ \A x, w : WillBeIn(x, w)' <=> WillBeIn(x, w)
          /\ \A u, w : WillBeLater(u, w)' <=> WillBeLater(u, w)
      BY <2>1 DEF WillBeIn, WillBeLater
    <3>2. \A j \in DOMAIN leaving : \A i \in 1..(j - 1) :
            \A u, w : u = leaving[i] /\ w = leaving[j] => WillBeLater(u, w)'
      BY <3>1 DEF WindowsInv, Placed
    <3>3. \A j \in DOMAIN leaving' : \A i \in 1..(j - 1) : WillBeLater(leaving[i], leaving[j])'
      BY <1>1, <3>2 DEF WillBeLater
    <3> QED
      BY <1>1, <2>1, <3>1, <3>3 DEF WindowsInv, Placed
  <2>7. \A x \in Device : \A w \in windows : Local(x, w)' = Local(x, w)
    <3>1. windows \subseteq View
      BY DEF WindowsInv, WindowsTypeOK
    <3> QED
      BY <2>1, <2>3, <3>1 DEF Local
  <2>8. (\E L : Traced(L))'
    <3>1. PICK L : Traced(L)
      BY DEF WindowsInv
    <3>2. Traced(L)'
      BY <2>1, <2>7, <3>1 DEF Traced
    <3> QED
      BY <3>2
  <2> QED
    BY <2>2, <2>4, <2>5, <2>6, <2>8 DEF WindowsInv
<1> QED
  BY <1>3, <1>4 DEF OnInertiaEnd

-----------------------------------------------------------------------------
(* Views come and go.                                                      *)

LEMMA CreateViewKeeps ==
  ASSUME WindowsInv, NEW x \in View, CreateView(x)
  PROVE  WindowsInv'
<1>1. /\ x \notin windows /\ x \notin closed
      /\ windows' = windows \cup {x} /\ closed' = closed
      /\ views' = views \cup {x} /\ states_' = states_
      /\ pointer_states' = pointer_states /\ over' = over /\ leaving' = leaving
      /\ viewport' = viewport /\ inbox' = inbox
  BY DEF CreateView, AddView
<1>2. /\ windows \subseteq View /\ inbox \in Seq(RawData) /\ leaving \in Seq(windows)
      /\ over # x /\ \A i \in DOMAIN leaving : leaving[i] # x
      /\ DOMAIN pointer_states[x] = {}
  BY <1>1, WindowsAssumption DEF WindowsInv, WindowsTypeOK, UnderWay
<1>3. WindowsTypeOK'
  <2>1. leaving \in Seq(windows \cup {x})
    BY <1>2
  <2> QED
    BY <1>1, <2>1 DEF WindowsInv, WindowsTypeOK
<1>4. DevicesOK'
  BY <1>1, <1>2 DEF WindowsInv, DevicesOK, MouseIsIn, Touched
<1>5. UnderWay'
  <2>1. \A e : PacketOK_(e, windows \cup closed) => PacketOK_(e, (windows \cup {x}) \cup closed)
    BY DEF PacketOK_
  <2>2. \A d, s : StateOf(d, s, windows \cup closed)
                    => StateOf(d, s, (windows \cup {x}) \cup closed)
    BY DEF StateOf
  <2> QED
    BY <1>1, <2>1, <2>2 DEF WindowsInv, UnderWay
<1>6. Placed'
  <2>1. /\ \A d, w : WillBeIn(d, w)' <=> WillBeIn(d, w)
        /\ \A u, w : WillBeLater(u, w)' <=> WillBeLater(u, w)
    BY <1>1 DEF WillBeIn, WillBeLater
  <2>2. \A j \in DOMAIN leaving : \A i \in 1..(j - 1) :
          \A u, w : u = leaving[i] /\ w = leaving[j] => WillBeLater(u, w)'
    BY <2>1 DEF WindowsInv, Placed
  <2>3. \A j \in DOMAIN leaving' : \A i \in 1..(j - 1) : WillBeLater(leaving[i], leaving[j])'
    BY <1>1, <2>2 DEF WillBeLater
  <2> QED
    BY <1>1, <2>1, <2>3 DEF WindowsInv, Placed
<1>7. (\E L : Traced(L))'
  <2>1. PICK L : Traced(L)
    BY DEF WindowsInv
  <2>2. \A i \in 1..Len(inbox) : inbox[i].view_id # x
    BY <1>1 DEF WindowsInv, UnderWay, PacketOK_
  <2>3. \A d \in DOMAIN states_ : states_[d].view_id # x
    BY <1>1 DEF WindowsInv, UnderWay, StateOf
  <2>4. PICK M : /\ InboxInv(states_, windows \cup {x}, M, inbox)
                 /\ \A d \in Device : M[Len(inbox)][d][x] = "none"
                 /\ \A d \in Device : \A v \in windows :
                      M[Len(inbox)][d][v] = L[Len(inbox)][d][v]
    <3>1. MayCome(states_, windows, x, L, inbox)
      BY <1>1, <1>2, <2>1, <2>2, <2>3 DEF Traced, MayCome
    <3>2. HasCome(states_, windows, x, L, inbox)
      BY <3>1, OneMoreWindow
    <3> QED
      BY <3>2 DEF HasCome
  <2>5. \A d \in Device : \A v \in windows \cup {x} : M[Len(inbox)][d][v] = Local(d, v)'
    BY <1>1, <1>2, <2>1, <2>4 DEF Traced, Local
  <2>6. Traced(M)'
    BY <1>1, <2>4, <2>5 DEF Traced
  <2> QED
    BY <2>6
<1> QED
  BY <1>3, <1>4, <1>5, <1>6, <1>7 DEF WindowsInv

(* What is left of a queue is in order.                                    *)
LeftInOrder(S, q, v, r) ==
  /\ r \in Seq(S \ {v})
  /\ \A h \in DOMAIN q : q[h] # v => \E i \in DOMAIN r : r[i] = q[h]
  /\ \A i \in DOMAIN r : \E h \in DOMAIN q : r[i] = q[h]
  /\ \A i, j \in DOMAIN r : i # j => r[i] # r[j]
  /\ \A j \in DOMAIN r : \A i \in 1..(j - 1) :
       \E k \in DOMAIN q : \E h \in 1..(k - 1) : r[i] = q[h] /\ r[j] = q[k]

LEMMA WithoutFacts ==
  ASSUME NEW S, NEW q \in Seq(S), NEW v, NEW r \in Without(q, v),
         \A i, j \in DOMAIN q : i # j => q[i] # q[j]
  PROVE  LeftInOrder(S, q, v, r)
<1>1. Len(q) \in Nat /\ DOMAIN q = 1..Len(q)
  OBVIOUS
<1>2. CASE \A i \in DOMAIN q : q[i] # v
  <2>1. r = q
    BY <1>2 DEF Without
  <2>2. r \in Seq(S \ {v})
    BY <1>1, <1>2, <2>1
  <2>3. \A j \in DOMAIN q : \A i \in 1..(j - 1) :
          \E k \in DOMAIN q : \E h \in 1..(k - 1) : q[i] = q[h] /\ q[j] = q[k]
    OBVIOUS
  <2> QED
    BY <2>1, <2>2, <2>3 DEF LeftInOrder
<1>3. CASE \E i \in DOMAIN q : q[i] = v
  <2>1. PICK n \in 1..Len(q) : /\ q[n] = v
                               /\ r = SubSeq(q, 1, n - 1) \o SubSeq(q, n + 1, Len(q))
    BY <1>1, <1>3 DEF Without
  <2> DEFINE a == SubSeq(q, 1, n - 1)
             b == SubSeq(q, n + 1, Len(q))
  <2>2. /\ a \in Seq(S) /\ Len(a) = n - 1 /\ \A i \in 1..(n - 1) : a[i] = q[i]
        /\ b \in Seq(S) /\ Len(b) = Len(q) - n /\ \A i \in 1..(Len(q) - n) : b[i] = q[n + i]
    <3>1. n \in Nat /\ Len(q) - n \in Nat /\ \A i \in 1..Len(q) : q[i] \in S
      BY <1>1, <2>1
    <3>2. /\ a \in Seq(S) /\ Len(a) = IF 1 <= n - 1 THEN n - 1 - 1 + 1 ELSE 0
          /\ \A i \in 1..(n - 1 - 1 + 1) : a[i] = q[1 + i - 1]
      BY <1>1, <3>1, SubSeqProperties
    <3>3. /\ b \in Seq(S) /\ Len(b) = IF n + 1 <= Len(q) THEN Len(q) - (n + 1) + 1 ELSE 0
          /\ \A i \in 1..(Len(q) - (n + 1) + 1) : b[i] = q[n + 1 + i - 1]
      BY <1>1, <3>1, SubSeqProperties
    <3> HIDE DEF a, b
    <3>4. /\ Len(a) = n - 1 /\ \A i \in 1..(n - 1) : a[i] = q[i]
      BY <2>1, <3>1, <3>2
    <3>5. /\ Len(b) = Len(q) - n /\ \A i \in 1..(Len(q) - n) : b[i] = q[n + i]
      <4>1. \A i \in 1..(Len(q) - n) : n + 1 + i - 1 = n + i
        BY <3>1
      <4> QED
        BY <2>1, <3>1, <3>3, <4>1
    <3> QED
      BY <3>2, <3>3, <3>4, <3>5
  <2> HIDE DEF a, b
  <2>3. /\ r \in Seq(S) /\ Len(r) = Len(q) - 1
        /\ \A i \in 1..(n - 1) : r[i] = q[i]
        /\ \A i \in n..(Len(q) - 1) : r[i] = q[i + 1]
    <3>1. /\ a \o b \in Seq(S) /\ Len(a \o b) = Len(a) + Len(b)
          /\ \A i \in 1..(Len(a) + Len(b)) :
               (a \o b)[i] = IF i <= Len(a) THEN a[i] ELSE b[i - Len(a)]
      BY <2>2, ConcatProperties
    <3>2. r = a \o b
      BY <2>1 DEF a, b
    <3> DEFINE c == a \o b
    <3> HIDE DEF c
    <3>3. r = c /\ c \in Seq(S) /\ Len(c) = Len(q) - 1
          /\ \A i \in 1..(Len(q) - 1) : c[i] = IF i <= n - 1 THEN a[i] ELSE b[i - (n - 1)]
      BY <1>1, <2>2, <3>1, <3>2 DEF c
    <3>4. \A i \in n..(Len(q) - 1) : i - (n - 1) \in 1..(Len(q) - n) /\ n + (i - (n - 1)) = i + 1
      BY <1>1
    <3>5. \A i \in 1..(n - 1) : i \in 1..(Len(q) - 1) /\ i <= n - 1
      BY <1>1, <2>1
    <3>6. \A i \in n..(Len(q) - 1) : i \in 1..(Len(q) - 1) /\ ~(i <= n - 1)
      BY <1>1, <2>1
    <3>7. \A i \in n..(Len(q) - 1) : b[i - (n - 1)] = q[i + 1]
      BY <2>2, <3>4
    <3> QED
      BY <2>2, <3>3, <3>5, <3>6, <3>7
  <2>4. DOMAIN r = 1..(Len(q) - 1)
    BY <2>3
  <2> DEFINE f(i) == IF i < n THEN i ELSE i + 1
  <2>5. \A i \in DOMAIN r : /\ f(i) \in DOMAIN q /\ f(i) # n /\ r[i] = q[f(i)]
                            /\ \A h \in 1..(i - 1) : h \in DOMAIN r /\ f(h) \in 1..(f(i) - 1)
    <3> SUFFICES ASSUME NEW i \in DOMAIN r
                 PROVE  /\ f(i) \in DOMAIN q /\ f(i) # n /\ r[i] = q[f(i)]
                        /\ \A h \in 1..(i - 1) : h \in DOMAIN r /\ f(h) \in 1..(f(i) - 1)
      OBVIOUS
    <3>1. f(i) \in DOMAIN q /\ f(i) # n
      BY <1>1, <2>4
    <3>2. r[i] = q[f(i)]
      <4>1. CASE i < n
        BY <1>1, <2>3, <2>4, <4>1
      <4>2. CASE ~(i < n)
        <5>1. i \in n..(Len(q) - 1)
          BY <1>1, <2>4, <4>2
        <5> QED
          BY <2>3, <4>2, <5>1
      <4> QED
        BY <4>1, <4>2
    <3>3. \A h \in 1..(i - 1) : h \in DOMAIN r /\ f(h) \in 1..(f(i) - 1)
      BY <1>1, <2>4
    <3> QED
      BY <3>1, <3>2, <3>3
  <2> HIDE DEF f
  <2>6. \A i \in DOMAIN r : r[i] \in S \ {v}
    <3> SUFFICES ASSUME NEW i \in DOMAIN r
                 PROVE  r[i] \in S \ {v}
      OBVIOUS
    <3>1. f(i) \in DOMAIN q /\ f(i) # n /\ r[i] = q[f(i)] /\ n \in DOMAIN q
      BY <1>1, <2>1, <2>5
    <3>2. q[f(i)] # q[n]
      BY <3>1
    <3>3. q[f(i)] \in S
      BY <1>1, <3>1, ElementOfSeq
    <3> QED
      BY <2>1, <3>1, <3>2, <3>3
  <2>7. r \in Seq(S \ {v})
    BY <2>3, <2>6
  <2>8. ASSUME NEW h \in DOMAIN q, q[h] # v
        PROVE  \E i \in DOMAIN r : r[i] = q[h]
    <3>1. CASE h < n
      <4>1. h \in DOMAIN r /\ r[h] = q[h]
        BY <1>1, <2>3, <2>4, <3>1
      <4> QED
        BY <4>1
    <3>2. CASE ~(h < n)
      <4>1. h # n
        BY <2>1, <2>8
      <4>2. h - 1 \in n..(Len(q) - 1) /\ h - 1 + 1 = h
        BY <1>1, <3>2, <4>1
      <4>3. h - 1 \in DOMAIN r /\ r[h - 1] = q[h]
        BY <1>1, <2>3, <2>4, <4>2
      <4> QED
        BY <4>3
    <3> QED
      BY <3>1, <3>2
  <2>9. ASSUME NEW j \in DOMAIN r, NEW i \in 1..(j - 1)
        PROVE  \E k \in DOMAIN q : \E h \in 1..(k - 1) : r[i] = q[h] /\ r[j] = q[k]
    BY <2>5
  <2>10. \A i \in DOMAIN r : \E h \in DOMAIN q : r[i] = q[h]
    BY <2>5
  <2>11. ASSUME NEW j \in DOMAIN r, NEW i \in 1..(j - 1)
         PROVE  r[i] # r[j]
    <3>1. /\ f(i) \in DOMAIN q /\ f(j) \in DOMAIN q
          /\ r[i] = q[f(i)] /\ r[j] = q[f(j)] /\ f(i) \in 1..(f(j) - 1)
      BY <2>5
    <3>2. f(i) # f(j)
      BY <1>1, <3>1
    <3> QED
      BY <3>1, <3>2
  <2>12. \A i, j \in DOMAIN r : i # j => i \in 1..(j - 1) \/ j \in 1..(i - 1)
    BY <1>1, <2>4
  <2>13. \A i, j \in DOMAIN r : i # j => r[i] # r[j]
    BY <2>11, <2>12
  <2> QED
    BY <2>7, <2>8, <2>9, <2>10, <2>13 DEF LeftInOrder
<1> QED
  BY <1>2, <1>3

LEMMA DestroyViewKeeps ==
  ASSUME WindowsInv, NEW x \in View, DestroyView(x)
  PROVE  WindowsInv'
<1>1. /\ x \in windows
      /\ windows' = windows \ {x} /\ closed' = closed \cup {x}
      /\ views' = views \ {x} /\ states_' = states_
      /\ pointer_states' = [pointer_states EXCEPT ![x] = [d \in {} |-> 0]]
      /\ over' = (IF over = x THEN NoView ELSE over)
      /\ leaving' \in Without(leaving, x)
      /\ viewport' = [viewport EXCEPT ![x] = "ready"] /\ inbox' = inbox
  BY DEF DestroyView, RemoveView
<1>2. /\ windows \subseteq View /\ leaving \in Seq(windows) /\ DOMAIN pointer_states = View
      /\ viewport \in [View -> {"ready", "running", "inertia"}]
      /\ over \in windows \cup {NoView} /\ NoView \notin View
      /\ \A i, j \in DOMAIN leaving : leaving[i] # over /\ (i # j => leaving[i] # leaving[j])
  BY WindowsAssumption DEF WindowsInv, WindowsTypeOK, DevicesOK
<1>3. /\ leaving' \in Seq(windows \ {x})
      /\ \A h \in DOMAIN leaving :
           leaving[h] # x => \E i \in DOMAIN leaving' : leaving'[i] = leaving[h]
      /\ \A i \in DOMAIN leaving' : \E h \in DOMAIN leaving : leaving'[i] = leaving[h]
      /\ \A i, j \in DOMAIN leaving' : i # j => leaving'[i] # leaving'[j]
      /\ \A j \in DOMAIN leaving' : \A i \in 1..(j - 1) :
           \E k \in DOMAIN leaving : \E h \in 1..(k - 1) :
             leaving'[i] = leaving[h] /\ leaving'[j] = leaving[k]
  <2>1. LeftInOrder(windows, leaving, x, leaving')
    BY <1>1, <1>2, WithoutFacts
  <2> QED
    BY <2>1 DEF LeftInOrder
<1>4. /\ DOMAIN pointer_states' = View
      /\ pointer_states'[x] = [d \in {} |-> 0] /\ DOMAIN pointer_states'[x] = {}
      /\ \A w \in View \ {x} : pointer_states'[w] = pointer_states[w]
      /\ viewport' \in [View -> {"ready", "running", "inertia"}] /\ viewport'[x] = "ready"
      /\ \A w \in View \ {x} : viewport'[w] = viewport[w]
  BY <1>1, <1>2
<1>5. WindowsTypeOK'
  <2>1. /\ windows' \subseteq View /\ closed' \subseteq View /\ windows' \cap closed' = {}
        /\ views' = windows' /\ over' \in windows' \cup {NoView}
        /\ leaving' \in Seq(windows')
    BY <1>1, <1>2, <1>3 DEF WindowsInv, WindowsTypeOK
  <2>2. \A w \in View : \A d \in DOMAIN pointer_states'[w] :
          w \in windows' /\ d \in Device /\ PointerOK(d, w, pointer_states'[w][d])
    <3> SUFFICES ASSUME NEW w \in View, NEW d \in DOMAIN pointer_states'[w]
                 PROVE  w \in windows' /\ d \in Device /\ PointerOK(d, w, pointer_states'[w][d])
      OBVIOUS
    <3>1. w # x /\ pointer_states'[w] = pointer_states[w]
      BY <1>4
    <3> QED
      BY <1>1, <3>1 DEF WindowsInv, WindowsTypeOK
  <2> QED
    BY <1>4, <2>1, <2>2 DEF WindowsTypeOK
<1>6. DevicesOK'
  <2>1. \A i \in DOMAIN leaving' : leaving'[i] # x /\ leaving'[i] # over /\ leaving'[i] # NoView
    BY <1>2, <1>3
  <2>2. \A w \in View \ {x} : MouseIsIn(w)' <=> MouseIsIn(w)
    <3> SUFFICES ASSUME NEW w \in View \ {x}
                 PROVE  MouseIsIn(w)' <=> MouseIsIn(w)
      OBVIOUS
    <3>1. w = over' <=> w = over
      BY <1>1, <1>2
    <3>2. (\E i \in DOMAIN leaving' : leaving'[i] = w) <=> \E i \in DOMAIN leaving : leaving[i] = w
      BY <1>3
    <3> QED
      BY <3>1, <3>2 DEF MouseIsIn
  <2>3. \A w \in View : Mouse \in DOMAIN pointer_states'[w] <=> w \in windows' /\ MouseIsIn(w)'
    <3> SUFFICES ASSUME NEW w \in View
                 PROVE  Mouse \in DOMAIN pointer_states'[w] <=> w \in windows' /\ MouseIsIn(w)'
      OBVIOUS
    <3>1. CASE w = x
      BY <1>1, <1>4, <3>1
    <3>2. CASE w # x
      BY <1>1, <1>4, <2>2, <3>2 DEF WindowsInv, DevicesOK
    <3> QED
      BY <3>1, <3>2
  <2>4. \A i, j \in DOMAIN leaving' : leaving'[i] # over' /\ (i # j => leaving'[i] # leaving'[j])
    BY <1>1, <1>3, <2>1
  <2>5. \A w, u \in View : Touched(w)' /\ Touched(u)' => w = u
    <3>1. \A w \in View : Touched(w)' => Touched(w)
      BY <1>4 DEF Touched
    <3> QED
      BY <3>1 DEF WindowsInv, DevicesOK
  <2>6. \A w \in View : viewport'[w] = "running" => TrackpadOf[w] \in DOMAIN pointer_states'[w]
    BY <1>4 DEF WindowsInv, DevicesOK
  <2> QED
    BY <2>3, <2>4, <2>5, <2>6 DEF DevicesOK
<1>7. UnderWay'
  <2>1. windows' \cup closed' = windows \cup closed
    BY <1>1
  <2> QED
    BY <1>1, <2>1 DEF WindowsInv, UnderWay
<1>8. Placed'
  <2>1. /\ \A d, w : WillBeIn(d, w)' <=> WillBeIn(d, w)
        /\ \A u, w : WillBeLater(u, w)' <=> WillBeLater(u, w)
    BY <1>1 DEF WillBeIn, WillBeLater
  <2>2. \A w \in View : \A d \in DOMAIN pointer_states'[w] \ {Mouse} : WillBeIn(d, w)'
    <3> SUFFICES ASSUME NEW w \in View, NEW d \in DOMAIN pointer_states'[w] \ {Mouse}
                 PROVE  WillBeIn(d, w)'
      OBVIOUS
    <3>1. d \in DOMAIN pointer_states[w] \ {Mouse}
      BY <1>4
    <3> QED
      BY <2>1, <3>1 DEF WindowsInv, Placed
  <2>3. over' # NoView => over' = over /\ WillBeIn(Mouse, over)
    BY <1>1 DEF WindowsInv, Placed
  <2>4. over' # NoView => WillBeIn(Mouse, over')
    BY <2>3
  <2>5. \A j \in DOMAIN leaving' : \A i \in 1..(j - 1) :
          \A u, w : u = leaving'[i] /\ w = leaving'[j] => WillBeLater(u, w)
    <3> SUFFICES ASSUME NEW j \in DOMAIN leaving', NEW i \in 1..(j - 1),
                        NEW u, NEW w, u = leaving'[i], w = leaving'[j]
                 PROVE  WillBeLater(u, w)
      OBVIOUS
    <3>1. PICK k \in DOMAIN leaving : \E h \in 1..(k - 1) : u = leaving[h] /\ w = leaving[k]
      BY <1>3
    <3> QED
      BY <3>1 DEF WindowsInv, Placed
  <2>6. \A j \in DOMAIN leaving' : \A i \in 1..(j - 1) : WillBeLater(leaving[i], leaving[j])'
    BY <2>1, <2>5 DEF WillBeLater
  <2>7. over' # NoView => WillBeIn(Mouse, over)'
    BY <2>1, <2>4 DEF WillBeIn
  <2> QED
    BY <2>2, <2>6, <2>7 DEF Placed
<1>9. (\E L : Traced(L))'
  <2>1. PICK L : Traced(L)
    BY DEF WindowsInv
  <2>2. InboxInv(states_, windows \ {x}, L, inbox)
    BY <2>1, FewerWindows DEF Traced
  <2>3. \A d \in Device : \A w \in windows \ {x} : L[Len(inbox)][d][w] = Local(d, w)'
    BY <1>2, <1>4, <2>1 DEF Traced, Local
  <2>4. Traced(L)'
    BY <1>1, <2>2, <2>3 DEF Traced
  <2> QED
    BY <2>4
<1> QED
  BY <1>5, <1>6, <1>7, <1>8, <1>9 DEF WindowsInv

-----------------------------------------------------------------------------
(* The UI thread takes a packet.                                           *)

(* Of a window that is still there, it is one the window could send, as it *)
(* sees a device in state l.                                               *)
HeadSeen(e, l, m) ==
  /\ e \in RawData /\ e.device \in Device /\ PacketOK_(e, windows \cup closed)
  /\ e.view_id \in windows =>
       /\ Follows(l, e.change, m)
       /\ Known(e.device) /\ states_[e.device].view_id = e.view_id
            => SeenAs(states_[e.device], l)
       /\ l # "none" => Known(e.device)
       /\ e.change \notin {"add", "remove"} =>
            Known(e.device) /\ states_[e.device].view_id = e.view_id

LEMMA HeadIsSeen ==
  ASSUME WindowsInv, NEW L, Traced(L), inbox # <<>>
  PROVE  /\ Head(inbox) = inbox[1]
         /\ HeadSeen(inbox[1], L[0][inbox[1].device][inbox[1].view_id],
                     L[1][inbox[1].device][inbox[1].view_id])
<1> DEFINE e == inbox[1]
           d == e.device
           v == e.view_id
<1>1. /\ inbox \in Seq(RawData) /\ Head(inbox) = e /\ e \in RawData
      /\ 1 \in 1..Len(inbox) /\ 1 - 1 = 0 /\ PacketOK_(e, windows \cup closed)
  <2>1. inbox \in Seq(RawData) /\ \A i \in 1..Len(inbox) : PacketOK_(inbox[i], windows \cup closed)
    BY DEF WindowsInv, UnderWay
  <2>2. Head(inbox) = e /\ e \in RawData /\ Len(inbox) \in Nat \ {0}
    BY <2>1, TailFacts
  <2>3. 1 \in 1..Len(inbox) /\ 1 - 1 = 0
    BY <2>2
  <2> QED
    BY <2>1, <2>2, <2>3
<1>2. d \in Device
  BY <1>1, RawFields
<1>3. InboxInv(states_, windows, L, inbox)
  BY DEF Traced
<1>4. v \in windows => Follows(L[0][d][v], e.change, L[1][d][v])
  BY <1>1, <1>2, <1>3 DEF InboxInv, Fits, Of
<1>5. v \in windows => /\ Known(d) /\ states_[d].view_id = v => SeenAs(states_[d], L[0][d][v])
                       /\ L[0][d][v] # "none" => Known(d)
  BY <1>2, <1>3 DEF InboxInv, Begins, Known
<1>6. v \in windows /\ e.change \notin {"add", "remove"}
        => Known(d) /\ states_[d].view_id = v
  <2>1. v \in windows /\ e.change \notin {"add", "remove"} => Current(states_, inbox, 0, d, v)
    BY <1>1, <1>3 DEF InboxInv, Sent
  <2> QED
    BY <2>1 DEF Current, Known
<1> QED
  BY <1>1, <1>2, <1>4, <1>5, <1>6 DEF HeadSeen

(* So the assertions of the converter hold, and no gesture loses its       *)
(* device.                                                                 *)
LEMMA HeadIsExpected ==
  ASSUME WindowsInv, NEW e, NEW l, NEW m, HeadSeen(e, l, m), e.view_id \in windows
  PROVE  /\ Asserted(e)
         /\ (e.change \in {"down", "pan_zoom_start"} => pointer_ < MaxPointers) => Expected(e)
<1> DEFINE d == e.device
           v == e.view_id
           s == states_[d]
<1>1. /\ e \in RawData /\ d \in Device /\ v \in View
      /\ PacketOK_(e, windows \cup closed)
      /\ Follows(l, e.change, m)
      /\ Known(d) /\ s.view_id = v => SeenAs(s, l)
      /\ l # "none" => Known(d)
      /\ e.change \notin {"add", "remove"} => Known(d) /\ s.view_id = v
  BY RawFields DEF HeadSeen
<1>2. e.change # "cancel" /\ (d \in Trackpad => d = TrackpadOf[v])
  BY <1>1 DEF PacketOK_
<1> HIDE DEF d, v, s
<1>3. ASSUME e.change \notin {"add", "remove"}
      PROVE  /\ Known(d) /\ s.view_id = v /\ Follows(l, e.change, m) /\ l # "none"
             /\ s.is_down <=> l = "down"
             /\ s.is_pan_zoom_active <=> l = "pan"
  BY <1>1, <1>3 DEF SeenAs
<1>4. Asserted(e)
  <2>1. CASE e.change = "add"
    BY <2>1 DEF Asserted
  <2>2. CASE e.change = "remove"
    BY <1>1, <2>2 DEF Asserted, Follows, d
  <2>3. CASE e.change \in {"hover", "down"}
    BY <1>3, <2>3 DEF Asserted, Follows, d, s
  <2>4. CASE e.change \in {"move", "up"}
    BY <1>3, <2>4 DEF Asserted, Follows, d, s
  <2>5. CASE e.change = "pan_zoom_start"
    BY <1>3, <2>5 DEF Asserted, Follows, d, s
  <2>6. CASE e.change = "pan_zoom_update"
    BY <1>3, <2>6 DEF Asserted, Follows, d, s
  <2>7. CASE e.change = "pan_zoom_end"
    BY <1>3, <2>7 DEF Asserted, Follows, d, s
  <2>8. CASE e.change = "signal"
    BY <2>8 DEF Asserted
  <2>9. e.change \in Change
    BY <1>1, RawFields
  <2> QED
    BY <1>2, <2>1, <2>2, <2>3, <2>4, <2>5, <2>6, <2>7, <2>8, <2>9 DEF Change
<1>5. Known(d) /\ e.change \in {"add", "remove", "signal"} => ~s.is_pan_zoom_active
  <2> SUFFICES ASSUME Known(d), e.change \in {"add", "remove", "signal"}, s.is_pan_zoom_active
               PROVE  FALSE
    OBVIOUS
  <2>1. d \in Trackpad /\ d = TrackpadOf[s.view_id] /\ s.view_id \in View
    BY DEF WindowsInv, WindowsTypeOK, UnderWay, StateOf, Known, s
  <2>2. s.view_id = v
    BY <1>1, <1>2, <2>1, WindowsAssumption
  <2>3. l = "pan"
    BY <1>1, <2>2 DEF SeenAs
  <2> QED
    BY <1>1, <2>3 DEF Follows
<1>6. Known(d) /\ e.change \notin {"add", "remove"} => v = s.view_id
  BY <1>3
<1> QED
  BY <1>4, <1>5, <1>6 DEF Expected, d, v, s

(* The events of a window that is gone are ignored, as any others of it    *)
(* would be.                                                               *)
LEMMA IgnoredIsExpected ==
  ASSUME WindowsInv, NEW e, NEW l, NEW m, HeadSeen(e, l, m), e.view_id \notin windows,
         ConvertPointerData(e)
  PROVE  /\ \E f \in RawData : Expected(f) /\ ConvertPointerData(f)
         /\ states_' = states_
<1>1. views = windows
  BY DEF WindowsInv, WindowsTypeOK
<1>2. IgnoreUnknownView(e) /\ UNCHANGED views
  BY <1>1 DEF ConvertPointerData
<1>3. PICK at \in Place : TRUE
  BY ConverterAssumption
<1> DEFINE f == Raw("signal", Mouse, e.view_id, at, 0)
<1>4. e.view_id \in View /\ Mouse \in Device /\ Mouse \notin Trackpad
  BY RawFields, WindowsAssumption DEF HeadSeen
<1>5. /\ f \in RawData /\ f.view_id = e.view_id /\ f.device = Mouse /\ f.change = "signal"
  BY <1>4, RawEvent DEF Raw, Change
<1> HIDE DEF f
<1>6. Known(Mouse) => ~states_[Mouse].is_pan_zoom_active
  BY <1>4 DEF WindowsInv, UnderWay, StateOf, Known
<1>7. Asserted(f)
  BY <1>5 DEF Asserted
<1>8. Expected(f)
  BY <1>1, <1>4, <1>5, <1>6, <1>7 DEF Expected
<1>9. ConvertPointerData(f)
  BY <1>2, <1>5 DEF ConvertPointerData, IgnoreUnknownView
<1> QED
  BY <1>2, <1>5, <1>8, <1>9 DEF IgnoreUnknownView

(* A location is not what a window sees of a device.                       *)
LEMMA LocatedIsSeen ==
  ASSUME NEW e, NEW s \in PointerState
  PROVE  LET t == Located(e, s)
             u == [t EXCEPT !.is_down = FALSE]
             o == [t EXCEPT !.is_pan_zoom_active = FALSE]
         IN /\ t.view_id = s.view_id /\ t.is_down = s.is_down
            /\ t.is_pan_zoom_active = s.is_pan_zoom_active
            /\ u.view_id = s.view_id /\ ~u.is_down
            /\ u.is_pan_zoom_active = s.is_pan_zoom_active
            /\ o.view_id = s.view_id /\ o.is_down = s.is_down /\ ~o.is_pan_zoom_active
            /\ \A i : LET c == [t EXCEPT !.pointer_identifier = i, !.is_down = TRUE]
                          g == [t EXCEPT !.pointer_identifier = i,
                                         !.is_pan_zoom_active = TRUE, !.pan = 0]
                      IN /\ c.view_id = s.view_id /\ c.is_down
                         /\ c.is_pan_zoom_active = s.is_pan_zoom_active
                         /\ g.view_id = s.view_id /\ g.is_down = s.is_down
                         /\ g.is_pan_zoom_active
<1>1. Located(e, s) = s \/ Located(e, s) = [s EXCEPT !.physical = e.physical, !.pan = e.pan]
  BY DEF Located, UpdateState
<1>2. CASE Located(e, s) = s
  BY <1>2 DEF PointerState
<1>3. CASE Located(e, s) = [s EXCEPT !.physical = e.physical, !.pan = e.pan]
  BY <1>3 DEF PointerState
<1> QED
  BY <1>1, <1>2, <1>3

LEMMA HeadIsTaken ==
  ASSUME WindowsInv, ConverterInv, NEW e, NEW l, NEW m, HeadSeen(e, l, m),
         ConvertPointerData(e)
  PROVE  Taken(states_, states_', windows, e, m)
<1> DEFINE d == e.device
           v == e.view_id
           s == states_[d]
<1>1. CASE v \notin windows
  BY <1>1, IgnoredIsExpected DEF Taken
<1>2. CASE v \in windows
  <2>1. /\ Follows(l, e.change, m)
        /\ e.change \notin {"add", "remove"} =>
             Known(d) /\ s.view_id = v /\ SeenAs(s, l)
        /\ e.change # "cancel"
    BY <1>2 DEF HeadSeen, PacketOK_
  <2>2. v \in views
    BY <1>2 DEF WindowsInv, WindowsTypeOK
  <2>3. ASSUME NEW t, states_' = Store(states_, d, t), t.view_id = v, SeenAs(t, m),
               e.change # "remove"
        PROVE  Taken(states_, states_', windows, e, m)
    BY <1>2, <2>3 DEF Taken
  <2>4. CASE Add(e)
    <3>1. e.change = "add" /\ states_' = Store(states_, d, EnsurePointerState(e)) /\ m = "up"
      BY <2>1, <2>4 DEF Add, Emit, Follows
    <3>2. EnsurePointerState(e).view_id = v /\ SeenAs(EnsurePointerState(e), m)
      BY <3>1 DEF EnsurePointerState, SeenAs
    <3> QED
      BY <2>3, <3>1, <3>2
  <2>5. CASE RemoveElsewhere(e)
    BY <1>2, <2>5 DEF RemoveElsewhere, Taken
  <2>6. CASE Remove(e)
    BY <1>2, <2>6 DEF Remove, Taken
  <2>7. ASSUME e.change \notin {"add", "remove"}
        PROVE  Taken(states_, states_', windows, e, m)
    <3>1. /\ s \in PointerState /\ s.view_id = v /\ StateFor(e) = s
          /\ l # "none" /\ (s.is_down <=> l = "down") /\ (s.is_pan_zoom_active <=> l = "pan")
      BY <2>1, <2>7 DEF Known, ConverterInv, StateOK, StateFor, SeenAs
    <3> HIDE DEF s
    <3>2. CASE Hover(e) \/ Signal(e)
      <4> DEFINE t == Located(e, s)
      <4>1. states_' = Store(states_, d, t) /\ m = l
        BY <2>1, <3>1, <3>2 DEF Hover, Signal, Emit, Follows
      <4>2. t.view_id = v /\ t.is_down = s.is_down /\ t.is_pan_zoom_active = s.is_pan_zoom_active
        BY <3>1, LocatedIsSeen
      <4> HIDE DEF t
      <4>3. SeenAs(t, m)
        BY <3>1, <4>1, <4>2 DEF SeenAs
      <4> QED
        BY <2>3, <2>7, <4>1, <4>2, <4>3
    <3>3. CASE Down(e)
      <4> DEFINE t == [Located(e, s) EXCEPT !.pointer_identifier = pointer_', !.is_down = TRUE]
      <4>1. states_' = Store(states_, d, t) /\ l = "up" /\ m = "down"
        BY <2>1, <3>1, <3>3 DEF Down, Emit, Follows
      <4>2. t.view_id = v /\ t.is_down /\ t.is_pan_zoom_active = s.is_pan_zoom_active
        BY <3>1, LocatedIsSeen
      <4> HIDE DEF t
      <4>3. SeenAs(t, m)
        BY <3>1, <4>1, <4>2 DEF SeenAs
      <4> QED
        BY <2>3, <2>7, <4>1, <4>2, <4>3
    <3>4. CASE Move(e) \/ PanZoomUpdate(e)
      <4> DEFINE t == UpdateState(e, s)
      <4>1. states_' = Store(states_, d, t) /\ m = l
        BY <2>1, <3>1, <3>4 DEF Move, PanZoomUpdate, Emit, Follows, s
      <4>2. t.view_id = v /\ t.is_down = s.is_down /\ t.is_pan_zoom_active = s.is_pan_zoom_active
        BY <3>1 DEF UpdateState, PointerState
      <4> HIDE DEF t
      <4>3. SeenAs(t, m)
        BY <3>1, <4>1, <4>2 DEF SeenAs
      <4> QED
        BY <2>3, <2>7, <4>1, <4>2, <4>3
    <3>5. CASE Up(e)
      <4> DEFINE t == [Located(Identified(e, s), s) EXCEPT !.is_down = FALSE]
      <4>1. states_' = Store(states_, d, t) /\ l = "down" /\ m = "up"
        BY <2>1, <3>5 DEF Up, Emit, Follows, s
      <4>2. t.view_id = v /\ ~t.is_down /\ t.is_pan_zoom_active = s.is_pan_zoom_active
        BY <3>1, LocatedIsSeen
      <4> HIDE DEF t
      <4>3. SeenAs(t, m)
        BY <3>1, <4>1, <4>2 DEF SeenAs
      <4> QED
        BY <2>3, <2>7, <4>1, <4>2, <4>3
    <3>6. CASE PanZoomStart(e)
      <4> DEFINE t == [Located(e, s) EXCEPT !.pointer_identifier = pointer_',
                                            !.is_pan_zoom_active = TRUE, !.pan = 0]
      <4>1. states_' = Store(states_, d, t) /\ l = "up" /\ m = "pan"
        BY <2>1, <3>1, <3>6 DEF PanZoomStart, Emit, Follows
      <4>2. t.view_id = v /\ t.is_down = s.is_down /\ t.is_pan_zoom_active
        BY <3>1, LocatedIsSeen
      <4> HIDE DEF t
      <4>3. SeenAs(t, m)
        BY <3>1, <4>1, <4>2 DEF SeenAs
      <4> QED
        BY <2>3, <2>7, <4>1, <4>2, <4>3
    <3>7. CASE PanZoomEnd(e)
      <4> DEFINE last == [As(Identified(e, s), "pan_zoom_update") EXCEPT !.pan = s.pan]
                 t == [Located(last, s) EXCEPT !.is_pan_zoom_active = FALSE]
      <4>1. states_' = Store(states_, d, t) /\ l = "pan" /\ m = "up"
        BY <2>1, <3>7 DEF PanZoomEnd, Emit, Follows, s
      <4>2. t.view_id = v /\ t.is_down = s.is_down /\ ~t.is_pan_zoom_active
        BY <3>1, LocatedIsSeen
      <4> HIDE DEF t
      <4>3. SeenAs(t, m)
        BY <3>1, <4>1, <4>2 DEF SeenAs
      <4> QED
        BY <2>3, <2>7, <4>1, <4>2, <4>3
    <3>8. \/ Hover(e) \/ Signal(e) \/ Down(e) \/ Move(e) \/ PanZoomUpdate(e) \/ Up(e)
          \/ PanZoomStart(e) \/ PanZoomEnd(e)
      BY <2>1, <2>2, <2>7 DEF ConvertPointerData, IgnoreUnknownView, CancelUnknown, CancelKnown,
                              Add, RemoveElsewhere, Remove
    <3> QED
      BY <3>2, <3>3, <3>4, <3>5, <3>6, <3>7, <3>8
  <2>8. CASE e.change \in {"add", "remove"}
    <3>1. Add(e) \/ RemoveElsewhere(e) \/ Remove(e)
      BY <2>2, <2>8 DEF ConvertPointerData, IgnoreUnknownView, CancelUnknown, CancelKnown,
                        Hover, Down, Move, Up, PanZoomStart, PanZoomUpdate, PanZoomEnd, Signal
    <3> QED
      BY <2>4, <2>5, <2>6, <3>1
  <2> QED
    BY <2>7, <2>8
<1> QED
  BY <1>1, <1>2

LEMMA DispatchIsExpected ==
  ASSUME WindowsInv, DispatchPointerDataPacket
  PROVE  ConverterNext
<1>1. PICK L : Traced(L)
  BY DEF WindowsInv
<1> DEFINE e == inbox[1]
<1>2. PICK l, m : HeadSeen(e, l, m)
  BY <1>1, HeadIsSeen DEF DispatchPointerDataPacket
<1>3. /\ ConvertPointerData(e)
      /\ e.change \in {"down", "pan_zoom_start"} => pointer_ < MaxPointers
  BY <1>1, HeadIsSeen DEF DispatchPointerDataPacket
<1> HIDE DEF e
<1>4. CASE e.view_id \in windows
  <2>1. Expected(e) /\ e \in RawData
    BY <1>2, <1>3, <1>4, HeadIsExpected DEF HeadSeen
  <2> QED
    BY <1>3, <2>1 DEF ConverterNext
<1>5. CASE e.view_id \notin windows
  <2>1. \E f \in RawData : Expected(f) /\ ConvertPointerData(f)
    BY <1>2, <1>3, <1>5, IgnoredIsExpected
  <2> QED
    BY <2>1 DEF ConverterNext
<1> QED
  BY <1>4, <1>5

LEMMA DispatchKeeps ==
  ASSUME WindowsInv, ConverterInv, ConverterInv', DispatchPointerDataPacket
  PROVE  WindowsInv'
<1>1. PICK L : Traced(L)
  BY DEF WindowsInv
<1> DEFINE n == Len(inbox)
           e == inbox[1]
           m == L[1][e.device][e.view_id]
           M == [i \in 0..(n - 1) |-> L[i + 1]]
<1>2. /\ inbox # <<>> /\ inbox \in Seq(RawData) /\ windows \in SUBSET View
      /\ InboxInv(states_, windows, L, inbox)
      /\ \A d \in Device : \A v \in windows : L[n][d][v] = Local(d, v)
  BY <1>1 DEF DispatchPointerDataPacket, WindowsInv, WindowsTypeOK, UnderWay, Traced
<1>3. /\ HeadSeen(e, L[0][e.device][e.view_id], m) /\ Head(inbox) = e
  BY <1>1, <1>2, HeadIsSeen
<1>4. /\ ConvertPointerData(e) /\ inbox' = Tail(inbox) /\ views' = views
      /\ UNCHANGED <<windows, closed, pointer_states, over, leaving, viewport>>
  BY <1>3 DEF DispatchPointerDataPacket, ConvertPointerData
<1> HIDE DEF e, m
<1>5. Taken(states_, states_', windows, e, m)
  BY <1>3, <1>4, HeadIsTaken
<1>6. Takes(states_, states_', windows, L, inbox)
  BY <1>2, <1>5 DEF Takes, e, m
<1>7. /\ n \in Nat \ {0} /\ Len(inbox') = n - 1 /\ inbox' \in Seq(RawData)
      /\ \A i \in 1..(n - 1) : inbox'[i] = inbox[i + 1]
      /\ n \in 1..n /\ n - 1 + 1 = n /\ n - 1 \in 0..(n - 1)
  <2>1. /\ n \in Nat \ {0} /\ Len(inbox') = n - 1 /\ inbox' \in Seq(RawData)
        /\ \A i \in 1..(n - 1) : inbox'[i] = inbox[i + 1]
    BY <1>2, <1>4, TailFacts
  <2> QED
    BY <2>1
<1>8. WindowsTypeOK'
  BY <1>4 DEF WindowsInv, WindowsTypeOK
<1>9. DevicesOK'
  BY <1>4 DEF WindowsInv, DevicesOK, MouseIsIn, Touched
<1>10. UnderWay'
  <2>1. \A i \in 1..Len(inbox') : PacketOK_(inbox'[i], windows \cup closed)
    <3>1. \A i \in 1..(n - 1) : i + 1 \in 1..n
      BY <1>7
    <3>2. \A i \in 1..n : PacketOK_(inbox[i], windows \cup closed)
      BY DEF WindowsInv, UnderWay
    <3> QED
      BY <1>7, <3>1, <3>2
  <2>2. \A d \in DOMAIN states_' : StateOf(d, states_'[d], windows \cup closed)
    <3> SUFFICES ASSUME NEW d \in DOMAIN states_'
                 PROVE  StateOf(d, states_'[d], windows \cup closed)
      OBVIOUS
    <3>1. CASE d \in DOMAIN states_ /\ states_'[d] = states_[d]
      BY <3>1 DEF WindowsInv, UnderWay
    <3>2. CASE e.view_id \in windows /\ d = e.device /\ states_'[d].view_id = e.view_id
      <4>1. d \in Trackpad => d = TrackpadOf[e.view_id]
        BY <1>3, <3>2 DEF HeadSeen, PacketOK_
      <4>2. states_'[d].is_pan_zoom_active => d \in Trackpad
        BY DEF ConverterInv, StateOK
      <4> QED
        BY <3>2, <4>1, <4>2 DEF StateOf
    <3>3. \/ d \in DOMAIN states_ /\ states_'[d] = states_[d]
          \/ e.view_id \in windows /\ d = e.device /\ states_'[d].view_id = e.view_id
      BY <1>5 DEF Taken, Store, Drop
    <3> QED
      BY <3>1, <3>2, <3>3
  <2> QED
    BY <1>4, <1>7, <2>1, <2>2 DEF UnderWay
<1>11. \A d \in Device : \A v \in windows :
         /\ WillBeIn(d, v) /\ Local(d, v) # "none" => WillBeIn(d, v)'
         /\ \A w \in windows \ {v} :
              WillBeLater(v, w) /\ d = Mouse /\ Local(d, w) # "none" => WillBeLater(v, w)'
  <2> SUFFICES ASSUME NEW d \in Device, NEW v \in windows
               PROVE  /\ WillBeIn(d, v) /\ Local(d, v) # "none" => WillBeIn(d, v)'
                      /\ \A w \in windows \ {v} :
                           WillBeLater(v, w) /\ d = Mouse /\ Local(d, w) # "none"
                             => WillBeLater(v, w)'
    OBVIOUS
  <2>1. /\ Current(states_, inbox, n, d, v) /\ L[n][d][v] # "none"
             => Current(states_', Tail(inbox), n - 1, d, v)
        /\ \A w \in windows \ {v} :
             Later(states_, inbox, n, d, v, w) /\ L[n][d][w] # "none"
               => Later(states_', Tail(inbox), n - 1, d, v, w)
    BY <1>6, <1>7, ShiftKept
  <2>2. \A w \in windows : L[n][d][w] = Local(d, w)
    BY <1>2
  <2> QED
    BY <1>4, <1>7, <2>1, <2>2 DEF WillBeIn, WillBeLater
<1>12. Placed'
  <2>1. ASSUME NEW v \in View, NEW d \in DOMAIN pointer_states[v], WillBeIn(d, v)
        PROVE  WillBeIn(d, v)'
    <3>1. v \in windows /\ d \in Device
      BY DEF WindowsInv, WindowsTypeOK
    <3>2. Local(d, v) # "none"
      BY DEF Local
    <3> QED
      BY <1>11, <2>1, <3>1, <3>2
  <2>2. \A v \in View : \A d \in DOMAIN pointer_states'[v] \ {Mouse} : WillBeIn(d, v)'
    BY <1>4, <2>1 DEF WindowsInv, Placed
  <2>3. over # NoView => \A w : w = over => WillBeIn(Mouse, w)'
    BY <2>1, MouseIsOver
  <2>4. \A j \in DOMAIN leaving : \A i \in 1..(j - 1) :
          \A u, w : u = leaving[i] /\ w = leaving[j] => WillBeLater(u, w)'
    <3> SUFFICES ASSUME NEW j \in DOMAIN leaving, NEW i \in 1..(j - 1),
                        NEW u, NEW w, u = leaving[i], w = leaving[j]
                 PROVE  WillBeLater(u, w)'
      OBVIOUS
    <3>1. WillBeLater(u, w)
      BY DEF WindowsInv, Placed
    <3>2. i \in DOMAIN leaving /\ i # j /\ leaving \in Seq(windows)
      BY DEF WindowsInv, WindowsTypeOK
    <3>3. u \in windows /\ w \in windows /\ u # w
      BY <3>2 DEF WindowsInv, DevicesOK
    <3>4. Mouse \in DOMAIN pointer_states[w] /\ Mouse \in Device
      BY <1>2, <3>3, WindowsAssumption DEF WindowsInv, DevicesOK, MouseIsIn
    <3>5. Local(Mouse, w) # "none"
      BY <3>4 DEF Local
    <3> QED
      BY <1>11, <3>1, <3>3, <3>4, <3>5
  <2>5. \A j \in DOMAIN leaving' : \A i \in 1..(j - 1) : WillBeLater(leaving[i], leaving[j])'
    BY <1>4, <2>4 DEF WillBeLater
  <2> QED
    BY <1>4, <2>2, <2>3, <2>5 DEF Placed, WillBeIn
<1>13. (\E K : Traced(K))'
  <2>1. InboxInv(states_', windows, M, inbox')
    BY <1>4, <1>6, TakeKeeps
  <2>2. M[n - 1] = L[n]
    BY <1>7
  <2>3. \A d \in Device : \A v \in windows : Local(d, v)' = Local(d, v)
    BY <1>4 DEF Local
  <2> HIDE DEF M
  <2>4. \A d \in Device : \A v \in windows : M[Len(inbox')][d][v] = Local(d, v)'
    <3>1. M[Len(inbox')] = L[n]
      BY <1>7, <2>2
    <3> SUFFICES ASSUME NEW d \in Device, NEW v \in windows
                 PROVE  M[Len(inbox')][d][v] = Local(d, v)'
      OBVIOUS
    <3>2. L[n][d][v] = Local(d, v) /\ Local(d, v)' = Local(d, v)
      BY <1>2, <2>3
    <3> QED
      BY <3>1, <3>2
  <2>5. PICK K : K = M
    OBVIOUS
  <2>6. Traced(K)'
    BY <1>4, <2>1, <2>4, <2>5 DEF Traced
  <2> QED
    BY <2>6
<1> QED
  BY <1>8, <1>9, <1>10, <1>12, <1>13 DEF WindowsInv

-----------------------------------------------------------------------------
(* When no device is added and nothing is under way, both ends may start   *)
(* from nothing.                                                           *)
LEMMA NothingUnderWay ==
  ASSUME NEW st, DOMAIN st = {}, NEW W \in SUBSET View
  PROVE  LET L == [i \in 0..0 |-> [d \in Device |-> [v \in View |-> "none"]]]
         IN /\ InboxInv(st, W, L, <<>>)
            /\ \A d \in Device : \A v \in W : L[0][d][v] = "none"
<1> DEFINE L == [i \in 0..0 |-> [d \in Device |-> [v \in View |-> "none"]]]
<1>1. /\ L \in [0..0 -> [Device -> [View -> Seeing]]]
      /\ \A d \in Device : \A v \in W : L[0][d][v] = "none"
  BY DEF Seeing
<1>2. Len(<<>>) = 0 /\ 1..0 = {}
  OBVIOUS
<1> HIDE DEF L
<1>3. Fits(W, L, <<>>) /\ Sent(st, W, <<>>) /\ Removed(st, W, L, <<>>)
  BY <1>2 DEF Fits, Sent, Removed
<1>4. Begins(st, W, L)
  BY <1>1 DEF Begins
<1>5. ComesByAdd(W, L, <<>>)
  <2>1. \A j \in 0..Len(<<>>) : j = 0 /\ \A i \in 0..j : i = j
    BY <1>2
  <2> QED
    BY <2>1 DEF ComesByAdd
<1> QED
  BY <1>1, <1>2, <1>3, <1>4, <1>5 DEF InboxInv, L

LEMMA RestartKeeps ==
  ASSUME WindowsInv, HotRestart, RestartAnyTime = FALSE
  PROVE  WindowsInv'
<1>1. /\ inbox = <<>> /\ \A v \in View : DOMAIN pointer_states[v] = {}
      /\ DOMAIN states_' = {} /\ views' = views
      /\ UNCHANGED <<windows, closed, pointer_states, over, leaving, viewport, inbox>>
  BY DEF HotRestart, Restart, windowsVars
<1>2. windows \in SUBSET View /\ over \in windows \cup {NoView} /\ leaving \in Seq(windows)
  BY DEF WindowsInv, WindowsTypeOK
<1>3. WindowsTypeOK' /\ DevicesOK'
  BY <1>1 DEF WindowsInv, WindowsTypeOK, DevicesOK, MouseIsIn, Touched
<1>4. UnderWay'
  BY <1>1 DEF WindowsInv, UnderWay
<1>5. Placed'
  <2>1. over = NoView
    BY <1>1, MouseIsOver
  <2>2. DOMAIN leaving = {}
    <3> SUFFICES ASSUME NEW i \in DOMAIN leaving
                 PROVE  FALSE
      OBVIOUS
    <3>1. leaving[i] \in View /\ leaving[i] \in windows
      BY <1>2
    <3>2. Mouse \in DOMAIN pointer_states[leaving[i]]
      BY <3>1 DEF WindowsInv, DevicesOK, MouseIsIn
    <3> QED
      BY <1>1, <3>1, <3>2
  <2> QED
    BY <1>1, <2>1, <2>2 DEF Placed
<1>6. (\E L : Traced(L))'
  <2>1. PICK L : /\ InboxInv(states_', windows, L, <<>>)
                 /\ \A d \in Device : \A v \in windows : L[0][d][v] = "none"
    BY <1>1, <1>2, NothingUnderWay
  <2>2. \A d \in Device : \A v \in windows : Local(d, v)' = "none"
    BY <1>1, <1>2 DEF Local
  <2>3. Traced(L)'
    BY <1>1, <2>1, <2>2 DEF Traced
  <2> QED
    BY <2>3
<1> QED
  BY <1>3, <1>4, <1>5, <1>6 DEF WindowsInv

LEMMA WindowsInit ==
  ASSUME Init
  PROVE  WindowsInv
<1>1. /\ DOMAIN states_ = {} /\ views = windows /\ windows = {ImplicitView} /\ closed = {}
      /\ DOMAIN pointer_states = View /\ \A v \in View : DOMAIN pointer_states[v] = {}
      /\ over = NoView /\ leaving = <<>> /\ viewport = [v \in View |-> "ready"]
      /\ inbox = <<>>
  BY DEF Init, ConverterInit
<1>2. windows \in SUBSET View
  BY <1>1, ConverterAssumption
<1>3. WindowsTypeOK
  BY <1>1, <1>2 DEF WindowsTypeOK
<1>4. DevicesOK
  BY <1>1, <1>2, WindowsAssumption DEF DevicesOK, MouseIsIn, Touched
<1>5. UnderWay
  BY <1>1 DEF UnderWay
<1>6. Placed
  BY <1>1 DEF Placed
<1>7. \E L : Traced(L)
  <2>1. PICK L : /\ InboxInv(states_, windows, L, <<>>)
                 /\ \A d \in Device : \A v \in windows : L[0][d][v] = "none"
    BY <1>1, <1>2, NothingUnderWay
  <2>2. \A d \in Device : \A v \in windows : Local(d, v) = "none"
    BY <1>1, <1>2 DEF Local
  <2>3. Traced(L)
    BY <1>1, <2>1, <2>2 DEF Traced
  <2> QED
    BY <2>3
<1> QED
  BY <1>3, <1>4, <1>5, <1>6, <1>7 DEF WindowsInv

-----------------------------------------------------------------------------
(* Every step.                                                             *)

(* What a step of the windows is for the converter: one of any embedding's *)
(* steps, or none.                                                         *)
LEMMA WindowsStep ==
  ASSUME WindowsInv, Next
  PROVE  [ConverterNext]_converterVars
<1>1. ASSUME NEW v \in View, CreateView(v) \/ DestroyView(v)
      PROVE  ConverterNext
  BY <1>1 DEF CreateView, DestroyView, ConverterNext
<1>2. CASE DispatchPointerDataPacket
  BY <1>2, DispatchIsExpected
<1>3. CASE HotRestart
  BY <1>3 DEF HotRestart, ConverterNext
<1>4. CASE MouseExits
  BY <1>4 DEF MouseExits
<1>5. ASSUME NEW v, NEW d, NEW s, NEW t, NEW change, NEW at, NEW pan,
             Send(v, d, s, t, change, at, pan)
      PROVE  UNCHANGED converterVars
  BY <1>5 DEF Send, Post
<1>6. ASSUME NEW at \in Place, NEW button,
             \/ OnMouseMove(at) \/ OnMouseLeave(at) \/ OnScroll(at)
             \/ OnMouseDown(button, at) \/ OnMouseUp(button, at)
      PROVE  UNCHANGED converterVars
  BY <1>5, <1>6 DEF OnMouseMove, OnMouseLeave, OnScroll, OnMouseDown, OnMouseUp,
     SendPointerMove, SendPointerLeave, SendSignal, SendPointerDown, SendPointerUp, Post
<1>7. ASSUME NEW at \in Place, NEW v \in View,
             \/ MouseEnters(v, at) \/ OnTouchDown(v, at) \/ OnTouchMove(v, at)
             \/ OnTouchUp(v, at)
      PROVE  UNCHANGED converterVars
  BY <1>5, <1>7 DEF MouseEnters, OnTouchDown, OnTouchMove, OnTouchUp,
     SendPointerMove, SendPointerDown, Post
<1>8. ASSUME NEW v \in View, NEW status,
             \/ OnGestureStart(v) \/ OnContentUpdated(v) \/ OnInertiaEnd(v)
             \/ OnGestureEnd(v, status)
      PROVE  UNCHANGED converterVars
  BY <1>5, <1>8 DEF OnGestureStart, OnContentUpdated, OnInertiaEnd, OnGestureEnd,
     SendPanZoom, SendSignal
<1> QED
  BY <1>1, <1>2, <1>3, <1>4, <1>6, <1>7, <1>8 DEF Next

LEMMA WindowsNextKeeps ==
  ASSUME RestartAnyTime = FALSE, WheelToFocus = FALSE, WindowsInv, ConverterInv, ConverterInv', Next
  PROVE  WindowsInv'
<1>1. ASSUME NEW at \in Place, NEW button \in Button,
             \/ OnMouseMove(at) \/ OnMouseLeave(at) \/ OnScroll(at)
             \/ OnMouseDown(button, at) \/ OnMouseUp(button, at)
      PROVE  WindowsInv'
  BY <1>1, MouseKeeps, MouseLeaveKeeps
<1>2. ASSUME NEW at \in Place, NEW v \in View,
             \/ MouseEnters(v, at) \/ OnTouchDown(v, at) \/ OnTouchMove(v, at)
             \/ OnTouchUp(v, at)
      PROVE  WindowsInv'
  BY <1>2, MouseEntersKeeps, TouchKeeps, TouchUpKeeps
<1>3. ASSUME NEW v \in View, NEW status \in {"ready", "inertia"},
             \/ OnGestureStart(v) \/ OnContentUpdated(v) \/ OnInertiaEnd(v)
             \/ OnGestureEnd(v, status)
      PROVE  WindowsInv'
  BY <1>3, GestureKeeps, InertiaKeeps
<1>4. ASSUME NEW v \in View, CreateView(v) \/ DestroyView(v)
      PROVE  WindowsInv'
  BY <1>4, CreateViewKeeps, DestroyViewKeeps
<1>5. CASE MouseExits
  BY <1>5, MouseExitsKeeps
<1>6. CASE DispatchPointerDataPacket
  BY <1>6, DispatchKeeps
<1>7. CASE HotRestart
  BY <1>7, RestartKeeps
<1>8. Left \in Button
  BY WindowsAssumption
<1> QED
  BY <1>1, <1>2, <1>3, <1>4, <1>5, <1>6, <1>7, <1>8 DEF Next

LEMMA StutterKeeps ==
  ASSUME WindowsInv, UNCHANGED vars
  PROVE  WindowsInv'
<1>1. UNCHANGED <<states_, views, windows, closed, pointer_states, over, leaving, viewport, inbox>>
  BY DEF vars, converterVars, windowsVars
<1>2. WindowsTypeOK' /\ DevicesOK' /\ UnderWay'
  BY <1>1 DEF WindowsInv, WindowsTypeOK, DevicesOK, MouseIsIn, Touched, UnderWay
<1>3. Placed'
  BY <1>1 DEF WindowsInv, Placed, WillBeIn, WillBeLater
<1>4. (\E L : Traced(L))'
  BY <1>1 DEF WindowsInv, Traced, Local
<1> QED
  BY <1>2, <1>3, <1>4 DEF WindowsInv

LEMMA WindowsInvIsKept ==
  ASSUME RestartAnyTime = FALSE, WheelToFocus = FALSE
  PROVE  Spec => [](WindowsInv /\ ConverterInv)
<1>1. Init => WindowsInv /\ ConverterInv
  BY WindowsInit, ConverterStarts DEF Init
<1>2. WindowsInv /\ ConverterInv /\ [Next]_vars => (WindowsInv /\ ConverterInv)'
  <2> SUFFICES ASSUME WindowsInv, ConverterInv, [Next]_vars
               PROVE  (WindowsInv /\ ConverterInv)'
    OBVIOUS
  <2>1. [ConverterNext]_converterVars
    BY WindowsStep DEF vars
  <2>2. ConverterInv'
    BY <2>1, ConverterKeeps
  <2>3. WindowsInv'
    BY <2>2, WindowsNextKeeps, StutterKeeps
  <2> QED
    BY <2>2, <2>3
<1> QED
  BY <1>1, <1>2, PTL DEF Spec

(* Unless the engine restarts while devices are added, the converter and   *)
(* the windows never fall apart: whatever is under way, the next event is  *)
(* one the converter's assertions admit, and when nothing is under way the *)
(* two ends agree on the devices and on whether they are down.             *)
(* [flutter_windows_view.cc:577-651, pointer_data_packet_converter.cc]     *)
THEOREM EndsStayTogether ==
  ASSUME RestartAnyTime = FALSE, WheelToFocus = FALSE
  PROVE  Spec => [](TypeOK /\ AssertionsHold /\ EndsAgree)
<1>1. WindowsInv => TypeOK
  BY DEF WindowsInv, WindowsTypeOK, UnderWay, PointerOK, TypeOK
<1>2. WindowsInv => AssertionsHold
  <2> SUFFICES ASSUME WindowsInv, inbox # <<>>, Head(inbox).view_id \in views
               PROVE  Asserted(Head(inbox))
    BY DEF AssertionsHold
  <2>1. PICK L : Traced(L)
    BY DEF WindowsInv
  <2>2. /\ Head(inbox) = inbox[1]
        /\ HeadSeen(inbox[1], L[0][inbox[1].device][inbox[1].view_id],
                    L[1][inbox[1].device][inbox[1].view_id])
    BY <2>1, HeadIsSeen
  <2>3. inbox[1].view_id \in windows
    BY <2>2 DEF WindowsInv, WindowsTypeOK
  <2> QED
    BY <2>2, <2>3, HeadIsExpected
<1>3. WindowsInv /\ ConverterInv => EndsAgree
  <2> SUFFICES ASSUME WindowsInv, ConverterInv, inbox = <<>>,
                      NEW v \in windows, NEW d \in DOMAIN pointer_states[v]
               PROVE  /\ Known(d)
                      /\ states_[d].view_id = v =>
                           states_[d].is_down = pointer_states[v][d].flutter_state_is_down
    BY DEF EndsAgree
  <2>1. PICK L : Traced(L)
    BY DEF WindowsInv
  <2>2. d \in Device /\ PointerOK(d, v, pointer_states[v][d])
    BY DEF WindowsInv, WindowsTypeOK
  <2>3. /\ L[0][d][v] = Local(d, v)
        /\ d \in DOMAIN states_ /\ states_[d].view_id = v => SeenAs(states_[d], L[0][d][v])
        /\ L[0][d][v] # "none" => d \in DOMAIN states_
    BY <2>1, <2>2 DEF Traced, InboxInv, Begins
  <2>4. Known(d)
    BY <2>3 DEF Local, Known
  <2>5. pointer_states[v][d].flutter_state_is_down \in BOOLEAN
        /\ (Local(d, v) = "down" <=> pointer_states[v][d].flutter_state_is_down)
    BY <2>2 DEF Local, PointerOK, Pointer
  <2>6. states_[d].is_down \in BOOLEAN
    BY <2>4 DEF Known, ConverterInv, StateOK, PointerState
  <2> QED
    BY <2>3, <2>4, <2>5, <2>6 DEF SeenAs, Known
<1> QED
  BY <1>1, <1>2, <1>3, WindowsInvIsKept, PTL

(* The Windows embedding is one of those that the converter is made for,   *)
(* whatever the order of events, views and packets:                        *)
(* [embedder.h:1255-1260, flutter_windows_view.cc:577-651]                 *)
THEOREM WindowsIsAnEmbedding ==
  ASSUME RestartAnyTime = FALSE, WheelToFocus = FALSE
  PROVE  Spec => ImplementsEmbedding
<1>1. Init => ConverterInit
  BY DEF Init
<1>2. WindowsInv /\ [Next]_vars => [ConverterNext]_converterVars
  BY WindowsStep DEF vars
<1> QED
  BY <1>1, <1>2, WindowsInvIsKept, PTL DEF Spec, ImplementsEmbedding, ConverterSpec

(* The framework therefore accepts every event that comes from Windows, no *)
(* location jumps, and nothing the converter knows is kept from it.        *)
(* [gestures/binding.dart:395-424, mouse_tracker.dart:218-220]             *)
THEOREM WindowsStreamIsClean ==
  ASSUME RestartAnyTime = FALSE, WheelToFocus = FALSE
  PROVE  Spec => []ReaderAgrees /\ StreamIsLegal /\ LocationIsContinuous
BY WindowsIsAnEmbedding, ReaderKnowsTheDevices, StreamIsClean, PTL DEF ImplementsEmbedding

===============================================================================
