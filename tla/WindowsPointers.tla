--------------------------- MODULE WindowsPointers ---------------------------
(***************************************************************************)
(* The pointer events of the Windows embedding: FlutterWindow turns window *)
(* messages into calls of its FlutterWindowsView, which keeps a state per  *)
(* device and posts one packet per event to the UI thread, where the       *)
(* converter of PointerDataConverter takes them.  Views are created and    *)
(* removed meanwhile, and the engine may be restarted under all this.      *)
(*                                                                         *)
(* The mouse has the same device id in every window, and so has the first  *)
(* touch point (each window has a generator of its own); the trackpad has  *)
(* an id that depends on the window.  Windows sends WM_MOUSEMOVE first to  *)
(* a window the mouse comes to, WM_MOUSELEAVE to those it has left, in     *)
(* this order but perhaps late, and nothing of the mouse elsewhere while a *)
(* window has captured it (left button).  The wheel is turned in the       *)
(* window under the mouse, or, as older systems and a setting of newer     *)
(* ones have it, in the window that has the focus (WheelToFocus).  A       *)
(* WM_MOUSELEAVE is taken to carry the mouse's mark, as flutter_window.cc: *)
(* 580-591 ignores one that carries that of touch or of a pen.             *)
(***************************************************************************)
EXTENDS PointerDataConverter

CONSTANTS
  Mouse, Touch,      \* device ids that are the same in all windows
  TrackpadOf,        \* the device id of the trackpad in each window
  Button,            \* mouse buttons
  Left,              \* the one that captures the mouse
  NoView,
  MergedUI,          \* the UI thread is the platform thread
  MaxInbox,          \* bound: packets under way
  RestartAnyTime,    \* FALSE: a restart finds no device added
  WheelToFocus       \* FALSE: the wheel goes to the window under the mouse

ASSUME WindowsAssumption ==
  /\ {Mouse, Touch} \subseteq Device \ Trackpad /\ Mouse # Touch
  /\ TrackpadOf \in [View -> Trackpad]
  /\ \A v, w \in View : TrackpadOf[v] = TrackpadOf[w] => v = w
  /\ Left \in Button /\ NoView \notin View
  /\ MaxInbox \in Nat
  /\ {MergedUI, RestartAnyTime, WheelToFocus} \subseteq BOOLEAN

VARIABLES
  windows,           \* the FlutterWindowsViews there are
  closed,            \* views that were removed; their ids are not used again
  pointer_states,    \* [view -> [device -> state]]
  over,              \* the window the mouse is in
  leaving,           \* the windows that WM_MOUSELEAVE is under way to
  viewport,          \* the status of each window's DirectManipulation viewport
  inbox              \* the packets posted to the UI thread

windowsVars == <<windows, closed, pointer_states, over, leaving, viewport, inbox>>
vars == <<converterVars, windowsVars>>

Pointer == [flutter_state_is_added : BOOLEAN, flutter_state_is_down : BOOLEAN,
            buttons : SUBSET Button]

TypeOK ==
  /\ windows \subseteq View /\ closed \subseteq View
  /\ \A v \in View : /\ DOMAIN pointer_states[v] \subseteq Device
                     /\ \A d \in DOMAIN pointer_states[v] :
                          pointer_states[v][d] \in Pointer
  /\ over \in windows \cup {NoView}
  /\ leaving \in Seq(windows)
  /\ viewport \in [View -> {"ready", "running", "inertia"}]
  /\ inbox \in Seq(RawData)

-----------------------------------------------------------------------------
(* FlutterWindowsView.                                                     *)

GetOrCreatePointerState(v, d) ==
  IF d \in DOMAIN pointer_states[v]
    THEN pointer_states[v][d]
    ELSE [flutter_state_is_added |-> FALSE, flutter_state_is_down |-> FALSE,
          buttons |-> {}]

\* SetEventPhaseFromCursorButtonState
Phase(s) ==
  IF s.buttons = {}
    THEN IF s.flutter_state_is_down THEN "up" ELSE "hover"
    ELSE IF s.flutter_state_is_down THEN "move" ELSE "down"

\* Faulty: the mouse is taken to have been added already.
PacketsAsAdded(v, d, s, change, at, pan) == <<Raw(change, d, v, at, pan)>>

\* SendPointerEventWithData: an add goes first if none was sent.
Packets(v, d, s, change, at, pan) ==
  LET add == IF s.flutter_state_is_added THEN <<>> ELSE <<Raw("add", d, v, at, 0)>>
  IN Append(add, Raw(change, d, v, at, pan))

Post(packets) ==
  /\ Len(inbox) + Len(packets) <= MaxInbox
  /\ inbox' = inbox \o packets
  /\ UNCHANGED <<converterVars, windows, closed>>

\* An event of device d, whose state is s when it is sent, t afterwards.
Send(v, d, s, t, change, at, pan) ==
  /\ Post(Packets(v, d, s, change, at, pan))
  /\ pointer_states' = [pointer_states EXCEPT
       ![v] = Store(@, d, [t EXCEPT !.flutter_state_is_added = TRUE])]

SendPointerMove(v, d, at) ==
  LET s == GetOrCreatePointerState(v, d)
  IN Send(v, d, s, s, Phase(s), at, 0)

SendPointerDown(v, d, button, at) ==
  LET s == [GetOrCreatePointerState(v, d) EXCEPT !.buttons = @ \cup {button}]
  IN Send(v, d, s, [s EXCEPT !.flutter_state_is_down = TRUE], Phase(s), at, 0)

\* Faulty: the device is up as soon as one of its buttons is.
SendPointerUpOfAny(v, d, button, at) ==
  LET s == [GetOrCreatePointerState(v, d) EXCEPT !.buttons = @ \ {button}]
  IN Send(v, d, s, [s EXCEPT !.flutter_state_is_down = FALSE], Phase(s), at, 0)

SendPointerUp(v, d, button, at) ==
  LET s == [GetOrCreatePointerState(v, d) EXCEPT !.buttons = @ \ {button}]
      down == s.flutter_state_is_down /\ Phase(s) # "up"
  IN Send(v, d, s, [s EXCEPT !.flutter_state_is_down = down], Phase(s), at, 0)

\* Faulty: the state stays, with the device no longer added.
SendPointerLeaveOnce(v, d, at) ==
  LET s == GetOrCreatePointerState(v, d)
  IN /\ Post(Packets(v, d, s, "remove", at, 0))
     /\ pointer_states' = [pointer_states EXCEPT
          ![v] = Store(@, d, [s EXCEPT !.flutter_state_is_added = FALSE])]

\* The state goes with the kRemove.
SendPointerLeave(v, d, at) ==
  /\ Post(Packets(v, d, GetOrCreatePointerState(v, d), "remove", at, 0))
  /\ pointer_states' = [pointer_states EXCEPT ![v] = Drop(@, d)]

\* SendScroll and SendScrollInertiaCancel: a signal, whatever its phase.
SendSignal(v, d, at) ==
  LET s == GetOrCreatePointerState(v, d)
  IN Send(v, d, s, s, "signal", at, 0)

SendPanZoom(v, change, pan) ==
  LET d == TrackpadOf[v]
      s == GetOrCreatePointerState(v, d)
  IN \E at \in Place : Send(v, d, s, s, change, at, pan)

-----------------------------------------------------------------------------
(* The window messages.                                                    *)

Captured == over # NoView /\ Left \in GetOrCreatePointerState(over, Mouse).buttons

\* The mouse comes to window v, whose first message is WM_MOUSEMOVE.
MouseEnters(v, at) ==
  /\ v \in windows \ {over}
  /\ \A i \in DOMAIN leaving : leaving[i] # v
  /\ ~Captured
  /\ over' = v
  /\ leaving' = IF over = NoView THEN leaving ELSE Append(leaving, over)
  /\ SendPointerMove(v, Mouse, at)
  /\ UNCHANGED viewport

MouseExits ==
  /\ over # NoView /\ ~Captured
  /\ over' = NoView
  /\ leaving' = Append(leaving, over)
  /\ UNCHANGED <<converterVars, windows, closed, pointer_states, viewport, inbox>>

OnMouseMove(at) ==
  /\ over # NoView
  /\ SendPointerMove(over, Mouse, at)
  /\ UNCHANGED <<over, leaving, viewport>>

OnMouseDown(button, at) ==
  /\ over # NoView
  /\ button \notin GetOrCreatePointerState(over, Mouse).buttons
  /\ SendPointerDown(over, Mouse, button, at)
  /\ UNCHANGED <<over, leaving, viewport>>

\* The button may have gone down in another window.
OnMouseUp(button, at) ==
  /\ over # NoView
  /\ SendPointerUp(over, Mouse, button, at)
  /\ UNCHANGED <<over, leaving, viewport>>

OnMouseLeave(at) ==
  /\ leaving # <<>>
  /\ SendPointerLeave(Head(leaving), Mouse, at)
  /\ leaving' = Tail(leaving)
  /\ UNCHANGED <<over, viewport>>

\* WM_MOUSEWHEEL and WM_MOUSEHWHEEL: any window may have the focus.
OnScroll(at) ==
  /\ \E v \in windows : (v = over \/ WheelToFocus) /\ SendSignal(v, Mouse, at)
  /\ UNCHANGED <<over, leaving, viewport>>

\* WM_TOUCH.  One window is touched at a time: see the README for two.
Touched(v) == Touch \in DOMAIN pointer_states[v]

OnTouchDown(v, at) ==
  /\ v \in windows /\ \A w \in View : ~Touched(w)
  /\ SendPointerDown(v, Touch, Left, at)
  /\ UNCHANGED <<over, leaving, viewport>>

OnTouchMove(v, at) ==
  /\ Touched(v)
  /\ SendPointerMove(v, Touch, at)
  /\ UNCHANGED <<over, leaving, viewport>>

\* TOUCHEVENTF_UP is an up and a leave.
OnTouchUp(v, at) ==
  /\ Touched(v)
  /\ Post(<<Raw("up", Touch, v, at, 0), Raw("remove", Touch, v, at, 0)>>)
  /\ pointer_states' = [pointer_states EXCEPT ![v] = Drop(@, Touch)]
  /\ UNCHANGED <<over, leaving, viewport>>

\* DirectManipulationEventHandler::OnViewportStatusChanged.
StatusChanged(v, status) ==
  /\ v \in windows
  /\ viewport' = [viewport EXCEPT ![v] = status]
  /\ UNCHANGED <<over, leaving>>

OnGestureStart(v) ==
  /\ viewport[v] # "running"
  /\ StatusChanged(v, "running")
  /\ SendPanZoom(v, "pan_zoom_start", 0)

OnContentUpdated(v) ==
  /\ viewport[v] = "running"
  /\ \E pan \in Pan : SendPanZoom(v, "pan_zoom_update", pan)
  /\ UNCHANGED <<over, leaving, viewport>>

OnGestureEnd(v, status) ==
  /\ viewport[v] = "running"
  /\ StatusChanged(v, status)
  /\ SendPanZoom(v, "pan_zoom_end", 0)

\* Only if the content was still moving the framework is told.
OnInertiaEnd(v) ==
  /\ viewport[v] = "inertia"
  /\ StatusChanged(v, "ready")
  /\ \/ \E at \in Place : SendSignal(v, TrackpadOf[v], at)
     \/ UNCHANGED <<converterVars, windows, closed, pointer_states, inbox>>

-----------------------------------------------------------------------------
(* Views, and the UI thread.                                               *)

\* Pointer packets are posted to the UI task runner, AddView and RemoveView
\* are run at once if that is the current thread, and otherwise posted and
\* waited for: with merged threads they overtake the packets under way, and
\* may also come when none is.
Overtakes == MergedUI \/ inbox = <<>>

CreateView(v) ==
  /\ v \notin windows \cup closed
  /\ Overtakes
  /\ AddView(v)
  /\ windows' = windows \cup {v}
  /\ UNCHANGED <<closed, pointer_states, over, leaving, viewport, inbox>>

\* Faulty: a WM_MOUSELEAVE still comes to the window.
DestroyViewLate(v) ==
  /\ v \in windows
  /\ Overtakes
  /\ RemoveView(v)
  /\ windows' = windows \ {v}
  /\ closed' = closed \cup {v}
  /\ pointer_states' = [pointer_states EXCEPT ![v] = [d \in {} |-> 0]]
  /\ over' = IF over = v THEN NoView ELSE over
  /\ viewport' = [viewport EXCEPT ![v] = "ready"]
  /\ UNCHANGED <<leaving, inbox>>

\* q without v, which is in it once if at all.
Without(q, v) ==
  IF \A i \in DOMAIN q : q[i] # v THEN {q}
  ELSE {SubSeq(q, 1, i - 1) \o SubSeq(q, i + 1, Len(q)) :
          i \in {j \in DOMAIN q : q[j] = v}}

DestroyView(v) ==
  /\ v \in windows
  /\ Overtakes
  /\ RemoveView(v)
  /\ windows' = windows \ {v}
  /\ closed' = closed \cup {v}
  /\ pointer_states' = [pointer_states EXCEPT ![v] = [d \in {} |-> 0]]
  /\ over' = IF over = v THEN NoView ELSE over
  /\ leaving' \in Without(leaving, v)
  /\ viewport' = [viewport EXCEPT ![v] = "ready"]
  /\ UNCHANGED inbox

DispatchPointerDataPacket ==
  /\ inbox # <<>>
  /\ Head(inbox).change \in {"down", "pan_zoom_start"} => pointer_ < MaxPointers
  /\ ConvertPointerData(Head(inbox))
  /\ inbox' = Tail(inbox)
  /\ UNCHANGED <<windows, closed, pointer_states, over, leaving, viewport>>

\* OnPreEngineRestart resets the keyboard's state and nothing of the pointers.
HotRestart ==
  /\ \/ RestartAnyTime
     \/ inbox = <<>> /\ \A v \in View : DOMAIN pointer_states[v] = {}
  /\ Restart
  /\ UNCHANGED windowsVars

-----------------------------------------------------------------------------
Init ==
  /\ ConverterInit
  /\ windows = {ImplicitView}
  /\ closed = {}
  /\ pointer_states = [v \in View |-> [d \in {} |-> 0]]
  /\ over = NoView
  /\ leaving = <<>>
  /\ viewport = [v \in View |-> "ready"]
  /\ inbox = <<>>

Next ==
  \/ \E at \in Place :
       \/ OnMouseMove(at) \/ OnMouseLeave(at) \/ OnScroll(at)
       \/ \E button \in Button : OnMouseDown(button, at) \/ OnMouseUp(button, at)
       \/ \E v \in View : \/ MouseEnters(v, at)
                          \/ OnTouchDown(v, at) \/ OnTouchMove(v, at)
                          \/ OnTouchUp(v, at)
  \/ MouseExits
  \/ \E v \in View : \/ OnGestureStart(v) \/ OnContentUpdated(v) \/ OnInertiaEnd(v)
                     \/ \E status \in {"ready", "inertia"} : OnGestureEnd(v, status)
                     \/ CreateView(v) \/ DestroyView(v)
  \/ DispatchPointerDataPacket
  \/ HotRestart

Spec == Init /\ [][Next]_vars

-----------------------------------------------------------------------------
\* No FML_DCHECK of the converter fails on the events of the view, however
\* moves, leaves, removals of views and the UI thread interleave; a release
\* build would go on with the end of the map.
\* [pointer_data_packet_converter.cc:57-310]
AssertionsHold ==
  inbox # <<>> /\ Head(inbox).view_id \in views => Asserted(Head(inbox))

\* When nothing is under way, the two ends agree: the converter knows every
\* device that a window has added, and in the view that has it, whether it is
\* down.
\* [flutter_state_is_added and flutter_state_is_down against states_]
EndsAgree ==
  inbox = <<>> =>
    \A v \in windows : \A d \in DOMAIN pointer_states[v] :
      /\ Known(d)
      /\ states_[d].view_id = v =>
           states_[d].is_down = pointer_states[v][d].flutter_state_is_down

\* The embedding is one of those the converter is made for: every event adds
\* its device to the view first, and no gesture loses its device.
\* [embedder.h:1255-1260, "A pointer should always be added before sending
\* any other events."]
ImplementsEmbedding == ConverterSpec
=============================================================================
