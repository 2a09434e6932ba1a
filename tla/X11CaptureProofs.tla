-------------------------- MODULE X11CaptureProofs --------------------------
(***************************************************************************)
(* Proofs about X11Capture, for all windows, areas, options and numbers of *)
(* events: in the content mode no change of the target is missed, except   *)
(* in the ways that NothingMissed names.                                   *)
(*                                                                         *)
(* NothingMissed speaks of what the recording should show.  The recorder   *)
(* knows less: the window it captures, the one whose damage it asked for,  *)
(* and the events that have come.  The invariant says how each of these    *)
(* lags behind, and what is on its way while it does.                      *)
(***************************************************************************)
EXTENDS X11Capture, SequenceTheorems, TLAPS

\* What the X server holds back.
Messages == {events[i] : i \in 1 .. Len(events)}

\* Before the loop nothing was asked of the X server.
StartInv ==
  pc \in {"start", "select"} =>
    events = <<>> /\ region = {} /\ damage_window = None /\ ~ follow_focused_initialized

\* What is captured and whose damage is asked for.
TargetInv ==
  /\ is_monitor_capture => window = None /\ video \in {Root, Stale} /\ (Running => damage_window = Root)
  /\ ~ is_monitor_capture => damage_window # Root /\ video # Root
  /\ options.target = "window" /\ pc # "start" => window = recorded_window
  /\ options.target = "window" => damage_window \in {None, recorded_window}
  /\ pc = "frame" /\ ~ is_monitor_capture => window \in {None, damage_window} \/ ~ options.xdamage
  /\ texture \in {window, None, Stale}
  /\ pc = "start" => texture = None
  /\ ~ options.record_cursor => pointer = "away" /\ position = "away"

\* Damage that was not taken yet has been reported.
RegionInv == region # {} => damage_window # None /\ Event("damage", damage_window) \in Messages

\* A focus that is not the captured window is going to be noticed.
FocusInv ==
  follow_focused /\ Running /\ focus # window
    => \/ ~ follow_focused_initialized \/ init_new_window
       \/ \E event \in Messages : event.type = "focus"

\* The last event of the monitor, if any, tells where it is.
LastMove ==
  \A i \in 1 .. Len(events) :
    events[i].type = "crtc" /\ (\A j \in i + 1 .. Len(events) : events[j].type # "crtc")
      => events[i].of = crtc

\* When the events have been read, a monitor that has moved since excuses the frame.
MonitorInv ==
  options.target = "monitor" /\ Running =>
    /\ LastMove
    /\ monitor # crtc => \E event \in Messages : event.type = "crtc"
    /\ pc \in {"tick", "target", "frame"} /\ monitor # crtc => excused

\* The picture of the window whose damage is asked for is up to date, or its change is
\* known or reported; the same for the pointer.
PictureInv ==
  Running /\ ~ excused =>
    /\ damage_window # None /\ (damage_window \in Windows => state[damage_window] = "mapped")
         => video = damage_window \/ IsDamaged \/ region \cap Visible # {}
    /\ position \in Visible /\ drawn # position => IsDamaged

XInv == TypeOK /\ StartInv /\ TargetInv /\ RegionInv /\ FocusInv /\ MonitorInv /\ PictureInv

USE DEF TypeOK

-------------------------------------------------------------------------------
(* Events.                                                                 *)

\* What is sent joins what is held back.
LEMMA Sending ==
  ASSUME events \in Seq(Message), NEW new \in Seq(Message), events' = events \o new
  PROVE  /\ events' \in Seq(Message) /\ Messages \subseteq Messages'
         /\ \A i \in 1 .. Len(new) : new[i] \in Messages'
         /\ crtc' = crtc /\ LastMove /\ (\A i \in 1 .. Len(new) : new[i].type # "crtc") => LastMove'
         /\ new = <<>> => events' = events
<1>1. /\ events' \in Seq(Message) /\ Len(events') = Len(events) + Len(new)
      /\ \A i \in 1 .. Len(events) : events'[i] = events[i]
      /\ \A i \in 1 .. Len(new) : events'[Len(events) + i] = new[i]
      /\ Len(events) \in Nat /\ Len(new) \in Nat
  BY ConcatProperties, LenProperties
<1>2. \A i \in 1 .. Len(events) : i \in 1 .. Len(events')
  BY <1>1
<1>3. \A i \in 1 .. Len(new) : Len(events) + i \in 1 .. Len(events')
  BY <1>1
<1>4. Messages \subseteq Messages'
  BY <1>1, <1>2 DEF Messages
<1>5. \A i \in 1 .. Len(new) : new[i] \in Messages'
  BY <1>1, <1>3 DEF Messages
<1>6. ASSUME crtc' = crtc, LastMove, \A i \in 1 .. Len(new) : new[i].type # "crtc"
      PROVE  LastMove'
  <2> SUFFICES ASSUME NEW i \in 1 .. Len(events'), events'[i].type = "crtc",
                      \A j \in i + 1 .. Len(events') : events'[j].type # "crtc"
               PROVE  events'[i].of = crtc
    BY <1>6 DEF LastMove
  <2>1. i \in 1 .. Len(events)
    <3>1. ASSUME i > Len(events) PROVE FALSE
      <4>1. i - Len(events) \in 1 .. Len(new) /\ Len(events) + (i - Len(events)) = i
        BY <1>1, <3>1
      <4>2. events'[i] = new[i - Len(events)]
        BY <1>1, <4>1
      <4> QED
        BY <1>6, <4>1, <4>2
    <3> QED
      BY <1>1, <3>1
  <2>2. \A j \in i + 1 .. Len(events) : events[j].type # "crtc"
    <3>1. \A j \in i + 1 .. Len(events) : j \in i + 1 .. Len(events') /\ j \in 1 .. Len(events)
      BY <1>1, <2>1
    <3> QED
      BY <1>1, <3>1
  <2>3. events[i].type = "crtc" /\ events[i] = events'[i]
    BY <1>1, <2>1
  <2> QED
    BY <1>6, <2>1, <2>2, <2>3 DEF LastMove
<1>7. new = <<>> => events' = events
  BY ConcatEmptySeq
<1> QED
  BY <1>1, <1>4, <1>5, <1>6, <1>7

\* Only the first event is taken.
LEMMA Taking ==
  ASSUME events \in Seq(Message), events # <<>>, events' = Tail(events), crtc' = crtc
  PROVE  /\ events' \in Seq(Message) /\ Head(events) \in Message
         /\ \A event \in Messages : event = Head(events) \/ event \in Messages'
         /\ LastMove => LastMove'
         /\ LastMove /\ Head(events).type = "crtc"
              => Head(events).of = crtc \/ \E event \in Messages' : event.type = "crtc"
<1>1. /\ events' \in Seq(Message) /\ Len(events) \in Nat /\ Len(events') = Len(events) - 1
      /\ \A i \in 1 .. Len(events') : events'[i] = events[i + 1]
      /\ Head(events) = events[1] /\ 1 \in 1 .. Len(events) /\ Head(events) \in Message
  <2>1. Len(events) \in Nat /\ Len(events) # 0
    BY LenProperties, EmptySeq
  <2> QED
    BY <2>1, HeadTailProperties
<1>2. \A i \in 2 .. Len(events) : i - 1 \in 1 .. Len(events') /\ events'[i - 1] = events[i]
  BY <1>1
<1>3. \A event \in Messages : event = Head(events) \/ event \in Messages'
  <2> SUFFICES ASSUME NEW i \in 1 .. Len(events), events[i] # Head(events)
               PROVE  events[i] \in Messages'
    BY DEF Messages
  <2>1. i \in 2 .. Len(events)
    BY <1>1
  <2> QED
    BY <1>2, <2>1 DEF Messages
<1>4. ASSUME LastMove PROVE LastMove'
  <2> SUFFICES ASSUME NEW i \in 1 .. Len(events'), events'[i].type = "crtc",
                      \A j \in i + 1 .. Len(events') : events'[j].type # "crtc"
               PROVE  events'[i].of = crtc
    BY DEF LastMove
  <2>1. i + 1 \in 1 .. Len(events) /\ events[i + 1] = events'[i]
    BY <1>1
  <2>2. \A j \in (i + 1) + 1 .. Len(events) : events[j].type # "crtc"
    <3> SUFFICES ASSUME NEW j \in (i + 1) + 1 .. Len(events) PROVE events[j].type # "crtc"
      OBVIOUS
    <3>1. j \in 2 .. Len(events) /\ j - 1 \in i + 1 .. Len(events')
      BY <1>1, <2>1
    <3> QED
      BY <1>2, <3>1
  <2> QED
    BY <1>4, <2>1, <2>2 DEF LastMove
<1>5. ASSUME LastMove, Head(events).type = "crtc", \A event \in Messages' : event.type # "crtc"
      PROVE  Head(events).of = crtc
  <2>1. \A j \in 2 .. Len(events) : events[j].type # "crtc"
    BY <1>2, <1>5 DEF Messages
  <2>2. \A j \in 1 + 1 .. Len(events) : events[j].type # "crtc"
    BY <2>1
  <2> QED
    BY <1>1, <1>5, <2>2 DEF LastMove
<1> QED
  BY <1>1, <1>3, <1>4, <1>5

\* What the X server sends of a drawing: an event of the damage object, if the region
\* was empty.
LEMMA DamageEvents ==
  ASSUME NEW w \in Windows \cup {Root}
  PROVE  /\ DamageEvent(w) \in Seq(Message)
         /\ \A i \in 1 .. Len(DamageEvent(w)) : DamageEvent(w)[i] = Event("damage", w)
         /\ damage_window = w /\ region = {} => 1 \in 1 .. Len(DamageEvent(w))
         /\ damage_window # w => DamageEvent(w) = <<>>
<1>1. Event("damage", w) \in Message
  BY DEF Event, Message
<1>2. CASE damage_window = w /\ region = {}
  <2> DEFINE e == Event("damage", w)
  <2>1. DamageEvent(w) = <<e>>
    BY <1>2 DEF DamageEvent
  <2> HIDE DEF e
  <2>2. <<e>> \in Seq(Message) /\ Len(<<e>>) = 1 /\ <<e>>[1] = e
    BY <1>1 DEF e
  <2> QED
    BY <1>2, <2>1, <2>2 DEF e
<1>3. CASE ~ (damage_window = w /\ region = {})
  <2>1. DamageEvent(w) = <<>>
    BY <1>3 DEF DamageEvent
  <2> QED
    BY <1>3, <2>1, EmptySeq
<1> QED
  BY <1>2, <1>3

\* What it sends of a window that is captured.
LEMMA WindowEvents ==
  ASSUME NEW w \in Windows, NEW kind \in {"resized", "destroyed"}
  PROVE  /\ WindowEvent(kind, w) \in Seq(Message)
         /\ \A i \in 1 .. Len(WindowEvent(kind, w)) : WindowEvent(kind, w)[i] = Event(kind, w)
         /\ ~ Running => WindowEvent(kind, w) = <<>>
<1>1. Event(kind, w) \in Message
  BY DEF Event, Message
<1>2. CASE window = w /\ Running
  <2> DEFINE e == Event(kind, w)
  <2>1. WindowEvent(kind, w) = <<e>>
    BY <1>2 DEF WindowEvent
  <2> HIDE DEF e
  <2>2. <<e>> \in Seq(Message) /\ Len(<<e>>) = 1 /\ <<e>>[1] = e
    BY <1>1 DEF e
  <2> QED
    BY <1>2, <2>1, <2>2 DEF e
<1>3. CASE ~ (window = w /\ Running)
  <2>1. WindowEvent(kind, w) = <<>>
    BY <1>3 DEF WindowEvent
  <2> QED
    BY <1>3, <2>1, EmptySeq
<1> QED
  BY <1>2, <1>3

\* A target is a window or the root, a piece of it is an area.
LEMMA TargetPlaces ==
  LoopTypeOK /\ ServerTypeOK =>
    Targets \subseteq Windows \cup {Root} /\ Pieces \subseteq Areas /\ Visible \subseteq Areas
<1> SUFFICES ASSUME LoopTypeOK, ServerTypeOK
             PROVE  /\ Targets \subseteq Windows \cup {Root}
                    /\ Pieces \subseteq Areas /\ Visible \subseteq Areas
  OBVIOUS
<1>1. (CHOOSE a \in Areas : TRUE) \in Areas
  BY CaptureAssumption
<1> QED
  BY <1>1 DEF ServerTypeOK, LoopTypeOK, CaptureTypeOK, Targets, Pieces, Visible

-------------------------------------------------------------------------------
(* Steps of the X server.                                                  *)

\* Drawing makes the picture old and reports it.
LEMMA DrawInv ==
  ASSUME XInv, NEW w \in Targets, NEW a \in Pieces, Draw(w, a)
  PROVE  XInv'
<1> USE CaptureAssumption DEF XInv
<1>1. w \in Windows \cup {Root} /\ a \in Areas
  BY TargetPlaces
<1>2. /\ UNCHANGED <<given, server, pc, paused, drawn, excused, capture, nvfbc, damage>>
      /\ events' = events \o DamageEvent(w)
      /\ region' = IF damage_window = w THEN region \cup {a} ELSE region
      /\ video' = IF a \in Visible /\ video = w THEN Stale ELSE video
  BY DEF Draw, Send, Damaged, Outdated
<1> USE DEF given, server, capture, nvfbc, damage
<1> DEFINE new == DamageEvent(w)
<1>3. /\ new \in Seq(Message) /\ \A i \in 1 .. Len(new) : new[i] = Event("damage", w)
      /\ damage_window = w /\ region = {} => 1 \in 1 .. Len(new)
      /\ damage_window # w => new = <<>>
  BY <1>1, DamageEvents
<1> HIDE DEF new
<1>4. /\ events' \in Seq(Message) /\ Messages \subseteq Messages'
      /\ \A i \in 1 .. Len(new) : new[i] \in Messages'
      /\ LastMove /\ (\A i \in 1 .. Len(new) : new[i].type # "crtc") => LastMove'
      /\ new = <<>> => events' = events
  BY <1>2, <1>3, Sending DEF ServerTypeOK, LoopTypeOK, CaptureTypeOK, new
<1>5. LastMove => LastMove'
  BY <1>3, <1>4 DEF Event
<1>6. TypeOK'
  BY <1>1, <1>2, <1>4 DEF ServerTypeOK, LoopTypeOK, CaptureTypeOK, Shown
<1>7. StartInv'
  BY <1>1, <1>2, <1>3, <1>4 DEF StartInv
<1>8. TargetInv'
  BY <1>1, <1>2 DEF TargetInv, Running, is_monitor_capture, ServerTypeOK, LoopTypeOK,
     CaptureTypeOK
<1>9. RegionInv'
  BY <1>1, <1>2, <1>3, <1>4 DEF RegionInv
<1>10. FocusInv' /\ MonitorInv'
  BY <1>2, <1>4, <1>5 DEF FocusInv, MonitorInv, Running, follow_focused
<1>11. PictureInv'
  BY <1>1, <1>2 DEF PictureInv, Running, IsDamaged, Visible
<1> QED
  BY <1>6, <1>7, <1>8, <1>9, <1>10, <1>11

\* A new pixmap makes the texture and the picture old, and is reported as damage.
LEMMA NewPixmapInv ==
  ASSUME XInv, NEW w \in Targets \ {Root}, NewPixmap(w), state' = [state EXCEPT ![w] = "mapped"]
  PROVE  XInv'
<1> USE CaptureAssumption DEF XInv
<1>1. w \in Windows /\ ~ is_monitor_capture /\ Pieces \subseteq Areas
  BY TargetPlaces DEF Targets
<1>2. PICK a \in Pieces :
        /\ UNCHANGED <<given, focus, crtc, pointer, pc, paused, drawn, excused, window, window_resized,
                       init_new_window, follow_focused_initialized, should_stop, nvfbc, damage>>
        /\ events' = events \o (WindowEvent("resized", w) \o DamageEvent(w))
        /\ region' = IF damage_window = w THEN region \cup {a} ELSE region
        /\ video' = IF video = w THEN Stale ELSE video
        /\ texture' = IF texture = w THEN Stale ELSE texture
  BY DEF NewPixmap, Send, Damaged, Outdated
<1> USE DEF given, nvfbc, damage
<1> DEFINE one == WindowEvent("resized", w)
           two == DamageEvent(w)
           new == one \o two
<1>3. /\ one \in Seq(Message) /\ \A i \in 1 .. Len(one) : one[i] = Event("resized", w)
      /\ ~ Running => one = <<>>
      /\ two \in Seq(Message) /\ \A i \in 1 .. Len(two) : two[i] = Event("damage", w)
      /\ damage_window = w /\ region = {} => 1 \in 1 .. Len(two)
      /\ damage_window # w => two = <<>>
  BY <1>1, WindowEvents, DamageEvents
<1> HIDE DEF one, two
<1>4. /\ new \in Seq(Message) /\ Len(new) = Len(one) + Len(two)
      /\ \A i \in 1 .. Len(new) : new[i] = IF i <= Len(one) THEN one[i] ELSE two[i - Len(one)]
      /\ \A i \in 1 .. Len(two) : Len(one) + i \in 1 .. Len(new) /\ new[Len(one) + i] = two[i]
      /\ Len(one) \in Nat /\ Len(two) \in Nat
  BY <1>3, ConcatProperties, LenProperties
<1>5. \A i \in 1 .. Len(new) : new[i] \in {Event("resized", w), Event("damage", w)}
  <2> SUFFICES ASSUME NEW i \in 1 .. Len(new)
               PROVE  new[i] \in {Event("resized", w), Event("damage", w)}
    OBVIOUS
  <2>1. i <= Len(one) => i \in 1 .. Len(one)
    BY <1>4
  <2>2. ~ (i <= Len(one)) => i - Len(one) \in 1 .. Len(two)
    BY <1>4
  <2> HIDE DEF new
  <2>3. CASE i <= Len(one)
    <3>1. new[i] = one[i]
      BY <1>4, <2>3
    <3> QED
      BY <1>3, <2>1, <2>3, <3>1
  <2>4. CASE ~ (i <= Len(one))
    <3>1. new[i] = two[i - Len(one)]
      BY <1>4, <2>4
    <3> QED
      BY <1>3, <2>2, <2>4, <3>1
  <2> QED
    BY <2>3, <2>4
<1>6. ~ Running /\ damage_window # w => new = <<>>
  BY <1>3, ConcatEmptySeq
<1> HIDE DEF new
<1>7. /\ events' \in Seq(Message) /\ Messages \subseteq Messages'
      /\ \A i \in 1 .. Len(new) : new[i] \in Messages'
      /\ LastMove /\ (\A i \in 1 .. Len(new) : new[i].type # "crtc") => LastMove'
      /\ new = <<>> => events' = events
  BY <1>2, <1>4, Sending DEF ServerTypeOK, LoopTypeOK, CaptureTypeOK, new, one, two
<1>8. LastMove => LastMove'
  BY <1>5, <1>7 DEF Event
<1>9. damage_window = w /\ region = {} => Event("damage", w) \in Messages'
  BY <1>3, <1>4, <1>7
<1>10. TypeOK'
  BY <1>1, <1>2, <1>7 DEF ServerTypeOK, LoopTypeOK, CaptureTypeOK, Shown
<1>11. StartInv'
  BY <1>1, <1>2, <1>6, <1>7 DEF StartInv, Running
<1>12. TargetInv'
  BY <1>1, <1>2 DEF TargetInv, Running, is_monitor_capture, ServerTypeOK, LoopTypeOK,
     CaptureTypeOK
<1>13. RegionInv'
  BY <1>1, <1>2, <1>7, <1>9 DEF RegionInv
<1>14. FocusInv' /\ MonitorInv'
  BY <1>2, <1>7, <1>8 DEF FocusInv, MonitorInv, Running, follow_focused
<1>15. Visible = Areas /\ Visible' = Visible
  BY <1>1, <1>2 DEF Visible, is_monitor_capture
<1>16. PictureInv'
  BY <1>1, <1>2, <1>15 DEF PictureInv, Running, IsDamaged, ServerTypeOK, LoopTypeOK,
     CaptureTypeOK
<1> QED
  BY <1>10, <1>11, <1>12, <1>13, <1>14, <1>16

\* A window that leaves cannot be captured.
LEMMA LeaveInv ==
  ASSUME XInv, NEW w \in Targets \ {Root}, NEW how \in {"unmapped", "dead"}, Leave(w, how)
  PROVE  XInv'
<1> USE CaptureAssumption DEF XInv
<1>1. w \in Windows
  BY TargetPlaces
<1> DEFINE new == IF how = "dead" THEN WindowEvent("destroyed", w) ELSE <<>>
<1>2. /\ UNCHANGED <<given, focus, crtc, pointer, region, pc, paused, picture, window, window_resized,
                     init_new_window, follow_focused_initialized, should_stop, nvfbc, damage>>
      /\ state' = [state EXCEPT ![w] = how]
      /\ texture' = IF texture = w THEN Stale ELSE texture
      /\ events' = events \o new
  BY DEF Leave, Send
<1> USE DEF given, picture, nvfbc, damage
<1>3. /\ new \in Seq(Message) /\ \A i \in 1 .. Len(new) : new[i] = Event("destroyed", w)
      /\ ~ Running => new = <<>>
  BY <1>1, WindowEvents, EmptySeq
<1> HIDE DEF new
<1>4. /\ events' \in Seq(Message) /\ Messages \subseteq Messages'
      /\ LastMove /\ (\A i \in 1 .. Len(new) : new[i].type # "crtc") => LastMove'
      /\ new = <<>> => events' = events
  BY <1>2, <1>3, Sending DEF ServerTypeOK, LoopTypeOK, CaptureTypeOK
<1>5. LastMove => LastMove'
  BY <1>3, <1>4 DEF Event
<1>6. TypeOK'
  BY <1>1, <1>2, <1>4 DEF ServerTypeOK, LoopTypeOK, CaptureTypeOK
<1>7. StartInv'
  BY <1>2, <1>3, <1>4 DEF StartInv, Running
<1>8. TargetInv' /\ RegionInv'
  <2>1. RegionInv'
    BY <1>2, <1>4 DEF RegionInv
  <2>2. TargetInv'
    BY <1>1, <1>2 DEF TargetInv, Running, is_monitor_capture
  <2> QED
    BY <2>1, <2>2
<1>9. FocusInv' /\ MonitorInv'
  BY <1>2, <1>4, <1>5 DEF FocusInv, MonitorInv, Running, follow_focused
<1>10. PictureInv'
  BY <1>1, <1>2 DEF PictureInv, Running, IsDamaged, Visible, ServerTypeOK, LoopTypeOK,
     CaptureTypeOK
<1> QED
  BY <1>6, <1>7, <1>8, <1>9, <1>10

\* The focus changes and the loop is told.
LEMMA FocusStepInv ==
  ASSUME XInv, NEW w \in Windows \cup {None}, Focus(w)
  PROVE  XInv'
<1> USE CaptureAssumption DEF XInv
<1> DEFINE e == Event("focus", w)
           new == IF Running THEN <<e>> ELSE <<>>
<1>1. /\ UNCHANGED <<given, state, crtc, pointer, region, pc, paused, picture, capture, nvfbc, damage>>
      /\ focus' = w /\ events' = events \o new
  BY DEF Focus, Send
<1> USE DEF given, picture, capture, nvfbc, damage
<1>2. e \in Message /\ e.type = "focus"
  BY DEF Event, Message
<1> HIDE DEF e
<1>3. /\ new \in Seq(Message) /\ \A i \in 1 .. Len(new) : new[i] = e
      /\ Running => 1 \in 1 .. Len(new) /\ new[1] = e
      /\ ~ Running => new = <<>>
  BY <1>2, EmptySeq
<1> HIDE DEF new
<1>4. /\ events' \in Seq(Message) /\ Messages \subseteq Messages'
      /\ \A i \in 1 .. Len(new) : new[i] \in Messages'
      /\ LastMove /\ (\A i \in 1 .. Len(new) : new[i].type # "crtc") => LastMove'
      /\ new = <<>> => events' = events
  BY <1>1, <1>3, Sending DEF ServerTypeOK, LoopTypeOK, CaptureTypeOK
<1>5. LastMove => LastMove'
  BY <1>2, <1>3, <1>4
<1>6. TypeOK'
  BY <1>1, <1>4 DEF ServerTypeOK, LoopTypeOK, CaptureTypeOK
<1>7. StartInv' /\ TargetInv' /\ RegionInv'
  BY <1>1, <1>3, <1>4 DEF StartInv, Running, TargetInv, RegionInv, is_monitor_capture
<1>8. FocusInv'
  BY <1>1, <1>2, <1>3, <1>4 DEF FocusInv, Running
<1>9. MonitorInv' /\ PictureInv'
  BY <1>1, <1>4, <1>5 DEF MonitorInv, PictureInv, Running, IsDamaged, Visible
<1> QED
  BY <1>6, <1>7, <1>8, <1>9

\* The monitor moves: its last event tells where to.
LEMMA MoveMonitorInv ==
  ASSUME XInv, NEW a \in Areas, MoveMonitor(a)
  PROVE  XInv'
<1> USE CaptureAssumption DEF XInv
<1> DEFINE e == Event("crtc", a)
           new == <<e>>
<1>1. /\ UNCHANGED <<given, focus, state, pointer, region, pc, paused, drawn, capture, nvfbc, damage>>
      /\ crtc' = a /\ excused' = TRUE /\ events' = events \o new /\ Running
      /\ video' = IF video = Root THEN Stale ELSE video
  BY DEF MoveMonitor, Send, Outdated
<1> USE DEF given, capture, nvfbc, damage
<1>2. e \in Message /\ e.type = "crtc" /\ e.of = a
  BY DEF Event, Message
<1> HIDE DEF e
<1>3. new \in Seq(Message) /\ Len(new) = 1 /\ new[1] = e
  BY <1>2
<1> HIDE DEF new
<1>4. /\ events' \in Seq(Message) /\ Messages \subseteq Messages' /\ e \in Messages'
  BY <1>1, <1>3, Sending DEF ServerTypeOK, LoopTypeOK, CaptureTypeOK
<1>5. LastMove'
  <2>1. /\ Len(events) \in Nat /\ Len(events') = Len(events) + 1
        /\ events'[Len(events) + 1] = e
    <3>1. events \in Seq(Message) /\ Len(events) \in Nat
      BY LenProperties DEF ServerTypeOK, LoopTypeOK, CaptureTypeOK
    <3>2. events \o new \in Seq(Message) /\ Len(events \o new) = Len(events) + Len(new)
      BY <1>3, <3>1, ConcatProperties
    <3>3. Len(events) + 1 \in 1 .. Len(events) + Len(new)
          /\ ~ (Len(events) + 1 <= Len(events)) /\ Len(events) + 1 - Len(events) = 1
      BY <1>3, <3>1
    <3>4. (events \o new)[Len(events) + 1] = new[1]
      BY <1>3, <3>1, <3>3, ConcatProperties, SMTT(30)
    <3> QED
      BY <1>1, <1>3, <3>1, <3>2, <3>4
  <2> SUFFICES ASSUME NEW i \in 1 .. Len(events'), events'[i].type = "crtc",
                      \A j \in i + 1 .. Len(events') : events'[j].type # "crtc"
               PROVE  events'[i].of = crtc'
    BY DEF LastMove
  <2>2. i = Len(events')
    <3>1. i < Len(events') => Len(events') \in i + 1 .. Len(events')
      BY <2>1
    <3> QED
      BY <1>2, <2>1, <3>1
  <2> QED
    BY <1>1, <1>2, <2>1, <2>2
<1>6. TypeOK'
  BY <1>1, <1>4 DEF ServerTypeOK, LoopTypeOK, CaptureTypeOK, Shown
<1>7. StartInv' /\ TargetInv' /\ RegionInv'
  BY <1>1, <1>4 DEF StartInv, Running, TargetInv, RegionInv, is_monitor_capture
<1>8. FocusInv'
  BY <1>1, <1>4 DEF FocusInv, Running, follow_focused
<1>9. MonitorInv' /\ PictureInv'
  BY <1>1, <1>2, <1>4, <1>5 DEF MonitorInv, PictureInv, Running
<1> QED
  BY <1>6, <1>7, <1>8, <1>9

\* The pointer is not looked at.
LEMMA MovePointerInv ==
  ASSUME XInv, NEW p \in Places, MovePointer(p)
  PROVE  XInv'
<1> USE DEF XInv, MovePointer, given, capture, nvfbc, damage, picture
<1>1. TypeOK' /\ Messages' = Messages /\ (LastMove => LastMove')
  BY DEF ServerTypeOK, LoopTypeOK, CaptureTypeOK, Messages, LastMove
<1>2. StartInv' /\ TargetInv' /\ RegionInv'
  BY <1>1 DEF StartInv, Running, TargetInv, RegionInv, is_monitor_capture
<1>3. FocusInv' /\ MonitorInv' /\ PictureInv'
  BY <1>1 DEF FocusInv, MonitorInv, PictureInv, Running, follow_focused, IsDamaged, Visible
<1> QED
  BY <1>1, <1>2, <1>3

-------------------------------------------------------------------------------
(* Steps of the recorder.                                                  *)

\* Steps that take no event.
LEMMA EventsKept ==
  UNCHANGED <<events, crtc>> => UNCHANGED Messages /\ (LastMove => LastMove')
  BY DEF Messages, LastMove

\* The window is chosen before the loop runs.
LEMMA StartStepInv == XInv /\ Start => XInv'
<1> SUFFICES ASSUME XInv, Start PROVE XInv'
  OBVIOUS
<1> USE DEF XInv, Start, given, server, picture, nvfbc, damage
<1>1. UNCHANGED Messages
  BY EventsKept
<1>2. TypeOK'
  BY DEF ServerTypeOK, LoopTypeOK, CaptureTypeOK, follow_focused
<1>3. StartInv' /\ RegionInv'
  BY <1>1 DEF StartInv, RegionInv
<1>4. TargetInv'
  BY DEF TargetInv, Running, is_monitor_capture, follow_focused
<1>5. FocusInv' /\ MonitorInv' /\ PictureInv'
  BY DEF FocusInv, MonitorInv, PictureInv, Running
<1> QED
  BY <1>2, <1>3, <1>4, <1>5

\* The loop begins with the damage that is there, and without events.
LEMMA StartedInv == XInv /\ Started => XInv'
<1> SUFFICES ASSUME XInv, Started PROVE XInv'
  OBVIOUS
<1> USE CaptureAssumption DEF XInv
<1>1. /\ pc = "select" /\ pc' \in {"stopped", "events"}
      /\ UNCHANGED <<given, server, region, events, paused, picture, window, window_resized,
                     init_new_window, follow_focused_initialized, should_stop, position>>
      /\ texture' = TextureOf(window) /\ damaged' = TRUE /\ monitor' = crtc
      /\ damage_window' = IF is_monitor_capture THEN Root ELSE None
  BY DEF Started
<1>2. /\ fbc_handle_created' \in BOOLEAN /\ capture_session_created' \in BOOLEAN
      /\ UNCHANGED nvfbc_needs_recreate
  BY DEF Started, SetUpNvfbc, nvfbc, ServerTypeOK, LoopTypeOK, CaptureTypeOK
<1> USE DEF given, server, picture
<1>3. UNCHANGED Messages /\ events = <<>> /\ region = {} /\ ~ follow_focused_initialized
  BY <1>1, EventsKept DEF StartInv
<1>4. TextureOf(window) \in {window, None}
  BY DEF TextureOf
<1>5. TypeOK'
  BY <1>1, <1>2, <1>4 DEF ServerTypeOK, LoopTypeOK, CaptureTypeOK
<1>6. StartInv' /\ RegionInv'
  BY <1>1, <1>3 DEF StartInv, RegionInv
<1>7. TargetInv'
  BY <1>1, <1>4 DEF TargetInv, Running, is_monitor_capture
<1>8. FocusInv' /\ MonitorInv'
  BY <1>1, <1>3 DEF FocusInv, MonitorInv, LastMove
<1>9. PictureInv'
  BY <1>1 DEF PictureInv, IsDamaged
<1> QED
  BY <1>5, <1>6, <1>7, <1>8, <1>9

\* An event of the damage takes the damage that was not taken yet.
LEMMA OnDamageInv ==
  ASSUME XInv, ProcessEvent, Head(events).type = "damage"
  PROVE  XInv'
<1> USE CaptureAssumption DEF XInv
<1> DEFINE event == Head(events)
<1>1. /\ pc = "events" /\ events # <<>> /\ events' = Tail(events)
      /\ OnDamage(event.of)
      /\ UNCHANGED <<given, server, pc, paused, video, drawn, window, texture,
                     follow_focused_initialized, nvfbc, damage_window, position>>
  BY DEF ProcessEvent
<1>2. /\ region' = IF event.of = damage_window THEN {} ELSE region
      /\ damaged' = (options.target = "monitor" => monitor \in region)
      /\ excused' = (excused \/ (damaged /\ ~ damaged') \/ monitor # crtc)
      /\ UNCHANGED <<monitor, window_resized, init_new_window, should_stop>>
  BY <1>1 DEF OnDamage, Subtracted
<1> USE DEF given, server, nvfbc
<1>3. /\ events' \in Seq(Message) /\ event \in Message
      /\ \A e \in Messages : e = event \/ e \in Messages'
      /\ LastMove => LastMove'
  BY <1>1, Taking DEF ServerTypeOK, LoopTypeOK, CaptureTypeOK
<1> HIDE DEF event
<1>4. event.type = "damage"
  BY DEF event
<1>5. TypeOK'
  BY <1>1, <1>2, <1>3 DEF ServerTypeOK, LoopTypeOK, CaptureTypeOK
<1>6. StartInv' /\ TargetInv'
  BY <1>1 DEF StartInv, TargetInv, Running, is_monitor_capture
<1>7. RegionInv'
  <2> SUFFICES ASSUME region' # {}
               PROVE  damage_window # None /\ Event("damage", damage_window) \in Messages'
    BY <1>1 DEF RegionInv
  <2>1. region # {} /\ event.of # damage_window
    BY <1>2
  <2>2. Event("damage", damage_window) # event
    BY <2>1 DEF Event
  <2> QED
    BY <1>3, <2>1, <2>2 DEF RegionInv
<1>8. FocusInv'
  BY <1>1, <1>2, <1>3, <1>4 DEF FocusInv, Running, follow_focused
<1>9. MonitorInv'
  BY <1>1, <1>2, <1>3, <1>4 DEF MonitorInv, Running
<1>10. PictureInv'
  BY <1>1, <1>2 DEF PictureInv, Running, IsDamaged, Visible, ServerTypeOK, LoopTypeOK,
     CaptureTypeOK
<1> QED
  BY <1>5, <1>6, <1>7, <1>8, <1>9, <1>10

\* The other events.
LEMMA OnOtherInv ==
  ASSUME XInv, ProcessEvent, Head(events).type # "damage"
  PROVE  XInv'
<1> USE CaptureAssumption DEF XInv
<1> DEFINE event == Head(events)
<1>1. /\ pc = "events" /\ events # <<>> /\ events' = Tail(events)
      /\ OnOther(event.type, event.of)
      /\ UNCHANGED <<given, server, pc, paused, video, drawn, window, texture,
                     follow_focused_initialized, nvfbc, damage_window, position>>
  BY DEF ProcessEvent
<1>2. /\ window_resized' = (window_resized \/ (event.type = "resized" /\ window = event.of))
      /\ init_new_window' = (init_new_window \/ event.type = "focus")
      /\ should_stop' = (should_stop \/ (event.type = "destroyed" /\ StopsAt(event.of)))
      /\ monitor' = IF event.type = "crtc" THEN event.of ELSE monitor
      /\ UNCHANGED <<region, damaged, excused>>
  BY <1>1 DEF OnOther
<1> USE DEF given, server, nvfbc
<1>3. /\ events' \in Seq(Message) /\ event \in Message
      /\ \A e \in Messages : e = event \/ e \in Messages'
      /\ LastMove => LastMove'
      /\ LastMove /\ event.type = "crtc" => event.of = crtc \/ \E e \in Messages' : e.type = "crtc"
  BY <1>1, Taking DEF ServerTypeOK, LoopTypeOK, CaptureTypeOK
<1> HIDE DEF event
<1>4. event.type # "damage"
  BY DEF event
<1>5. TypeOK'
  <2>1. ServerTypeOK' /\ CaptureTypeOK'
    BY <1>1, <1>2, <1>3 DEF ServerTypeOK, CaptureTypeOK
  <2>2. event.type = "crtc" => event.of \in Areas
    BY <1>3 DEF Message
  <2>3. LoopTypeOK'
    BY <1>1, <1>2, <2>2 DEF LoopTypeOK
  <2> QED
    BY <2>1, <2>3
<1>6. StartInv' /\ TargetInv'
  BY <1>1 DEF StartInv, TargetInv, Running, is_monitor_capture
<1>7. RegionInv'
  BY <1>1, <1>2, <1>3, <1>4 DEF RegionInv, Event
<1>8. FocusInv'
  BY <1>1, <1>2, <1>3 DEF FocusInv, Running, follow_focused
<1>9. MonitorInv'
  BY <1>1, <1>2, <1>3 DEF MonitorInv, Running
<1>10. PictureInv'
  BY <1>1, <1>2 DEF PictureInv, Running, IsDamaged, Visible
<1> QED
  BY <1>5, <1>6, <1>7, <1>8, <1>9, <1>10

\* When the events have been read, the monitor is where the last of them said.
LEMMA NoMoreEventsInv == XInv /\ NoMoreEvents => XInv'
<1> SUFFICES ASSUME XInv, NoMoreEvents PROVE XInv'
  OBVIOUS
<1> USE DEF XInv, NoMoreEvents, given, server, picture, capture, nvfbc, damage
<1>1. UNCHANGED Messages /\ (LastMove => LastMove') /\ Messages = {}
  <2>1. UNCHANGED Messages /\ (LastMove => LastMove')
    BY EventsKept
  <2>2. Messages = {}
    BY EmptySeq DEF Messages
  <2> QED
    BY <2>1, <2>2
<1>2. TypeOK'
  BY DEF ServerTypeOK, LoopTypeOK, CaptureTypeOK
<1>3. StartInv' /\ TargetInv' /\ RegionInv'
  BY <1>1 DEF StartInv, TargetInv, RegionInv, Running, is_monitor_capture
<1>4. FocusInv' /\ MonitorInv' /\ PictureInv'
  BY <1>1 DEF FocusInv, MonitorInv, PictureInv, Running, follow_focused, IsDamaged, Visible
<1> QED
  BY <1>2, <1>3, <1>4

\* The pointer that has moved on the monitor is damage; a focus that was told is taken.
LEMMA TickInv == XInv /\ Tick => XInv'
<1> SUFFICES ASSUME XInv, Tick PROVE XInv'
  OBVIOUS
<1> USE CaptureAssumption DEF XInv
<1>1. /\ pc = "tick" /\ pc' = "target" /\ init_new_window' = FALSE
      /\ UNCHANGED <<given, server, region, events, paused, picture, should_stop, nvfbc,
                     damage_window, monitor>>
      /\ CursorTick
      /\ is_monitor_capture => UNCHANGED <<window, texture, window_resized, follow_focused_initialized>>
      /\ ~ is_monitor_capture => SwitchTexture
  BY DEF Tick
<1> USE DEF given, server, picture, nvfbc
<1>2. UNCHANGED Messages /\ (LastMove => LastMove')
  BY <1>1, EventsKept
<1>3. /\ window' \in {window, focus} /\ (~ follow_focused => window' = window)
      /\ texture' \in {texture, window', None} /\ (window' # window => texture' \in {window', None})
      /\ window_resized' \in BOOLEAN /\ follow_focused_initialized' \in BOOLEAN
      /\ is_monitor_capture => UNCHANGED <<window, texture>>
      /\ follow_focused /\ focus # window' => ~ init_new_window /\ follow_focused_initialized
  BY <1>1 DEF SwitchTexture, NewFocus, TextureOf, ServerTypeOK, LoopTypeOK, CaptureTypeOK,
     is_monitor_capture, follow_focused
<1>4. /\ damaged' \in BOOLEAN /\ position' \in Places
      /\ damaged => damaged' = damaged /\ position' = position
      /\ ~ options.record_cursor => position' = position
      /\ position' # position => (damaged' <=> (options.target = "monitor" => position' = monitor)
                                                /\ position' # "away")
  BY <1>1 DEF CursorTick, ServerTypeOK, LoopTypeOK, CaptureTypeOK
<1>5. TypeOK'
  <2>1. ServerTypeOK' /\ LoopTypeOK'
    BY <1>1, <1>4 DEF ServerTypeOK, LoopTypeOK
  <2>2. window' \in Windows \cup {None} /\ texture' \in Windows \cup {None, Stale}
    BY <1>3 DEF ServerTypeOK, CaptureTypeOK
  <2>3. CaptureTypeOK'
    BY <1>1, <1>3, <2>2 DEF CaptureTypeOK
  <2> QED
    BY <2>1, <2>3
<1>6. StartInv' /\ RegionInv'
  BY <1>1, <1>2 DEF StartInv, RegionInv
<1>7. TargetInv'
  BY <1>1, <1>3, <1>4 DEF TargetInv, Running, is_monitor_capture, follow_focused
<1>8. FocusInv'
  BY <1>1, <1>2, <1>3 DEF FocusInv, Running, follow_focused
<1>9. MonitorInv'
  BY <1>1, <1>2 DEF MonitorInv, Running
<1>10. PictureInv'
  BY <1>1, <1>4 DEF PictureInv, MonitorInv, Running, IsDamaged, Visible, ServerTypeOK,
     LoopTypeOK, CaptureTypeOK
<1> QED
  BY <1>5, <1>6, <1>7, <1>8, <1>9, <1>10

\* The damage follows the window, and what was missed of it is captured.
LEMMA SetTargetInv == XInv /\ SetTarget => XInv'
<1> SUFFICES ASSUME XInv, SetTarget PROVE XInv'
  OBVIOUS
<1> USE CaptureAssumption DEF XInv, SetTarget, given, server, picture, capture, nvfbc
<1>1. UNCHANGED Messages /\ (LastMove => LastMove')
  BY EventsKept
<1>2. TypeOK'
  <2>1. ServerTypeOK' /\ CaptureTypeOK'
    BY DEF ServerTypeOK, CaptureTypeOK
  <2>2. LoopTypeOK'
    BY DEF LoopTypeOK, CaptureTypeOK
  <2> QED
    BY <2>1, <2>2
<1>3. StartInv' /\ RegionInv'
  BY <1>1 DEF StartInv, RegionInv
<1>4. TargetInv'
  BY DEF TargetInv, NewTarget, Running, is_monitor_capture, ServerTypeOK, LoopTypeOK,
     CaptureTypeOK
<1>5. FocusInv' /\ MonitorInv'
  BY <1>1 DEF FocusInv, MonitorInv, Running, follow_focused
<1>6. PictureInv'
  BY DEF PictureInv, Running, IsDamaged, Visible
<1> QED
  BY <1>2, <1>3, <1>4, <1>5, <1>6

\* A frame shows the window whose damage is asked for, or excuses itself.
LEMMA FrameInv == XInv /\ Frame => XInv'
<1> SUFFICES ASSUME XInv, Frame PROVE XInv'
  OBVIOUS
<1> USE CaptureAssumption DEF XInv
<1>1. /\ pc = "frame" /\ IsDamaged /\ pc' = "pause" /\ damaged' = FALSE
      /\ UNCHANGED <<given, server, region, events, paused, capture, damage_window, monitor, position>>
      /\ paused => excused' = TRUE /\ UNCHANGED <<video, drawn, nvfbc>>
      /\ ~ paused => CaptureFrame
  BY DEF Frame
<1> USE DEF given, server, capture
<1>2. UNCHANGED Messages /\ (LastMove => LastMove')
  BY <1>1, EventsKept
<1>3. ASSUME ~ paused
      PROVE  /\ drawn' \in Places /\ video' \in Shown
             /\ excused' = \/ video' # Wanted /\ excused
                           \/ video' \in {None, Stale}
                           \/ drawn' # position /\ position \in Visible
             /\ is_monitor_capture => video' \in {Root, Stale}
             /\ ~ is_monitor_capture => video' = texture
             /\ fbc_handle_created' \in BOOLEAN /\ capture_session_created' \in BOOLEAN
             /\ nvfbc_needs_recreate' \in BOOLEAN
  BY <1>1, <1>3 DEF CaptureFrame, GrabFrame, SetUpNvfbc, nvfbc, ServerTypeOK, LoopTypeOK,
     CaptureTypeOK, TargetInv, Shown, Places,
     is_monitor_capture
<1>4. excused' \in BOOLEAN
  BY <1>1, <1>3
<1>5. TypeOK'
  <2>1. ServerTypeOK'
    BY <1>1 DEF ServerTypeOK
  <2>2. LoopTypeOK'
    BY <1>1, <1>3, <1>4 DEF LoopTypeOK
  <2>3. CaptureTypeOK'
    BY <1>1, <1>3 DEF CaptureTypeOK, nvfbc
  <2> QED
    BY <2>1, <2>2, <2>3
<1>6. StartInv' /\ RegionInv'
  BY <1>1, <1>2 DEF StartInv, RegionInv
<1>7. TargetInv'
  BY <1>1, <1>3 DEF TargetInv, Running, is_monitor_capture, ServerTypeOK, LoopTypeOK,
     CaptureTypeOK
<1>8. FocusInv' /\ MonitorInv'
  BY <1>1, <1>2 DEF FocusInv, MonitorInv, Running, follow_focused
<1>9. PictureInv'
  BY <1>1, <1>3 DEF PictureInv, TargetInv, Running, IsDamaged, Visible, ServerTypeOK,
     LoopTypeOK, CaptureTypeOK
<1> QED
  BY <1>5, <1>6, <1>7, <1>8, <1>9

\* The rest of the iteration changes nothing that is on its way.
LEMMA RestInv == XInv /\ (NoFrame \/ TogglePause \/ NextIteration \/ UNCHANGED vars) => XInv'
<1> SUFFICES ASSUME XInv, NoFrame \/ TogglePause \/ NextIteration \/ UNCHANGED vars PROVE XInv'
  OBVIOUS
<1> USE DEF XInv
<1>1. /\ UNCHANGED <<given, server, region, events, picture, capture, nvfbc, damage>>
      /\ paused' \in BOOLEAN
      /\ \/ pc = "frame" /\ pc' = "pause"
         \/ pc = "pause" /\ pc' = "events"
         \/ UNCHANGED pc
  <2>1. CASE NoFrame
    <3>1. paused' = paused
      BY <2>1 DEF NoFrame
    <3>2. paused' \in BOOLEAN
      BY <3>1, Zenon DEF TypeOK, LoopTypeOK
    <3> QED
      BY <2>1, <3>2, Zenon DEF NoFrame
  <2>2. CASE TogglePause
    <3>1. paused' = ~ paused
      BY <2>2 DEF TogglePause
    <3>2. paused' \in BOOLEAN
      BY <3>1, Zenon
    <3> QED
      BY <2>2, <3>2, Zenon DEF TogglePause
  <2>3. CASE NextIteration
    BY <2>3 DEF NextIteration, LoopTypeOK
  <2>4. CASE UNCHANGED vars
    BY <2>4 DEF vars, LoopTypeOK
  <2> QED
    BY <2>1, <2>2, <2>3, <2>4
<1> USE DEF given, server, picture, capture, nvfbc, damage
<1>2. UNCHANGED Messages /\ (LastMove => LastMove')
  BY <1>1, EventsKept
<1>3. TypeOK'
  BY <1>1 DEF ServerTypeOK, LoopTypeOK, CaptureTypeOK
<1>4. StartInv' /\ TargetInv' /\ RegionInv'
  BY <1>1, <1>2 DEF StartInv, TargetInv, RegionInv, Running, is_monitor_capture
<1>5. FocusInv' /\ MonitorInv' /\ PictureInv'
  BY <1>1, <1>2 DEF FocusInv, MonitorInv, PictureInv, Running, follow_focused, IsDamaged,
     Visible
<1> QED
  BY <1>3, <1>4, <1>5

-------------------------------------------------------------------------------
(* The theorems.                                                           *)

\* A recorder that has not started satisfies the inductive invariant.
LEMMA InitInv == Init => XInv
<1> SUFFICES ASSUME Init PROVE XInv
  OBVIOUS
<1> USE CaptureAssumption DEF Init
<1>1. << >> \in Seq(Message) /\ Len(<< >>) = 0
  BY EmptySeq
<1>2. (CHOOSE w \in Windows : TRUE) \in Windows /\ (CHOOSE a \in Areas : TRUE) \in Areas
  OBVIOUS
<1>3. ServerTypeOK
  BY <1>1, <1>2 DEF ServerTypeOK, Places
<1>4. LoopTypeOK /\ CaptureTypeOK
  BY <1>2, <1>3 DEF ServerTypeOK, LoopTypeOK, CaptureTypeOK, Shown, Places
<1>5. StartInv /\ TargetInv /\ RegionInv
  BY DEF StartInv, TargetInv, RegionInv, Running
<1>6. FocusInv /\ MonitorInv /\ PictureInv
  BY DEF FocusInv, MonitorInv, PictureInv, Running
<1> QED
  BY <1>3, <1>4, <1>5, <1>6 DEF XInv

\* What the recorder is behind with is on its way, for ever.
THEOREM Invariance == Spec => []XInv
<1>1. XInv /\ [Next]_vars => XInv'
  <2> SUFFICES ASSUME XInv, [Next]_vars PROVE XInv'
    OBVIOUS
  <2>1. CASE Server
    <3>1. ASSUME NEW w \in Targets \ {Root}, Resize(w)
          PROVE  NewPixmap(w) /\ state' = [state EXCEPT ![w] = "mapped"]
      BY <3>1, TargetPlaces DEF Resize, XInv, ServerTypeOK
    <3>2. ASSUME NEW w \in Targets \ {Root}, Map(w)
          PROVE  NewPixmap(w) /\ state' = [state EXCEPT ![w] = "mapped"]
      BY <3>2 DEF Map
    <3>3. CASE \E w \in Targets, a \in Pieces : Draw(w, a)
      BY <3>3, DrawInv
    <3>4. CASE \E w \in Targets \ {Root} : Resize(w) \/ Map(w)
      BY <3>1, <3>2, <3>4, NewPixmapInv
    <3>5. CASE \E w \in Targets \ {Root} : Leave(w, "unmapped") \/ Leave(w, "dead")
      BY <3>5, LeaveInv
    <3>6. CASE \E w \in Windows \cup {None} : Focus(w)
      BY <3>6, FocusStepInv
    <3>7. CASE \E a \in Areas : MoveMonitor(a)
      BY <3>7, MoveMonitorInv
    <3>8. CASE \E p \in Places : MovePointer(p)
      BY <3>8, MovePointerInv
    <3> QED
      BY <2>1, <3>3, <3>4, <3>5, <3>6, <3>7, <3>8 DEF Server
  <2>2. CASE ProcessEvent
    BY <2>2, OnDamageInv, OnOtherInv
  <2>3. CASE \/ Start \/ Started \/ NoMoreEvents \/ Tick \/ SetTarget \/ Frame \/ NoFrame
             \/ TogglePause \/ NextIteration \/ UNCHANGED vars
    BY <2>3, StartStepInv, StartedInv, NoMoreEventsInv, TickInv, SetTargetInv, FrameInv, RestInv
  <2> QED
    BY <2>1, <2>2, <2>3 DEF Next, Recorder
<1> QED
  BY <1>1, InitInv, PTL DEF Spec

\* The types of all variables.
THEOREM TypeCorrect == Spec => []TypeOK
  BY Invariance, PTL DEF XInv

\* In the content mode every change of the target is in the picture, or the recorder
\* has something to do that will bring it there, or one of the known ways to let it go
\* has happened.
THEOREM NoChangeMissed == Spec => []NothingMissed
<1>1. XInv => NothingMissed
  <2> SUFFICES ASSUME XInv, Running, Wanted # None, Showable, ~ excused, ~ Pending
               PROVE  UpToDate
    BY DEF NothingMissed
  <2> USE CaptureAssumption DEF XInv
  <2>1. /\ options.xdamage /\ damage_window # None /\ ~ IsDamaged /\ position = pointer
        /\ follow_focused => window \in {None, damage_window}
    BY DEF Pending, IsDamaged
  <2>2. ASSUME follow_focused
        PROVE  window = focus
    <3>1. \A event \in Messages : event.type # "focus"
      <4>1. \A i \in DOMAIN events : events[i].type # "focus"
        BY <2>2 DEF Pending
      <4>2. DOMAIN events = 1 .. Len(events)
        BY LenProperties DEF ServerTypeOK
      <4> QED
        BY <4>1, <4>2 DEF Messages
    <3>2. follow_focused_initialized /\ ~ init_new_window
      BY <2>2 DEF Pending
    <3> QED
      BY <2>2, <3>1, <3>2 DEF FocusInv
  <2>3. Wanted = damage_window
    <3>1. CASE is_monitor_capture
      BY <3>1 DEF Wanted, TargetInv
    <3>2. CASE ~ is_monitor_capture
      <4>1. CASE follow_focused
        BY <2>1, <2>2, <3>2, <4>1 DEF Wanted
      <4>2. CASE options.target = "window"
        BY <2>1, <3>2, <4>2 DEF Wanted, TargetInv, follow_focused
      <4> QED
        BY <3>2, <4>1, <4>2 DEF LoopTypeOK, is_monitor_capture, follow_focused
    <3> QED
      BY <3>1, <3>2
  <2>4. region \cap Visible = {}
    <3>1. Event("damage", damage_window) \notin {events[i] : i \in DOMAIN events}
            \/ region \cap Visible = {}
      BY DEF Pending
    <3>2. DOMAIN events = 1 .. Len(events)
      BY LenProperties DEF ServerTypeOK
    <3> QED
      BY <3>1, <3>2 DEF RegionInv, Messages
  <2>5. video = Wanted
    BY <2>1, <2>3, <2>4 DEF PictureInv, Showable
  <2>6. pointer \in Visible => drawn = pointer
    BY <2>1 DEF PictureInv
  <2> QED
    BY <2>5, <2>6 DEF UpToDate
<1> QED
  BY <1>1, Invariance, PTL

\* NvFBC grabs a frame only from a session on a handle.
THEOREM FromASession == Spec => []GrabsFromASession
<1>1. Init => GrabsFromASession
  BY DEF Init, GrabsFromASession, Running
<1>2. GrabsFromASession /\ [Next]_vars => GrabsFromASession'
  <2> SUFFICES ASSUME GrabsFromASession, [Next]_vars PROVE GrabsFromASession'
    OBVIOUS
  <2>1. ASSUME UNCHANGED <<given, nvfbc>>, Running' => Running PROVE GrabsFromASession'
    BY <2>1 DEF GrabsFromASession, given, nvfbc
  <2>2. CASE Started
    BY <2>2 DEF Started, SetUpNvfbc, nvfbc, given, GrabsFromASession, Running
  <2>3. CASE Frame
    <3>1. UNCHANGED given /\ Running
      BY <2>3 DEF Frame, Running
    <3>2. UNCHANGED nvfbc \/ GrabFrame
      BY <2>3 DEF Frame, CaptureFrame
    <3>3. CASE GrabFrame
      BY <3>1, <3>3 DEF GrabFrame, SetUpNvfbc, Recreated, nvfbc, given, GrabsFromASession
    <3> QED
      BY <2>1, <3>1, <3>2, <3>3
  <2>4. CASE Server
    BY <2>1, <2>4 DEF Server, Draw, Resize, Map, NewPixmap, Leave, Focus, MoveMonitor,
       MovePointer,
       Running
  <2>5. CASE Start \/ ProcessEvent \/ NoMoreEvents \/ Tick \/ SetTarget
    BY <2>1, <2>5 DEF Start, ProcessEvent, NoMoreEvents, Tick, SetTarget, Running
  <2>6. CASE NoFrame \/ TogglePause \/ NextIteration \/ UNCHANGED vars
    BY <2>1, <2>6 DEF NoFrame, TogglePause, NextIteration, vars, Running
  <2> QED
    BY <2>2, <2>3, <2>4, <2>5, <2>6 DEF Next, Recorder
<1> QED
  BY <1>1, <1>2, PTL DEF Spec
=============================================================================
