------------------------------ MODULE X11Capture ------------------------------
(***************************************************************************)
(* gpu-screen-recorder on an X server, in the content frame rate mode: a   *)
(* frame is captured when XDamage says that the target has changed.  The   *)
(* target is a monitor or the whole screen (KMS or NvFBC), a window, or    *)
(* the window that has the focus (xcomposite.c).  damage.c keeps one       *)
(* damage object and one flag for all of them, and the recording loop of   *)
(* main.cpp takes both through one iteration after the other.              *)
(*                                                                         *)
(* A frame's contents are the window it shows, or Stale when that window   *)
(* has changed since.  The clock is left out: a frame may be due and a     *)
(* second may have passed at any time.  X errors arrive later and are      *)
(* ignored, so an XID is always handed out.                                *)
(***************************************************************************)
EXTENDS Naturals, Sequences, FiniteSets

CONSTANTS Windows,      \* application windows
          Root, None, Stale,
          Areas,        \* pieces of the screen, each as large as a monitor
          Options,      \* ways to start the recorder
          MaxEvents     \* bound: events the X server holds back

\* create_capture_impl: windows are captured with xcomposite, all else with KMS or NvFBC.
ASSUME CaptureAssumption ==
  /\ Windows # {} /\ Areas # {} /\ "away" \notin Areas
  /\ Root \notin Windows /\ None \notin Windows \cup {Root}
  /\ Stale \notin Windows \cup {Root, None}
  /\ Options \subseteq [target : {"monitor", "screen", "window", "focused"},
                       backend : {"kms", "nvfbc", "xcomposite"},
                       record_cursor : BOOLEAN, xdamage : BOOLEAN]
  /\ \A o \in Options : o.backend = "xcomposite" <=> o.target \in {"window", "focused"}
  /\ MaxEvents \in Nat

VARIABLES options, recorded_window,                  \* params.window
          focus, state, crtc, pointer, region, events,    \* the X server
          pc, paused, video, drawn, excused,         \* the loop, the frame, history
          window, texture, window_resized, init_new_window, follow_focused_initialized, should_stop,
          fbc_handle_created, capture_session_created, nvfbc_needs_recreate,
          damage_window, damaged, monitor, position

server  == <<focus, state, crtc, pointer>>
picture == <<video, drawn, excused>>
capture == <<window, texture, window_resized, init_new_window, follow_focused_initialized,
             should_stop>>
nvfbc   == <<fbc_handle_created, capture_session_created, nvfbc_needs_recreate>>
damage  == <<damage_window, damaged, monitor, position>>
given   == <<options, recorded_window>>
vars == <<given, server, region, events, pc, paused, picture, capture, nvfbc, damage>>

is_monitor_capture == options.target \in {"monitor", "screen"}
follow_focused     == options.target = "focused"
Running == pc \notin {"start", "select", "stopped"}

\* What the recording should show: None while no window has the focus.
Wanted == IF is_monitor_capture THEN Root ELSE IF follow_focused THEN focus ELSE recorded_window

\* What may be drawn on, and where: the pieces of a window are not told apart.
Targets == IF is_monitor_capture THEN {Root} ELSE IF follow_focused THEN Windows ELSE {recorded_window}
Pieces  == IF is_monitor_capture THEN Areas ELSE {CHOOSE a \in Areas : TRUE}

\* The pieces of the screen that the picture shows.
Visible == IF options.target = "monitor" THEN {crtc} ELSE Areas
Places  == Areas \cup {"away"}

Init ==
  /\ options \in Options /\ recorded_window = CHOOSE w \in Windows : TRUE
  /\ focus \in IF follow_focused THEN Windows \cup {None} ELSE {None}
  /\ state = [w \in Windows |-> "mapped"]
  /\ crtc \in IF options.target = "monitor" THEN Areas ELSE {CHOOSE a \in Areas : TRUE}
  /\ pointer \in IF options.record_cursor THEN Places ELSE {"away"}
  /\ region = {} /\ events = <<>>
  /\ pc = "start" /\ paused = FALSE
  /\ video = Stale /\ drawn = "away" /\ excused = FALSE
  /\ window = None /\ texture = None /\ window_resized = FALSE
  /\ init_new_window = FALSE /\ follow_focused_initialized = FALSE
  /\ should_stop = FALSE
  /\ fbc_handle_created = FALSE /\ capture_session_created = FALSE
  /\ nvfbc_needs_recreate = FALSE
  /\ damage_window = None /\ damaged = FALSE /\ monitor = crtc /\ position = pointer

-------------------------------------------------------------------------------
(* Plausible mistakes in the definitions below; the specification does not *)
(* use them.                                                               *)

NotSubtracted(w) == region
FirstTargetOnly == window # None /\ damage_window = None
OnlyWhenTold == follow_focused /\ init_new_window /\ focus # window
TryOnce == TRUE

-------------------------------------------------------------------------------
(* The X server.  A damage object made with XDamageReportNonEmpty sends an *)
(* event when its region stops being empty.                                *)

Event(kind, what) == [type |-> kind, of |-> what]
Send(new) == Len(events) + Len(new) <= MaxEvents /\ events' = events \o new

Damaged(w, a) == region' = IF damage_window = w THEN region \cup {a} ELSE region
DamageEvent(w) == IF damage_window = w /\ region = {} THEN <<Event("damage", w)>> ELSE <<>>

\* The events of a window go to those who selected them: the window that is captured.
WindowEvent(kind, w) == IF window = w /\ Running THEN <<Event(kind, w)>> ELSE <<>>

\* The picture gets old.
Outdated(w) == video' = IF video = w THEN Stale ELSE video

\* Something is drawn on the target, or beside the monitor.
Draw(w, a) ==
  /\ w \in Windows => state[w] = "mapped"
  /\ Damaged(w, a) /\ Send(DamageEvent(w))
  /\ IF a \in Visible THEN Outdated(w) ELSE UNCHANGED video
  /\ UNCHANGED <<given, server, pc, paused, drawn, excused, capture, nvfbc, damage>>

\* A window that is resized or mapped is painted on a new pixmap.
NewPixmap(w) ==
  /\ Outdated(w) /\ \E a \in Pieces : Damaged(w, a)
  /\ texture' = IF texture = w THEN Stale ELSE texture
  /\ Send(WindowEvent("resized", w) \o DamageEvent(w))
  /\ UNCHANGED <<given, focus, crtc, pointer, pc, paused, drawn, excused, window, window_resized,
                 init_new_window, follow_focused_initialized, should_stop, nvfbc, damage>>

Resize(w) == state[w] = "mapped" /\ NewPixmap(w) /\ UNCHANGED state
Map(w)    == state[w] = "unmapped" /\ state' = [state EXCEPT ![w] = "mapped"] /\ NewPixmap(w)

\* A window that does not have the focus is closed or hidden.
Leave(w, how) ==
  /\ state[w] = "mapped" /\ focus # w
  /\ state' = [state EXCEPT ![w] = how]
  /\ Send(IF how = "dead" THEN WindowEvent("destroyed", w) ELSE <<>>)
  /\ texture' = IF texture = w THEN Stale ELSE texture
  /\ UNCHANGED <<given, focus, crtc, pointer, region, pc, paused, picture, window, window_resized,
                 init_new_window, follow_focused_initialized, should_stop, nvfbc, damage>>

Focus(w) ==
  /\ follow_focused /\ w # focus /\ (w \in Windows => state[w] = "mapped")
  /\ focus' = w
  /\ Send(IF Running THEN <<Event("focus", w)>> ELSE <<>>)
  /\ UNCHANGED <<given, state, crtc, pointer, region, pc, paused, picture, capture, nvfbc, damage>>

\* The monitor is moved: nothing is drawn, so no damage is reported.
MoveMonitor(a) ==
  /\ options.target = "monitor" /\ Running /\ crtc # a
  /\ crtc' = a /\ Outdated(Root) /\ excused' = TRUE
  /\ Send(<<Event("crtc", a)>>)
  /\ UNCHANGED <<given, focus, state, pointer, region, pc, paused, drawn, capture, nvfbc, damage>>

MovePointer(p) ==
  /\ options.record_cursor /\ pointer' = p
  /\ UNCHANGED <<given, focus, state, crtc, region, events, pc, paused, picture, capture, nvfbc,
                 damage>>

Server == \/ \E w \in Targets, a \in Pieces : Draw(w, a)
          \/ \E w \in Targets \ {Root} : Resize(w) \/ Map(w) \/ Leave(w, "unmapped") \/ Leave(w, "dead")
          \/ \E w \in Windows \cup {None} : Focus(w)
          \/ \E a \in Areas : MoveMonitor(a)
          \/ \E p \in Places : MovePointer(p)

-------------------------------------------------------------------------------
(* NvFBC: a handle, a capture session on it, and frames that are grabbed.  *)

\* setup_handle and setup_session, each of which may fail; a handle that cannot be
\* used is destroyed, and a session without textures too.
SetUpNvfbc ==
  \E handle, session \in BOOLEAN :
    /\ session => handle
    /\ fbc_handle_created' = handle /\ capture_session_created' = session

Recreated == capture_session_created'

\* A failed grab asks for a new session, which is made when a second has passed: the
\* frames until then, and when it fails, keep the picture.
GrabFrame ==
  \/ /\ ~ nvfbc_needs_recreate /\ video' = Root /\ UNCHANGED nvfbc
  \/ /\ ~ nvfbc_needs_recreate /\ nvfbc_needs_recreate' = TRUE
     /\ UNCHANGED <<fbc_handle_created, capture_session_created, video>>
  \/ /\ nvfbc_needs_recreate /\ UNCHANGED <<nvfbc, video>>
  \/ /\ nvfbc_needs_recreate /\ SetUpNvfbc
     /\ IF Recreated
        THEN /\ nvfbc_needs_recreate' \in BOOLEAN
             /\ video' = IF nvfbc_needs_recreate' THEN video ELSE Root
        ELSE UNCHANGED <<nvfbc_needs_recreate, video>>

-------------------------------------------------------------------------------
(* Windows and their textures (xcomposite.c, window_texture.c).            *)

\* window_texture_init and window_texture_on_resize: a mapped window's pixmap is bound.
TextureOf(w) == IF w \in Windows /\ state[w] = "mapped" THEN w ELSE None

\* gsr_capture_*_start, in two steps: the focus is read before its changes are asked
\* for.  A window without a texture, or NvFBC without a session, ends the recording.
Start ==
  /\ pc = "start"
  /\ window' = IF is_monitor_capture THEN None ELSE IF follow_focused THEN focus ELSE recorded_window
  /\ pc' = "select"
  /\ UNCHANGED <<given, server, region, events, paused, picture, texture, window_resized,
                 init_new_window, follow_focused_initialized, should_stop, nvfbc, damage>>

\* gsr_damage_init and gsr_damage_set_target_monitor: the damage that is there is
\* captured by the first frame.
Started ==
  /\ pc = "select"
  /\ texture' = TextureOf(window)
  /\ IF options.backend = "nvfbc" THEN SetUpNvfbc /\ UNCHANGED nvfbc_needs_recreate ELSE UNCHANGED nvfbc
  /\ pc' = IF \/ options.target = "window" /\ texture' = None
              \/ options.backend = "nvfbc" /\ ~ capture_session_created'
           THEN "stopped" ELSE "events"
  /\ damaged' = TRUE /\ monitor' = crtc
  /\ damage_window' = IF is_monitor_capture THEN Root ELSE None
  /\ UNCHANGED <<given, server, region, events, paused, picture, window, window_resized,
                 init_new_window, follow_focused_initialized, should_stop, position>>

\* The first tick and every change of the focus look for the window again.
NewFocus == /\ follow_focused /\ (init_new_window \/ ~ follow_focused_initialized)
            /\ (focus # window \/ ~ follow_focused_initialized)

\* The other window's texture, or the same window's new one a second after the last of
\* its events; the second is not damage.
SwitchTexture ==
  IF NewFocus
  THEN /\ window' = focus /\ follow_focused_initialized' = TRUE
       /\ texture' = TextureOf(focus) /\ window_resized' = FALSE
  ELSE /\ \/ window_resized /\ window_resized' = FALSE /\ texture' = TextureOf(window)
          \/ UNCHANGED <<window_resized, texture>>
       /\ UNCHANGED <<window, follow_focused_initialized>>

-------------------------------------------------------------------------------
(* The recording loop with damage.c.                                       *)

\* gsr_damage_on_damage_event takes the damage of its object; of a monitor the last
\* event says whether there is any, also when an earlier one said so.
Subtracted(w) == IF w = damage_window THEN {} ELSE region

OnDamage(w) ==
  /\ region' = Subtracted(w)
  /\ damaged' = (options.target = "monitor" => monitor \in region)
  /\ excused' = (excused \/ (damaged /\ ~ damaged') \/ monitor # crtc)
  /\ UNCHANGED <<monitor, window_resized, init_new_window, should_stop>>

\* A window that dies ends its recording; the one with the focus may die.
StopsAt(w) == ~ follow_focused /\ window = w

\* The capture's event handler, and damage.c's for RandR.
OnOther(kind, of) ==
  /\ window_resized' = (window_resized \/ (kind = "resized" /\ window = of))
  /\ init_new_window' = (init_new_window \/ kind = "focus")
  /\ should_stop' = (should_stop \/ (kind = "destroyed" /\ StopsAt(of)))
  /\ monitor' = IF kind = "crtc" THEN of ELSE monitor
  /\ UNCHANGED <<region, damaged, excused>>

ProcessEvent ==
  /\ pc = "events" /\ events # <<>> /\ events' = Tail(events)
  /\ LET event == Head(events)
     IN  IF event.type = "damage" THEN OnDamage(event.of) ELSE OnOther(event.type, event.of)
  /\ UNCHANGED <<given, server, pc, paused, video, drawn, window, texture,
                 follow_focused_initialized, nvfbc, damage_window, position>>

NoMoreEvents == /\ pc = "events" /\ events = <<>> /\ pc' = "tick"
                /\ UNCHANGED <<given, server, region, events, paused, picture, capture, nvfbc, damage>>

\* gsr_damage_on_tick_cursor: the pointer is looked at while nothing else is damaged.
CursorTick ==
  IF options.record_cursor /\ ~ damaged /\ damage_window # None
  THEN /\ position' = pointer
       /\ damaged' = (position' # position /\ (options.target = "monitor" => position' = monitor)
                                         /\ position' # "away")
  ELSE UNCHANGED <<position, damaged>>

\* gsr_damage_tick and gsr_capture_tick.
Tick ==
  /\ pc = "tick" /\ pc' = "target"
  /\ CursorTick
  /\ init_new_window' = FALSE
  /\ IF is_monitor_capture
     THEN UNCHANGED <<window, texture, window_resized, follow_focused_initialized>>
     ELSE SwitchTexture
  /\ UNCHANGED <<given, server, region, events, paused, picture, should_stop, nvfbc, damage_window,
                 monitor>>

\* gsr_damage_set_target_window.  No window leaves the damage on the last one.
NewTarget == window \notin {None, damage_window} /\ options.xdamage

SetTarget ==
  /\ pc = "target" /\ pc' = IF should_stop THEN "stopped" ELSE "frame"
  /\ IF NewTarget
     THEN damage_window' = window /\ region' = {} /\ damaged' = TRUE
     ELSE UNCHANGED <<damage_window, region, damaged>>
  /\ UNCHANGED <<given, server, events, paused, picture, capture, nvfbc, monitor, position>>

\* gsr_damage_is_damaged.
IsDamaged == ~ options.xdamage \/ damage_window = None \/ damaged

\* The picture of a frame; the pointer is looked at again.
CaptureFrame ==
  /\ drawn' = IF pointer \in Visible THEN pointer ELSE "away"
  /\ IF options.backend = "nvfbc" THEN GrabFrame
     ELSE video' = (IF is_monitor_capture THEN Root ELSE texture) /\ UNCHANGED nvfbc
  /\ excused' = \/ video' # Wanted /\ excused
                \/ video' \in {None, Stale}
                \/ drawn' # position /\ position \in Visible

Frame ==
  /\ pc = "frame" /\ IsDamaged /\ pc' = "pause" /\ damaged' = FALSE
  /\ IF paused THEN excused' = TRUE /\ UNCHANGED <<video, drawn, nvfbc>> ELSE CaptureFrame
  /\ UNCHANGED <<given, server, region, events, paused, capture, damage_window, monitor, position>>

NoFrame == /\ pc = "frame" /\ pc' = "pause"
           /\ UNCHANGED <<given, server, region, events, paused, picture, capture, nvfbc, damage>>

TogglePause == /\ pc = "pause" /\ pc' = "events" /\ paused' = ~ paused
               /\ UNCHANGED <<given, server, region, events, picture, capture, nvfbc, damage>>

NextIteration == /\ pc = "pause" /\ pc' = "events"
                 /\ UNCHANGED <<given, server, region, events, paused, picture, capture, nvfbc, damage>>

Recorder == \/ Start \/ Started \/ ProcessEvent \/ NoMoreEvents \/ Tick \/ SetTarget
            \/ Frame \/ NoFrame \/ NextIteration

Next == Server \/ Recorder \/ TogglePause

Spec == Init /\ [][Next]_vars

\* The loop goes round, a frame is due again within a period, a window's second passes.
FairSpec == /\ Spec /\ WF_vars(Recorder) /\ SF_vars(Frame)
            /\ SF_vars(Tick /\ window_resized' # window_resized)

-------------------------------------------------------------------------------
(* Properties.                                                             *)

Shown == {Root, None, Stale} \cup Windows

Message == [type : {"damage", "resized", "destroyed", "focus"}, of : Windows \cup {Root, None}]
           \cup [type : {"crtc"}, of : Areas]

ServerTypeOK ==
  /\ focus \in Windows \cup {None} /\ state \in [Windows -> {"mapped", "unmapped", "dead"}]
  /\ crtc \in Areas /\ pointer \in Places
  /\ region \subseteq Areas /\ events \in Seq(Message)

LoopTypeOK ==
  /\ options \in Options /\ recorded_window \in Windows
  /\ pc \in {"start", "select", "events", "tick", "target", "frame", "pause", "stopped"}
  /\ video \in Shown /\ drawn \in Places
  /\ paused \in BOOLEAN /\ excused \in BOOLEAN
  /\ damage_window \in Windows \cup {None, Root}
  /\ damaged \in BOOLEAN /\ monitor \in Areas /\ position \in Places

CaptureTypeOK ==
  /\ window \in Windows \cup {None} /\ texture \in Windows \cup {None, Stale}
  /\ window_resized \in BOOLEAN /\ init_new_window \in BOOLEAN
  /\ follow_focused_initialized \in BOOLEAN /\ should_stop \in BOOLEAN
  /\ fbc_handle_created \in BOOLEAN /\ capture_session_created \in BOOLEAN
  /\ nvfbc_needs_recreate \in BOOLEAN

TypeOK == ServerTypeOK /\ LoopTypeOK /\ CaptureTypeOK

UpToDate == video = Wanted /\ (pointer \in Visible => drawn = pointer)
Showable == Wanted \in Windows => state[Wanted] = "mapped"

\* A change that the loop has not come to yet.
Pending ==
  \/ IsDamaged \/ position # pointer
  \/ region \cap Visible # {} /\ Event("damage", damage_window) \in {events[i] : i \in DOMAIN events}
  \/ follow_focused /\ \/ ~ follow_focused_initialized \/ init_new_window
                       \/ \E i \in DOMAIN events : events[i].type = "focus"
                       \/ window # None /\ window # damage_window

\* "'content' option matches the recording frame rate to the captured content"
\* (main.cpp:1281): a change of the target is captured or will be, whatever else the X
\* server reports meanwhile.  The recorder lets a change go, until the next one, when
\* damage elsewhere overwrites damaged (damage.c:241), the monitor moves, the recording
\* is paused, the texture was of an old pixmap or of no window, NvFBC gave no frame, or
\* the pointer goes back to where damage.c saw it last.
NothingMissed ==
  Running /\ Wanted # None /\ Showable /\ ~ excused => UpToDate \/ Pending

\* When the X server comes to rest, the picture shows the target as it is (or one of
\* the above happened).
CatchesUp ==
  <>[][Recorder]_vars =>
    <>[](UpToDate \/ excused \/ paused \/ ~ Running \/ Wanted = None \/ ~ Showable)

\* When the X server comes to rest, the window that has the focus is the one that is
\* recorded and tracked, however the focus changed before, while the recorder started
\* or between two events.
FollowsFocus ==
  <>[][Recorder \/ TogglePause]_vars =>
    <>[](follow_focused => window = focus /\ (focus # None /\ options.xdamage => damage_window = focus))

\* NvFBC grabs a frame only from a session on a handle, although either may fail to
\* come back after a grab failed.
GrabsFromASession ==
  Running /\ options.backend = "nvfbc" /\ ~ nvfbc_needs_recreate
    => fbc_handle_created /\ capture_session_created
===============================================================================
