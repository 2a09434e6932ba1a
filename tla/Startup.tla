-------------------------------- MODULE Startup -------------------------------
(***************************************************************************)
(* gpu-screen-recorder from its command line to the first frame            *)
(* (src/main.cpp, egl.c, utils.c, encoder/video).  The options are read    *)
(* one after the other; the display server, the graphics cards and ffmpeg  *)
(* are asked what they can do; codecs, capture and encoder are chosen from *)
(* the answers.  A step that cannot go on exits, and "failed" is the step. *)
(* What --info would list is an operator: it asks the same questions along *)
(* a path of its own.                                                      *)
(*                                                                         *)
(* Options that only change numbers (quality, key frames, colour range,    *)
(* bit rates, cursor, overclocking) are left out.                          *)
(***************************************************************************)
EXTENDS Naturals

CONSTANTS CommandLines,  \* the command lines that are given
          Systems        \* the systems the program is started on

Hevc == {"hevc", "hevc_hdr", "hevc_10bit"}
Av1  == {"av1", "av1_hdr", "av1_10bit"}
VideoCodecs == {"h264", "vp8", "vp9"} \cup Hevc \cup Av1
Extensions  == {"mp4", "mkv", "webm", "flv", "m3u8", "ts"}
Cards       == {"card0", "card1"}

\* "?" is a value nobody knows, "" an option that is not there.
ASSUME StartupAssumption ==
  /\ CommandLines \subseteq
       [k : VideoCodecs \cup {"auto", "?"}, ac : {"aac", "opus", "flac"}, cpu : BOOLEAN,
        w : {"focused", "portal", "screen", "screen-direct", "screen-direct-force",
             "monitor", "?", "id", "0"},
        s : {"", "WxH", "?"}, fm : {"cfr", "vfr", "content"}, a : {"", "device", "?"},
        r : BOOLEAN, o : {"", "file", "directory", "stream"},
        suffix : Extensions \cup {"?"}, c : Extensions \cup {"", "?"}]
  /\ Systems \subseteq
       [display : {"x11", "xwayland", "wayland"}, vendor : {"amd", "intel", "nvidia", "?"},
        profiles : SUBSET {"h264", "hevc", "hevc10", "av1", "vp8", "vp9"},
        ffmpeg : SUBSET {"libx264", "h264", "hevc", "av1", "vp8", "vp9"},
        renders : Cards \cup {""},      \* what EGL says is the card it draws with
        screens : SUBSET Cards]         \* cards that drive a monitor

VARIABLES cmd, sys, pc, failed,
          m                             \* main's variables

startupVars == <<cmd, sys, pc, failed, m>>

Unset == "none"

InitStartup ==
  /\ cmd \in CommandLines /\ sys \in Systems /\ pc = "options" /\ failed = Unset
  /\ m = [video_codec |-> "h264", audio_codec |-> "opus", track |-> "", wayland |-> FALSE,
          context_type |-> Unset, dri_card_path |-> "", card_path |-> "",
          file_extension |-> "", encoder_f |-> Unset,
          capture |-> Unset, capture_hdr |-> FALSE, color_depth |-> 8,
          video_encoder |-> Unset, hdr |-> FALSE]

ExitProgram == pc' = "exited" /\ failed' = pc /\ UNCHANGED <<cmd, sys, m>>
Go(next, mm) == pc' = next /\ m' = mm /\ UNCHANGED <<cmd, sys, failed>>

-------------------------------------------------------------------------------
(* Plausible mistakes in the definitions below; the specification does not *)
(* use them.                                                               *)

JustAv1(c) == c = "av1"
OnlyOnWayland(wayland) == wayland

-------------------------------------------------------------------------------

IsHdr(c) == c \in {"hevc_hdr", "av1_hdr"}
IsAv1(c) == c \in Av1
ToSdr(c) == IF c = "hevc_hdr" THEN "hevc" ELSE IF c = "av1_hdr" THEN "av1" ELSE c
BitDepth(c) == IF c \in {"hevc_hdr", "hevc_10bit", "av1_hdr", "av1_10bit"} THEN 10 ELSE 8

\* contains_non_hex_number: the name of a monitor, or what could be one.
Named == cmd.w \in {"screen", "screen-direct", "screen-direct-force", "monitor", "?"}
IsMonitorCapture == Named
IsPortalCapture  == cmd.w = "portal"
IsLivestream     == cmd.o = "stream"

\* -k, -ac and -a, and what else is not one of an option's values.
ParseOptions ==
  /\ pc = "options"
  /\ IF cmd.k = "?" \/ cmd.a = "?" THEN ExitProgram
     ELSE Go("display",
             [m EXCEPT !.video_codec = IF cmd.k = "auto" THEN "h264" ELSE cmd.k,
                       !.audio_codec = IF cmd.ac = "flac" THEN "opus" ELSE cmd.ac,
                       !.track = cmd.a])

\* Without an X server it must be Wayland; a server that is XWayland says so.
IsWayland == sys.display # "x11"

OpenDisplay ==
  /\ pc = "display"
  /\ IF IsHdr(m.video_codec) /\ ~ IsWayland THEN ExitProgram
     ELSE Go("load", [m EXCEPT !.wayland = IsWayland])

\* NvFBC needs GLX, and a GLX context does not know its card.
NeedsGlx(monitor) == ~ IsWayland /\ monitor /\ sys.vendor = "nvidia"

\* gsr_egl_load: a library, the window or the context can fail, and a software renderer
\* or an unknown vendor is refused.
LoadEgl ==
  /\ pc = "load"
  /\ \/ ExitProgram
     \/ /\ sys.vendor # "?"
        /\ LET glx == NeedsGlx(IsMonitorCapture)
           IN  Go("card", [m EXCEPT !.context_type  = IF glx THEN "glx" ELSE "egl",
                                    !.dri_card_path = IF glx THEN "" ELSE sys.renders])

UseDrm(wayland) == wayland \/ sys.vendor # "nvidia"

\* gsr_get_valid_card_path: the card of the context, or else the first one that drives a
\* monitor.  "" is none.
ValidCard(dri, monitor) ==
  IF dri # "" THEN IF monitor => dri \in sys.screens THEN dri ELSE ""
  ELSE IF "card0" \in sys.screens THEN "card0"
  ELSE IF "card1" \in sys.screens THEN "card1" ELSE ""

FindCard ==
  /\ pc = "card"
  /\ IF ~ UseDrm(m.wayland) THEN Go("modes", m)
     ELSE LET card == ValidCard(m.dri_card_path, IsMonitorCapture)
          IN  IF card = "" THEN ExitProgram ELSE Go("modes", [m EXCEPT !.card_path = card])

\* -fm and -s.
CheckModes ==
  /\ pc = "modes"
  /\ IF \/ cmd.fm = "content" /\ m.wayland /\ ~ IsPortalCapture
        \/ cmd.s # "" /\ cmd.w # "focused"
     THEN ExitProgram ELSE Go("output", m)

\* -o, -r and -c.  A directory for the file is made, and that may fail.
OutputRefused ==
  \/ IsLivestream /\ cmd.r
  \/ cmd.o \in {"file", "directory"} /\ cmd.r /\ (cmd.c = "" \/ cmd.o = "file")
  \/ cmd.o = "" /\ (cmd.r \/ cmd.c = "")

CheckOutput ==
  /\ pc = "output"
  /\ \/ (OutputRefused \/ cmd.o = "file") /\ ExitProgram
     \/ ~ OutputRefused /\ Go("container", m)

\* avformat_alloc_output_context2: -c, or what the name of the file ends with.
GuessContainer ==
  /\ pc = "container"
  /\ LET extension == IF cmd.c # "" THEN cmd.c ELSE cmd.suffix
     IN  IF extension = "?" THEN ExitProgram
         ELSE Go("codecs", [m EXCEPT !.file_extension = extension])

-------------------------------------------------------------------------------
(* Codecs.                                                                 *)

SelectAudioCodec(c, extension) ==
  CASE c = "aac"  -> IF extension = "webm" THEN "opus" ELSE "aac"
    [] c = "opus" -> IF extension \in {"mp4", "mkv", "webm"} THEN "opus" ELSE "aac"

ProfileCodecs(p) ==
  CASE p = "hevc10" -> {"hevc_hdr", "hevc_10bit"}
    [] p = "av1"    -> Av1
    [] OTHER        -> {p}

\* NVENC has no profile of VP8 or VP9.
SupportedCodecs(cpu) ==
  IF cpu THEN {"h264"}
  ELSE UNION {ProfileCodecs(p) :
              p \in sys.profiles \ (IF sys.vendor = "nvidia" THEN {"vp8", "vp9"} ELSE {})}

Family(c) == IF c \in Hevc THEN "hevc" ELSE IF c \in Av1 THEN "av1" ELSE c

\* get_ffmpeg_video_codec
FfmpegCodec(c) == IF Family(c) \in sys.ffmpeg THEN Family(c) ELSE Unset

\* The container's and the user's wish.
WantedCodec(c, extension) ==
  LET asked == IF cmd.k # "auto" THEN c ELSE IF extension = "webm" THEN "vp8" ELSE "h264"
  IN  CASE extension = "flv"                   -> "h264"
        [] extension = "m3u8" /\ IsAv1(asked) -> "hevc"
        [] OTHER                              -> asked

\* pick_video_codec: the codec, and ffmpeg's encoder for it.  When h264 is not there,
\* hevc is looked for, and h264's encoder taken all the same.
PickVideoCodec(c, flv) ==
  LET supported == SupportedCodecs(cmd.cpu)
      Encoder(f, needs) == IF needs \in supported THEN FfmpegCodec(f) ELSE Unset
      first == IF cmd.cpu THEN IF "libx264" \in sys.ffmpeg THEN "h264" ELSE Unset
               ELSE Encoder(c, c)
  IN  IF first # Unset \/ cmd.k = "auto" \/ flv \/ c \in {"vp8", "vp9"} THEN <<c, first>>
      ELSE IF c = "h264" THEN <<"h264", Encoder("h264", "hevc")>>
      ELSE <<"h264", Encoder("h264", "h264")>>

SelectCodecs ==
  /\ pc = "codecs"
  /\ LET sdr    == IF IsPortalCapture THEN ToSdr(m.video_codec) ELSE m.video_codec
         wanted == WantedCodec(sdr, m.file_extension)
         picked == PickVideoCodec(wanted, m.file_extension = "flv")
     IN  IF (cmd.cpu /\ wanted # "h264") \/ picked[2] = Unset THEN ExitProgram
         ELSE Go("capture",
                 [m EXCEPT !.video_codec = picked[1], !.encoder_f = picked[2],
                           !.audio_codec = SelectAudioCodec(m.audio_codec, m.file_extension),
                           !.color_depth = BitDepth(picked[1])])

-------------------------------------------------------------------------------
(* Capture, encoder and output.                                            *)

\* The monitors X listed when the window was made, or those of the card.
Monitors == IF IsWayland THEN {m.card_path} \cap sys.screens ELSE sys.screens

\* The names create_capture_impl goes on with.
NameKnown ==
  \/ cmd.w \in {"screen", "monitor"} /\ Monitors # {}
  \/ ~ UseDrm(m.wayland) /\ cmd.w \in {"screen", "screen-direct", "screen-direct-force"}

CaptureRefused ==
  \/ cmd.w = "focused" /\ (m.wayland \/ cmd.s # "WxH")
  \/ IsPortalCapture /\ ~ m.wayland
  \/ Named /\ ~ NameKnown
  \/ cmd.w \in {"id", "0"} /\ (m.wayland \/ cmd.w = "0")

CaptureOf ==
  CASE IsPortalCapture -> "portal"
    [] Named -> IF sys.vendor = "nvidia" /\ ~ m.wayland THEN "nvfbc" ELSE "kms"
    [] OTHER -> "xcomposite"

\* A live stream without sound gets a silent track.
CreateCapture ==
  /\ pc = "capture"
  /\ IF CaptureRefused THEN ExitProgram
     ELSE Go("start",
             [m EXCEPT !.capture = CaptureOf,
                       !.capture_hdr = CaptureOf = "kms" /\ IsHdr(m.video_codec),
                       !.track = IF IsLivestream /\ m.track = "" THEN "silent" ELSE m.track])

\* gsr_capture_start may fail for each of the backends.
StartCapture ==
  /\ pc = "start"
  /\ ExitProgram \/ Go("encoder", [m EXCEPT !.hdr = IsHdr(m.video_codec)])

\* create_video_encoder and its start, which may fail, and the colour conversion.
StartEncoder ==
  /\ pc = "encoder"
  /\ \/ ExitProgram
     \/ Go("open", [m EXCEPT !.video_encoder =
                      IF cmd.cpu THEN "software"
                      ELSE IF sys.vendor = "nvidia" THEN "cuda" ELSE "vaapi"])

\* avcodec_open2 needs what the card encodes.
OpenCodec ==
  /\ pc = "open"
  /\ \/ ExitProgram
     \/ (cmd.cpu \/ m.video_codec \in SupportedCodecs(FALSE)) /\ Go("audio", m)

\* The encoder and the device of a track; a silent track has no device.
OpenAudio ==
  /\ pc = "audio"
  /\ (m.track # "" /\ ExitProgram) \/ Go("header", m)

\* A recording is opened and its header written; a replay is not.
WriteHeader ==
  /\ pc = "header"
  /\ (~ cmd.r /\ ExitProgram) \/ Go("record", m)

NextStartup == \/ ParseOptions \/ OpenDisplay \/ LoadEgl \/ FindCard \/ CheckModes
               \/ CheckOutput \/ GuessContainer \/ SelectCodecs \/ CreateCapture
               \/ StartCapture \/ StartEncoder \/ OpenCodec \/ OpenAudio \/ WriteHeader

SpecStartup == InitStartup /\ [][NextStartup]_startupVars

-------------------------------------------------------------------------------
(* --info.                                                                 *)

\* --info does not say that a monitor is to be captured.
InfoCard == ValidCard(sys.renders, FALSE)
InfoLists == sys.vendor # "?" /\ (UseDrm(IsWayland) => InfoCard # "")

\* list_supported_capture_options, by the values of -w.
ListedCaptures ==
  IF ~ InfoLists THEN {}
  ELSE (IF IsWayland THEN {"portal"} ELSE {"id", "focused"})
       \cup (IF UseDrm(IsWayland) THEN {} ELSE {"screen"})
       \cup (IF (IF IsWayland THEN InfoCard \in sys.screens ELSE sys.screens # {})
             THEN {"monitor"} ELSE {})

\* A plausible mistake: HDR listed on X11.
ListedHdrToo ==
  IF ~ InfoLists THEN {} ELSE {c \in SupportedCodecs(FALSE) : FfmpegCodec(c) # Unset}

\* list_supported_video_codecs
ListedCodecs ==
  IF ~ InfoLists THEN {}
  ELSE {c \in SupportedCodecs(FALSE) : FfmpegCodec(c) # Unset /\ (IsHdr(c) => IsWayland)}

-------------------------------------------------------------------------------
(* Properties.                                                             *)

\* libavformat: what the containers take.
VideoIn(extension) ==
  CASE extension = "mkv"  -> VideoCodecs
    [] extension = "mp4"  -> VideoCodecs \ {"vp8"}
    [] extension = "webm" -> {"vp8", "vp9"} \cup Av1
    [] extension = "flv"  -> {"h264"}
    [] OTHER              -> {"h264"} \cup Hevc
AudioIn(extension) ==
  CASE extension \in {"mp4", "mkv"} -> {"aac", "opus"}
    [] extension = "webm"           -> {"opus"}
    [] OTHER                        -> {"aac"}

\* Mismatches the code leaves to the muxer, when a codec was asked for by name.
LeftToMuxer ==
  cmd.k # "auto" /\ (m.file_extension \in {"webm", "ts"} \/ m.video_codec \in {"vp8", "vp9"})

\* "Only containers that support h264, hevc, av1, vp8 or vp9 are supported"
\* (main.cpp:1120) and "trying h264 instead" (main.cpp:2753, 2764): through all the
\* replacements the codecs fit the container and each other, and hevc or av1 that the
\* card does not encode never ends the program while it encodes h264.  (vp8 and vp9 have
\* nothing to fall back to, main.cpp:2778: they do end it.)
CodecsFit ==
  /\ m.encoder_f # Unset =>
       /\ m.audio_codec \in AudioIn(m.file_extension)
       /\ m.video_codec \in VideoIn(m.file_extension) \/ LeftToMuxer
       /\ m.encoder_f = Family(m.video_codec)
       /\ m.hdr \/ m.color_depth = 10 => m.video_codec \in SupportedCodecs(FALSE)
  /\ failed = "codecs" /\ ~ cmd.cpu /\ cmd.k \in Hevc \cup Av1 =>
       "h264" \notin SupportedCodecs(FALSE) \/ "h264" \notin sys.ffmpeg

\* The context and the card were chosen before the capture and the encoder that need them
\* (egl.c:570, main.cpp:3369), the frame rate mode before its source of damage
\* (main.cpp:3412, 4101), and HDR by the codec that may have been replaced since.
CaptureFits ==
  m.capture # Unset =>
    /\ m.context_type = "glx" <=> m.capture = "nvfbc"
    /\ m.capture = "kms" => m.card_path \in sys.screens
    /\ m.video_encoder = "vaapi" => m.card_path # ""
    /\ cmd.fm = "content" => m.capture = "portal" \/ ~ m.wayland
    /\ m.capture_hdr => m.wayland /\ m.color_depth = 10
    /\ m.hdr => m.capture_hdr

\* On X11 --info lists X's monitors and does not ask which card drives them.
OtherCard == ~ IsWayland /\ UseDrm(FALSE) /\ sys.renders \notin sys.screens

\* The container, or the portal, asks for another codec.
Replaced == m.file_extension \in {"flv", "m3u8"} \/ (IsPortalCapture /\ IsHdr(cmd.k))

\* "Supported video codecs" and "Supported capture options" (main.cpp:1322, 1324): what
\* --info lists works when it is asked for, and is not replaced but for the container or
\* the portal.
ListedWorks ==
  /\ failed \in {"card", "capture"} /\ cmd.w \in ListedCaptures =>
       (cmd.w = "focused" /\ cmd.s # "WxH") \/ OtherCard
  /\ ~ cmd.cpu /\ cmd.k \in ListedCodecs /\ ~ Replaced =>
       /\ failed \notin {"display", "codecs"}
       /\ m.encoder_f # Unset => m.video_codec = cmd.k
===============================================================================
