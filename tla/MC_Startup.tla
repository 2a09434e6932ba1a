------------------------------ MODULE MC_Startup ------------------------------
(* Command lines that vary the codecs, and command lines that vary the     *)
(* capture and the output, on systems of every vendor and display server.  *)
EXTENDS Startup

Plain == [k |-> "auto", ac |-> "opus", cpu |-> FALSE, w |-> "monitor", s |-> "",
          fm |-> "vfr", a |-> "device", r |-> FALSE, o |-> "file", suffix |-> "mp4", c |-> ""]

MCCommandLines ==
  {[Plain EXCEPT !.k = k, !.ac = ac, !.cpu = cpu, !.w = w, !.suffix = suffix] :
     k \in VideoCodecs \cup {"auto", "?"}, ac \in {"aac", "opus", "flac"}, cpu \in BOOLEAN,
     w \in {"monitor", "portal"}, suffix \in Extensions}
  \cup
  {[Plain EXCEPT !.k = k, !.w = w, !.s = s, !.fm = fm] :
     k \in {"auto", "hevc_hdr"}, s \in {"", "WxH", "?"}, fm \in {"vfr", "content"},
     w \in {"focused", "portal", "screen", "screen-direct", "screen-direct-force",
            "monitor", "?", "id", "0"}}
  \cup
  {[Plain EXCEPT !.a = a, !.r = r, !.o = o, !.suffix = suffix, !.c = c] :
     a \in {"", "device", "?"}, r \in BOOLEAN, o \in {"", "file", "directory", "stream"},
     suffix \in {"mp4", "?"}, c \in {"", "flv", "?"}}

MCSystems ==
  {[display |-> d, vendor |-> v, profiles |-> p, ffmpeg |-> f, renders |-> r, screens |-> s] :
     d \in {"x11", "xwayland", "wayland"}, v \in {"amd", "nvidia", "?"},
     p \in {{"h264", "hevc", "hevc10", "vp8"}, {"h264", "vp9"}, {"hevc", "av1"}},
     f \in {{"libx264", "h264", "hevc", "av1", "vp8", "vp9"}, {"hevc", "av1"}},
     r \in {"card0", ""}, s \in {{"card0"}, {"card1"}, {}}}
===============================================================================
