------------------------- MODULE MC_GpuScreenRecorder -------------------------
(* Options for the run of GpuScreenRecorder. *)
EXTENDS GpuScreenRecorder

O(mode, rate, noDevice, maxSaves, maxToggles) ==
  [mode |-> mode, framerate_mode |-> rate, silent |-> noDevice,
   saves |-> maxSaves, toggles |-> maxToggles]

\* A recording at a constant rate that is paused, and a replay that is saved twice.
MixedOptions == { O("record", "constant", {}, 0, 2), O("replay", "content", Tracks, 2, 0) }
===============================================================================
