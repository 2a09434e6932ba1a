----------------------------- MODULE MC_WfRecorder -----------------------------
(* Command lines for the runs of WfRecorder. *)
EXTENDS WfRecorder

\* Both audio backends, both capture paths, and an upload that can fail.
MixedOptions == { [dmabuf |-> FALSE, hwupload |-> FALSE, audio |-> "pulse"],
                  [dmabuf |-> FALSE, hwupload |-> FALSE, audio |-> "pipewire"],
                  [dmabuf |-> TRUE,  hwupload |-> TRUE,  audio |-> "none"] }

\* Shared-memory capture without audio: the default command line.
DefaultOptions == {[dmabuf |-> FALSE, hwupload |-> FALSE, audio |-> "none"]}
===============================================================================
