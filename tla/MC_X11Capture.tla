----------------------------- MODULE MC_X11Capture -----------------------------
(* Options for the run of X11Capture. *)
EXTENDS X11Capture

O(target, backend, cursor, extension) ==
  [target |-> target, backend |-> backend, record_cursor |-> cursor, xdamage |-> extension]

\* Every target, with the pointer or without it, and a server without XDamage.
EveryTarget == { O("monitor", "kms", TRUE, TRUE), O("screen", "nvfbc", FALSE, TRUE),
                 O("window", "xcomposite", TRUE, TRUE), O("window", "xcomposite", FALSE, FALSE),
                 O("focused", "xcomposite", FALSE, TRUE) }
===============================================================================
