---------------------------- MODULE MC_KmsProtocol ----------------------------
(* Screens for the runs of KmsProtocol. *)
EXTENDS KmsProtocol

P(kind, connector, size) == [kind |-> kind, connector |-> connector, size |-> size]

\* The monitor has the connectors 1 and 3.
TwoConnectors == <<3, 1>>

\* Nothing to show, an error, and planes of this and of other monitors with cursors
\* and overlays among them, in orders that matter, more than MaxItems of them.
SomeScreens ==
  { << >>,
    << P("no_plane", 0, 0), P("no_fb_id", 0, 0), P("no_fb", 0, 0) >>,
    << P("cursor", 1, 1), P("no_fd", 1, 0) >>,
    << P("cursor", 1, 1), P("primary", 1, 2) >>,
    << P("overlay", 1, 3), P("primary", 2, 3), P("no_handle", 1, 1), P("primary", 3, 1),
       P("cursor", 2, 1) >>,
    << P("cursor", 2, 4), P("primary", 0, 1), P("primary", 2, 3) >>,
    << P("primary", 1, 2), P("cursor", 2, 1), P("cursor", 1, 1), P("primary", 3, 1) >> }
===============================================================================
