------------------------------ MODULE ToolApps ------------------------------
(***************************************************************************)
(* The programs under examples/ that are about a protocol and not about    *)
(* drawing: the clipboard, the data-control tool and the lister of         *)
(* globals, in the vocabulary of Script.                                   *)
(***************************************************************************)
EXTENDS CanvasApps

(* A data device as its holder sees it: the manager, bound if it was       *)
(* announced, and the device that Start makes of it and a seat.            *)
DataDevice_Bind == BindIfSeen("data_manager", "wl_data_device_manager")
DataDevice_Start ==
  If({"data_manager", "seat"}, Try("data_device", {"data_manager", "seat"}))
DataDevice_Release ==
  << Drop("offer"), Drop("source"), Drop("data_device"), Drop("data_manager") >>

(* The offer of another client takes the place of the one before.          *)
DataDevice_Selection == [May({"offer"}) EXCEPT !.drops = {"offer"}]

(* An offer of our own needs the device; without one it comes to nothing.  *)
DataDevice_Offer ==
  If({"data_device"},
     [Try("source", {"data_manager", "data_device"}) EXCEPT !.drops = {"source"}])
-----------------------------------------------------------------------------
(* clipboard: a line of text to copy, and what others have copied.         *)
Clipboard_ScanGlobals ==
  << Make("display", {}) >>
  \o Scan({"wl_compositor", "wl_shm", "xdg_wm_base"}, {"wl_seat", "wl_data_device_manager"})

Clipboard_BindGlobals ==
  << Bind("compositor", "wl_compositor"), Bind("shm", "wl_shm"),
     Bind("wm_base", "xdg_wm_base"), SeatBind, DataDevice_Bind, Roundtrip, Check,
     Capabilities({"keyboard"}), DataDevice_Start >>

Clipboard_CreateSurfaces == XdgWindow \o << Use({"surface"}) >> \o Configured

Clipboard_InitShm(failing) == KeyInput_InitShm(failing)

Clipboard_Redraw == KeyInput_Redraw

Clipboard_OnToplevelConfigure ==
  [ of |-> {"xdg_toplevel"}, code |-> << MayReturn >> \o Clipboard_InitShm("return") ]

Clipboard_CopyCurrent ==
  << DataDevice_Offer, Sure("own_selection", {}) >> \o Clipboard_Redraw

Clipboard_OnKey ==
  [ of |-> {"keyboard"}, code |-> << MayReturn >> \o Clipboard_CopyCurrent ]

(* What others offer is read at once, unless the selection is our own.     *)
Clipboard_OnSelection ==
  [ of |-> {"data_device"},
    code |-> << DataDevice_Selection,
                Unless({"own_selection"}, If({"offer"}, Use({"data_device"}))) >>
             \o Clipboard_Redraw ]

Clipboard_OnSend == [ of |-> {"source"}, code |-> << Use({"source"}) >> ]

(* The source goes, and what is being read from it has ended.              *)
Clipboard_OnCancelled ==
  [ of |-> {"source"},
    code |-> << Drop("source"), Drop("own_selection") >> \o Clipboard_Redraw ]

Clipboard_Members ==
  << "display", "registry", "compositor", "surface", "shm", "wm_base",
     "xdg_surface", "xdg_toplevel", "seat", "data_manager", "data_device", "mem", "bufs" >>

Clipboard_Teardown == DataDevice_Release \o SeatRelease \o Destroyed(Clipboard_Members)

Clipboard ==
  App(Clipboard_ScanGlobals \o Clipboard_BindGlobals \o Clipboard_CreateSurfaces
        \o Clipboard_InitShm("abort") \o Clipboard_Redraw,
      [ OnConfigure |-> OnConfigure,
        OnToplevelConfigure |-> Clipboard_OnToplevelConfigure, OnKey |-> Clipboard_OnKey,
        OnSelection |-> Clipboard_OnSelection, OnSend |-> Clipboard_OnSend,
        OnCancelled |-> Clipboard_OnCancelled ],
      Clipboard_Teardown)
-----------------------------------------------------------------------------
(* ext-data-control: copies or pastes without a window, and ends.          *)
DataControl_ScanGlobals ==
  << Make("display", {}) >> \o Scan({"wl_seat", "wl_data_device_manager"}, {})

DataControl_BindGlobals ==
  << Bind("seat", "wl_seat"), DataDevice_Bind, DataDevice_Start,
     DataDevice_Selection, Roundtrip >>

(* To paste is to receive from the selection that the roundtrip brought;   *)
(* to copy is to offer, and to serve until the selection is taken over.    *)
DataControl_RunPaste ==
  << May({"paste"}), If({"paste"}, Check), If({"paste"}, Use({"data_manager"})) >>

DataControl_RunCopy == AllUnless({"paste"}, << DataDevice_Offer >>)

DataControl_OnSelection == [ of |-> {"data_device"}, code |-> << DataDevice_Selection >> ]
DataControl_OnSend == [ of |-> {"source"}, code |-> << Use({"source"}) >> ]
DataControl_OnCancelled == [ of |-> {"source"}, code |-> << Drop("source"), Check >> ]

DataControl_Members ==
  << "display", "registry", "seat", "data_manager", "data_device" >>

DataControl_Teardown ==
  DataDevice_Release \o << Drop("seat") >> \o Destroyed(DataControl_Members)

DataControl ==
  App(DataControl_ScanGlobals \o DataControl_BindGlobals \o DataControl_RunPaste
        \o DataControl_RunCopy,
      [ OnSelection |-> DataControl_OnSelection, OnSend |-> DataControl_OnSend,
        OnCancelled |-> DataControl_OnCancelled ],
      DataControl_Teardown)
-----------------------------------------------------------------------------
(* wayland-info: everything is bound as it is announced, each bind may     *)
(* fail, and two roundtrips later it is printed.                           *)
WaylandInfo_Globals ==
  << Make("display", {}), Make("registry", {"display"}),
     Try("shm", {"registry"}), Try("seats", {"registry"}), Try("outputs", {"registry"}),
     Try("xdg_output_manager", {"registry"}) >>

WaylandInfo_Feedback ==
  << Try("linux_dmabuf", {"registry"}),
     If({"linux_dmabuf"}, Try("dmabuf_feedback", {"linux_dmabuf"})) >>

WaylandInfo_Outputs ==
  << If({"xdg_output_manager", "outputs"},
        Try("xdg_outputs", {"xdg_output_manager", "outputs"})) >>

WaylandInfo_Print ==
  << If({"shm"}, Use({"shm"})), If({"xdg_outputs"}, Use({"outputs"})) >>

WaylandInfo_Cleanup ==
  << Drop("xdg_outputs"), Drop("xdg_output_manager"), Drop("dmabuf_feedback"),
     Drop("linux_dmabuf"), Drop("seats"), Drop("outputs"), Drop("shm"),
     Drop("registry"), Drop("display") >>

WaylandInfo ==
  App(WaylandInfo_Globals \o WaylandInfo_Feedback \o WaylandInfo_Outputs
        \o WaylandInfo_Print,
      [ e \in {} |-> << >> ], WaylandInfo_Cleanup)
=============================================================================
