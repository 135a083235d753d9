------------------------------- MODULE ShmApps -------------------------------
(***************************************************************************)
(* The programs under examples/ that draw into wl_shm buffers, in the      *)
(* vocabulary of Script.                                                   *)
(***************************************************************************)
EXTENDS Script

-----------------------------------------------------------------------------
(* presentation-shm: frames paced by callbacks, or (option -p) by the      *)
(* presentation feedback of the frame before.                              *)
PresentationShm_ScanGlobals ==
  << May({"-p"}), Make("display", {}) >>
  \o Scan({"wl_compositor", "wl_shm", "xdg_wm_base"},
          {"wp_presentation", "wl_seat"})

PresentationShm_BindGlobals ==
  << Bind("compositor", "wl_compositor"), Bind("shm", "wl_shm"),
     Bind("wm_base", "xdg_wm_base"),
     TryIfSeen("presentation", "wp_presentation"),
     SeatBind, Roundtrip, Capabilities({"keyboard"}), Check >>

PresentationShm_CreateWindow ==
  XdgWindow \o << Use({"surface", "xdg_toplevel"}) >> \o Configured

PresentationShm_PreRender ==
  ShmBuffers("pool_mem", "bufs") \o << Use({"pool_mem", "bufs"}) >>

PresentationShm_Attach ==
  If({"presentation"}, Add("feedback", {"presentation", "surface"}))

PresentationShm_Feedkick ==
  If({"presentation"}, Try("feedkick", {"presentation", "surface"}))

PresentationShm_Commit == Use({"surface", "bufs", "configured"})

PresentationShm_Start ==
  << Unless({"-p"}, FrameCallback("frame_cb", "surface")),
     PresentationShm_Attach, If({"-p"}, PresentationShm_Feedkick),
     PresentationShm_Commit >>

PresentationShm_OnFrameDone ==
  [ of |-> {"frame_cb"},
    code |-> Spent("frame_cb",
               << FrameCallback("frame_cb", "surface"),
                  PresentationShm_Attach, PresentationShm_Commit >>) ]

PresentationShm_NextFrame ==
  AllIf({"-p"}, << PresentationShm_Attach, PresentationShm_Feedkick,
                   PresentationShm_Commit >>)

PresentationShm_OnPresented ==
  [ of |-> {"feedback"},
    code |-> << Take("feedback", "last_presented") >> \o PresentationShm_NextFrame ]

PresentationShm_OnDiscarded ==
  [ of |-> {"feedback"},
    code |-> << Take("feedback", "discarded") >> \o PresentationShm_NextFrame ]

PresentationShm_OnFeedkick ==
  [ of |-> {"feedkick"}, code |-> << Drop("feedkick") >> ]

PresentationShm_Members ==
  << "display", "registry", "compositor", "shm", "presentation", "wm_base",
     "seat", "surface", "xdg_surface", "xdg_toplevel", "frame_cb",
     "pool_mem", "bufs" >>

PresentationShm_Teardown ==
  SeatRelease
  \o << Drop("feedkick"), Drop("feedback"), Drop("last_presented") >>
  \o Destroyed(PresentationShm_Members)

PresentationShm ==
  App(PresentationShm_ScanGlobals \o PresentationShm_BindGlobals
        \o PresentationShm_CreateWindow \o PresentationShm_PreRender
        \o PresentationShm_Start,
      [ OnCapabilities |-> OnCapabilities({"keyboard"}),
        OnConfigure |-> OnConfigure,
        OnFrameDone |-> PresentationShm_OnFrameDone,
        OnPresented |-> PresentationShm_OnPresented,
        OnDiscarded |-> PresentationShm_OnDiscarded,
        OnFeedkick |-> PresentationShm_OnFeedkick ],
      PresentationShm_Teardown)
-----------------------------------------------------------------------------
(* sdl3-presentation-shm: SDL owns the connection and the window; the      *)
(* program attaches presentation feedback to what SDL commits.             *)
Sdl3Shm_InitSDL ==
  << Make("display", {}), Make("window", {"display"}),
     Make("renderer", {"window"}), Make("texture", {"renderer"}),
     May({"wayland"}) >>

Sdl3Shm_InitPresentation ==
  AllIf({"wayland"},
    << Make("registry", {"display"}), Roundtrip, May({"wp_presentation"}),
       TryIfSeen("presentation", "wp_presentation"),
       If({"presentation"}, Roundtrip) >>)

Sdl3Shm_Frame ==
  [ of |-> {"display"},
    code |-> << MayReturn, [Check EXCEPT !.uses = {"texture", "renderer"}],
                If({"presentation"}, Add("feedback", {"presentation", "window"})),
                Check >> ]

Sdl3Shm_OnPresented ==
  [ of |-> {"feedback"}, code |-> << Take("feedback", "last_presented") >> ]

Sdl3Shm_OnDiscarded ==
  [ of |-> {"feedback"}, code |-> << Take("feedback", "discarded") >> ]

Sdl3Shm_Teardown ==
  << Drop("feedback"), Drop("last_presented"), Drop("presentation"),
     Drop("registry"), Drop("texture"), Drop("renderer"), Drop("window"),
     Drop("display") >>

Sdl3Shm ==
  App(Sdl3Shm_InitSDL \o Sdl3Shm_InitPresentation,
      [ Frame |-> Sdl3Shm_Frame, OnPresented |-> Sdl3Shm_OnPresented,
        OnDiscarded |-> Sdl3Shm_OnDiscarded ],
      Sdl3Shm_Teardown)
-----------------------------------------------------------------------------
(* ivi-presentation-shm: an IVI surface, which the compositor may resize.  *)
IviShm_ScanGlobals ==
  << Make("display", {}) >>
  \o Scan({"wl_compositor", "wl_shm", "ivi_application"}, {"wl_seat"})

IviShm_BindGlobals ==
  << Bind("compositor", "wl_compositor"), Bind("shm", "wl_shm"),
     Bind("ivi_app", "ivi_application"), SeatBind, Roundtrip,
     Capabilities({"keyboard"}), Check >>

IviShm_CreateBuffers == ShmBuffers("shm_mem", "bufs")

IviShm_CreateIviSurface ==
  << Make("surface", {"compositor"}), Make("ivi_surface", {"ivi_app", "surface"}),
     Use({"surface"}), Roundtrip >>

IviShm_Commit ==
  << FrameCallback("frame_callback", "surface"), Use({"surface", "bufs", "shm_mem"}) >>

IviShm_InitialCommit == << Check >> \o IviShm_Commit

(* Without a free buffer nothing is committed and no callback requested.   *)
IviShm_OnFrameDone ==
  [ of |-> {"frame_callback"},
    code |-> Spent("frame_callback",
               << May({"all_busy"}) >> \o AllUnless({"all_busy"}, IviShm_Commit)
               \o << Drop("all_busy") >>) ]

(* The roundtrip dispatches whatever is in the socket, a frame callback    *)
(* among it, while the old buffers are gone and the new ones not there.    *)
IviShm_OnConfigure ==
  [ of |-> {"ivi_surface"},
    code |-> << MayReturn, Drop("bufs"), May({"nested_frame"}) >>
             \o AllIf({"nested_frame", "frame_callback"}, IviShm_Commit)
             \o << Drop("nested_frame"), Drop("shm_mem") >> \o IviShm_CreateBuffers ]

IviShm_Members ==
  << "display", "registry", "compositor", "shm", "surface", "ivi_app",
     "ivi_surface", "seat", "frame_callback", "shm_mem", "bufs" >>

IviShm_Teardown == SeatRelease \o Destroyed(IviShm_Members)

IviShm ==
  App(IviShm_ScanGlobals \o IviShm_BindGlobals \o IviShm_CreateBuffers
        \o IviShm_CreateIviSurface \o IviShm_InitialCommit,
      [ OnCapabilities |-> OnCapabilities({"keyboard"}),
        OnFrameDone |-> IviShm_OnFrameDone, OnConfigure |-> IviShm_OnConfigure ],
      IviShm_Teardown)
-----------------------------------------------------------------------------
(* agl-presentation-shm: the background of an AGL compositor.              *)
AglShm_ScanGlobals ==
  << Make("display", {}) >>
  \o Scan({"wl_compositor", "wl_shm", "xdg_wm_base", "agl_shell", "wl_output"},
          {"wl_seat"})

AglShm_BindGlobals ==
  << Bind("compositor", "wl_compositor"), Bind("shm", "wl_shm"),
     Bind("output", "wl_output"), Bind("wm_base", "xdg_wm_base"),
     Bind("shell", "agl_shell"), SeatBind, Roundtrip,
     Capabilities({"keyboard"}), Check, Check >>

(* The background is set before the wait for configure, and ready is sent  *)
(* after it.                                                               *)
AglShm_SetupShell ==
  XdgWindow
  \o << Use({"surface", "xdg_toplevel"}), Use({"shell", "surface", "output"}),
        Make("configured", {}), Use({"shell"}) >>

AglShm_CreateBuffers == ShmBuffers("shm_mem", "bufs")

AglShm_Commit ==
  << FrameCallback("frame_callback", "surface"),
     Use({"surface", "bufs", "shm_mem", "configured"}) >>

AglShm_InitialCommit == << Check >> \o AglShm_Commit

AglShm_OnFrameDone ==
  [ of |-> {"frame_callback"},
    code |-> Spent("frame_callback",
               << May({"all_busy"}) >> \o AllUnless({"all_busy"}, AglShm_Commit)
               \o << Drop("all_busy") >>) ]

AglShm_Members ==
  << "display", "registry", "compositor", "shm", "surface", "wm_base",
     "xdg_surface", "xdg_toplevel", "shell", "output", "seat",
     "frame_callback", "shm_mem", "bufs" >>

AglShm_Teardown == SeatRelease \o Destroyed(AglShm_Members)

AglShm ==
  App(AglShm_ScanGlobals \o AglShm_BindGlobals \o AglShm_SetupShell
        \o AglShm_CreateBuffers \o AglShm_InitialCommit,
      [ OnCapabilities |-> OnCapabilities({"keyboard"}),
        OnFrameDone |-> AglShm_OnFrameDone ],
      AglShm_Teardown)
=============================================================================
