------------------------------- MODULE GlApps -------------------------------
(***************************************************************************)
(* The programs under examples/ that draw with OpenGL through EGL, in the  *)
(* vocabulary of Script.                                                   *)
(***************************************************************************)
EXTENDS Decorations

(* What InitEgl of each of them does: the EGL display, a configuration, a  *)
(* context, the native window of a surface, the EGL surface on it.         *)
Egl(surface) ==
  << Make("egl", {"display"}), Check, Make("egl_context", {"egl"}),
     Make("egl_window", {surface}), Make("egl_surface", {"egl", "egl_window"}), Check >>

Swap == Use({"egl", "egl_surface", "egl_context"})

(* In the order that ~EglState undoes from the end.                        *)
EglState == << "egl", "egl_window", "egl_context", "egl_surface" >>
-----------------------------------------------------------------------------
(* subsurfaces: a shm window, a GL child that is free-running, and a shm   *)
(* child that is synchronised to its parent.                               *)
Subsurfaces_ScanGlobals ==
  << Make("display", {}) >>
  \o Scan({"wl_compositor", "wl_shm", "wl_subcompositor", "xdg_wm_base"}, {"wl_seat"})

Subsurfaces_BindGlobals ==
  << Bind("compositor", "wl_compositor"), Bind("shm", "wl_shm"),
     Bind("subcompositor", "wl_subcompositor"), Bind("wm_base", "xdg_wm_base"),
     SeatBind, Roundtrip, Capabilities({"keyboard"}), Check >>

Subsurfaces_CreateSurfaces ==
  XdgWindow
  \o << Make("red_surface", {"compositor"}),
        Make("red_subsurface", {"subcompositor", "red_surface", "surface"}),
        Make("blue_surface", {"compositor"}),
        Make("blue_subsurface", {"subcompositor", "blue_surface", "surface"}),
        Use({"surface"}), Roundtrip, Make("configured", {}) >>

Subsurfaces_ReallocBuffers(failing) ==
  << Drop("main_buf"), Drop("blue_buf"), Drop("shm_mem"),
     MakeOr(failing, "shm_mem", {}), MakeOr(failing, "pool", {"shm", "shm_mem"}),
     MakeOr(failing, "main_buf", {"pool"}), MakeOr(failing, "blue_buf", {"pool"}),
     Drop("pool") >>

Subsurfaces_InitGl == Egl("red_surface") \o << Make("prog", {"egl_context"}) >>

Subsurfaces_RenderTriangle ==
  << Use({"prog"}), FrameCallback("frame_cb", "red_surface"), Swap >>

Subsurfaces_InitialCommit ==
  << Use({"red_subsurface", "blue_subsurface"}), Use({"blue_surface", "blue_buf"}),
     Use({"surface", "main_buf", "configured"}) >> \o Subsurfaces_RenderTriangle

Subsurfaces_OnFrameReady ==
  [ of |-> {"frame_cb"},
    code |-> Spent("frame_cb", Subsurfaces_RenderTriangle \o << Use({"surface"}) >>) ]

(* Up and Down change the height; a buffer that cannot be made again ends  *)
(* the handler, and the program goes on without it.                        *)
Subsurfaces_OnKey ==
  [ of |-> {"keyboard"},
    code |-> << MayReturn >> \o Subsurfaces_ReallocBuffers("return")
             \o << Use({"egl_window", "red_subsurface", "blue_subsurface"}),
                   Use({"blue_surface", "blue_buf"}), Use({"surface", "main_buf"}),
                   Use({"xdg_surface"}) >> ]

Subsurfaces_Members ==
  << "display", "registry", "compositor", "shm", "subcompositor", "wm_base",
     "seat", "shm_mem", "main_buf", "blue_buf", "surface", "xdg_surface",
     "xdg_toplevel", "red_surface", "red_subsurface" >>
  \o EglState \o << "prog", "blue_surface", "blue_subsurface", "frame_cb" >>

Subsurfaces_Teardown == SeatRelease \o Destroyed(Subsurfaces_Members)

Subsurfaces ==
  App(Subsurfaces_ScanGlobals \o Subsurfaces_BindGlobals \o Subsurfaces_CreateSurfaces
        \o Subsurfaces_ReallocBuffers("abort") \o Subsurfaces_InitGl
        \o Subsurfaces_InitialCommit,
      [ OnCapabilities |-> OnCapabilities({"keyboard"}),
        OnFrameReady |-> Subsurfaces_OnFrameReady, OnKey |-> Subsurfaces_OnKey ],
      Subsurfaces_Teardown)
-----------------------------------------------------------------------------
(* simple-egl: an EGL window with a drawn frame, at a fractional scale     *)
(* where the compositor offers one.                                        *)
SimpleEgl_ScanGlobals ==
  << Make("display", {}) >>
  \o Scan({"wl_compositor", "xdg_wm_base"},
          {"wl_seat", "wl_shm", "wp_viewporter", "wp_fractional_scale_manager_v1"})

SimpleEgl_BindGlobals ==
  << Bind("compositor", "wl_compositor"), Bind("wm_base", "xdg_wm_base"),
     SeatBind, Roundtrip, Capabilities({"keyboard", "pointer"}) >>

SimpleEgl_CreateSurfaces ==
  XdgWindow
  \o << TryIfSeen("shm", "wl_shm"), If({"shm"}, Try("cursor", {"shm", "compositor"})),
        TryIfSeen("viewporter", "wp_viewporter"),
        TryIfSeen("fractional_mgr", "wp_fractional_scale_manager_v1") >>
  \o AllIf({"viewporter", "fractional_mgr"},
       << Try("viewport", {"viewporter", "surface"}),
          Try("fractional", {"fractional_mgr", "surface"}) >>)
  \o WindowFrame_Init \o << Use({"surface"}), Roundtrip >>

SimpleEgl_InitEgl == Egl("surface")

SimpleEgl_RenderFrame == WindowFrame_Commit \o << Swap >>

SimpleEgl_MainLoop ==
  << FrameCallback("frame_callback", "surface") >> \o SimpleEgl_RenderFrame

SimpleEgl_OnFrameReady ==
  [ of |-> {"frame_callback"}, code |-> Spent("frame_callback", SimpleEgl_MainLoop) ]

SimpleEgl_OnKey == [ of |-> {"keyboard"}, code |-> << Use({"xdg_toplevel"}) >> ]

SimpleEgl_OnPreferredScale ==
  [ of |-> {"fractional", "viewport"}, code |-> << Use({"egl_window", "viewport"}) >> ]

SimpleEgl_Members ==
  << "display", "registry", "compositor", "surface" >> \o EglState
  \o << "wm_base", "xdg_surface", "xdg_toplevel", "seat", "shm", "cursor",
        "viewporter", "fractional_mgr", "viewport", "fractional" >>
  \o << "frame", "frame_callback" >>

SimpleEgl_Teardown == SeatRelease \o Destroyed(SimpleEgl_Members)

SimpleEgl ==
  App(SimpleEgl_ScanGlobals \o SimpleEgl_BindGlobals \o SimpleEgl_CreateSurfaces
        \o SimpleEgl_InitEgl \o SimpleEgl_MainLoop,
      [ OnCapabilities |-> OnCapabilities({"keyboard", "pointer"}),
        OnFrameReady |-> SimpleEgl_OnFrameReady, OnKey |-> SimpleEgl_OnKey,
        OnPreferredScale |-> SimpleEgl_OnPreferredScale ],
      SimpleEgl_Teardown)
-----------------------------------------------------------------------------
(* agl-presentation-egl: the background of an AGL compositor, with GL and  *)
(* presentation feedback.                                                  *)
AglEgl_ScanGlobals ==
  << Make("display", {}) >>
  \o Scan({"wl_compositor", "xdg_wm_base", "agl_shell", "wl_output"},
          {"wp_presentation", "wl_seat"})

AglEgl_BindGlobals ==
  << Bind("compositor", "wl_compositor"), Bind("output", "wl_output"),
     Bind("wm_base", "xdg_wm_base"), Bind("shell", "agl_shell"),
     BindIfSeen("presentation", "wp_presentation"), SeatBind, Roundtrip,
     Capabilities({"keyboard"}), Check >>

AglEgl_SetupShell ==
  XdgWindow
  \o << Use({"surface"}), Use({"shell", "surface", "output"}),
        Make("configured", {}), Use({"shell"}) >>

AglEgl_InitEgl == Egl("surface") \o << Check >>

(* PresentationManager::Arm takes a slot for the commit that follows.      *)
ArmFeedback == If({"presentation"}, Add("feedback", {"presentation", "surface"}))

AglEgl_RenderFrame == << ArmFeedback, Swap >>

AglEgl_MainLoop == << FrameCallback("frame_callback", "surface") >> \o AglEgl_RenderFrame

AglEgl_OnFrameReady ==
  [ of |-> {"frame_callback"}, code |-> Spent("frame_callback", AglEgl_MainLoop) ]

AglEgl_OnPresented ==
  [ of |-> {"feedback"}, code |-> << Drop("feedback"), May({"feedback"}) >> ]

AglEgl_Members ==
  << "display", "registry", "compositor", "surface" >> \o EglState
  \o << "wm_base", "xdg_surface", "xdg_toplevel", "shell", "output",
        "presentation", "seat", "frame_callback" >>

(* PresentationManager::Release, where a program calls it.                 *)
ReleasePresentation == << Drop("feedback"), Drop("presentation") >>

AglEgl_Teardown == ReleasePresentation \o SeatRelease \o Destroyed(AglEgl_Members)

AglEgl ==
  App(AglEgl_ScanGlobals \o AglEgl_BindGlobals \o AglEgl_SetupShell \o AglEgl_InitEgl
        \o AglEgl_MainLoop,
      [ OnCapabilities |-> OnCapabilities({"keyboard"}),
        OnFrameReady |-> AglEgl_OnFrameReady, OnPresented |-> AglEgl_OnPresented ],
      AglEgl_Teardown)
-----------------------------------------------------------------------------
(* simple-shell-egl: a surface without a shell role, placed by             *)
(* wl_simple_shell once the compositor has told its id.                    *)
SimpleShellEgl_ScanGlobals ==
  << Make("display", {}) >> \o Scan({"wl_compositor", "wl_simple_shell"}, {"wl_seat"})

SimpleShellEgl_BindGlobals ==
  << Bind("compositor", "wl_compositor"), Bind("shell", "wl_simple_shell"),
     SeatBind, Roundtrip, Capabilities({"keyboard"}) >>

SimpleShellEgl_CreateSurface == << Make("surface", {"compositor"}) >>

SimpleShellEgl_InitEgl == Egl("surface")

SimpleShellEgl_MainLoop == << FrameCallback("frame_callback", "surface"), Swap >>

SimpleShellEgl_OnFrameReady ==
  [ of |-> {"frame_callback"},
    code |-> Spent("frame_callback", SimpleShellEgl_MainLoop) ]

(* Only the first id of the program's own surface is acted on.             *)
SimpleShellEgl_OnSurfaceId ==
  [ of |-> {"shell"},
    code |-> << Use({"surface"}), MayReturn, Use({"shell"}) >> ]

SimpleShellEgl_Members ==
  << "display", "registry", "compositor", "surface" >> \o EglState
  \o << "shell", "seat", "frame_callback" >>

SimpleShellEgl_Teardown == SeatRelease \o Destroyed(SimpleShellEgl_Members)

SimpleShellEgl ==
  App(SimpleShellEgl_ScanGlobals \o SimpleShellEgl_BindGlobals
        \o SimpleShellEgl_CreateSurface \o SimpleShellEgl_InitEgl
        \o SimpleShellEgl_MainLoop,
      [ OnCapabilities |-> OnCapabilities({"keyboard"}),
        OnFrameReady |-> SimpleShellEgl_OnFrameReady,
        OnSurfaceId |-> SimpleShellEgl_OnSurfaceId ],
      SimpleShellEgl_Teardown)
-----------------------------------------------------------------------------
(* shadertoy-egl: runs fragment shaders; a cursor where there is wl_shm.   *)
ShadertoyEgl_ScanGlobals ==
  << Make("display", {}) >> \o Scan({"wl_compositor", "xdg_wm_base"}, {"wl_shm", "wl_seat"})

ShadertoyEgl_BindGlobals ==
  << Bind("compositor", "wl_compositor"), Bind("wm_base", "xdg_wm_base"),
     SeatBind, Roundtrip, Capabilities({"keyboard", "pointer", "touch"}),
     TryIfSeen("shm", "wl_shm"), If({"shm"}, Try("cursor", {"shm", "compositor"})) >>

ShadertoyEgl_CreateSurfaces == XdgWindow \o << Use({"surface"}), Roundtrip >>

ShadertoyEgl_InitEgl == Egl("surface")

ShadertoyEgl_InitRenderer == << Make("renderer", {"egl_context"}) >>

ShadertoyEgl_RenderFrame == << Use({"renderer"}), Swap >>

ShadertoyEgl_MainLoop ==
  << FrameCallback("frame_callback", "surface") >> \o ShadertoyEgl_RenderFrame

ShadertoyEgl_OnFrameReady ==
  [ of |-> {"frame_callback"}, code |-> Spent("frame_callback", ShadertoyEgl_MainLoop) ]

(* The next shader, from a key or a tap.                                   *)
ShadertoyEgl_Next == << MayReturn, Use({"renderer"}) >>
ShadertoyEgl_OnKey == [ of |-> {"keyboard"}, code |-> ShadertoyEgl_Next ]
ShadertoyEgl_OnTouchUp == [ of |-> {"touch"}, code |-> ShadertoyEgl_Next ]

ShadertoyEgl_Members ==
  << "display", "registry", "compositor", "surface" >> \o EglState
  \o << "wm_base", "xdg_surface", "xdg_toplevel", "seat", "shm", "cursor",
        "frame_callback", "renderer" >>

ShadertoyEgl_Teardown == SeatRelease \o Destroyed(ShadertoyEgl_Members)

ShadertoyEgl ==
  App(ShadertoyEgl_ScanGlobals \o ShadertoyEgl_BindGlobals \o ShadertoyEgl_CreateSurfaces
        \o ShadertoyEgl_InitEgl \o ShadertoyEgl_InitRenderer \o ShadertoyEgl_MainLoop,
      [ OnCapabilities |-> OnCapabilities({"keyboard", "pointer", "touch"}),
        OnFrameReady |-> ShadertoyEgl_OnFrameReady, OnKey |-> ShadertoyEgl_OnKey,
        OnTouchUp |-> ShadertoyEgl_OnTouchUp ],
      ShadertoyEgl_Teardown)
-----------------------------------------------------------------------------
(* skia-egl-canvas: Skia's Ganesh on the EGL context, presentation         *)
(* feedback and a drawn frame; paced by callbacks or by itself.            *)
SkiaEgl_ScanGlobals ==
  << May({"self_paced"}), Make("display", {}) >>
  \o Scan({"wl_compositor", "xdg_wm_base"}, {"wl_shm", "wl_seat", "wp_presentation"})

SkiaEgl_BindGlobals ==
  << Bind("compositor", "wl_compositor"), Bind("wm_base", "xdg_wm_base"),
     TryIfSeen("shm", "wl_shm"), SeatBind, BindIfSeen("presentation", "wp_presentation") >>

SkiaEgl_CreateSurfaces ==
  XdgWindow \o DecoratedFrame_Init
  \o << Use({"surface"}), Roundtrip, Capabilities({"keyboard", "pointer", "touch"}) >>

SkiaEgl_InitEgl == Egl("surface") \o << Make("gr_context", {"egl_context"}) >>

SkiaEgl_RenderFrame ==
  << Use({"gr_context"}) >> \o DecoratedFrame_CommitBeforePresent \o << ArmFeedback, Swap >>

SkiaEgl_NextFrame == << FrameCallback("frame_callback", "surface") >> \o SkiaEgl_RenderFrame

SkiaEgl_MainLoop == AllUnless({"self_paced"}, SkiaEgl_NextFrame)

(* RunSelfPaced: a frame and a roundtrip, over and over.                   *)
SkiaEgl_RunSelfPaced ==
  [ of |-> {"self_paced"}, code |-> SkiaEgl_RenderFrame \o << Roundtrip >> ]

SkiaEgl_OnFrameReady ==
  [ of |-> {"frame_callback"}, code |-> Spent("frame_callback", SkiaEgl_NextFrame) ]

SkiaEgl_Members ==
  << "display", "registry", "compositor", "surface" >> \o EglState
  \o << "gr_context", "wm_base", "xdg_surface", "xdg_toplevel", "seat", "shm",
        "presentation" >>
  \o DecoratedFrame_Members \o << "frame_callback" >>

SkiaEgl_Teardown ==
  << Drop("gr_context") >> \o ReleasePresentation \o SeatRelease \o Destroyed(SkiaEgl_Members)

SkiaEgl ==
  App(SkiaEgl_ScanGlobals \o SkiaEgl_BindGlobals \o SkiaEgl_CreateSurfaces
        \o SkiaEgl_InitEgl \o SkiaEgl_MainLoop,
      [ OnCapabilities |-> OnCapabilities({"keyboard", "pointer", "touch"}),
        OnFrameReady |-> SkiaEgl_OnFrameReady, RunSelfPaced |-> SkiaEgl_RunSelfPaced,
        OnPresented |-> AglEgl_OnPresented ],
      SkiaEgl_Teardown)
-----------------------------------------------------------------------------
(* imgui: the platform backend binds input of its own next to the program, *)
(* and shuts down what it has when it fails half-way.                      *)
ImGui_Init ==
  << Sure("imgui_up", {}), Make("backend_registry", {"display"}), Roundtrip,
     May({"wl_seat", "wl_shm", "wl_data_device_manager", "text_input_manager"}),
     If({"wl_seat"}, Make("seat", {"backend_registry"})),
     If({"wl_shm"}, Try("shm", {"backend_registry"})),
     If({"wl_data_device_manager", "seat"}, Try("data_device", {"seat"})),
     If({"text_input_manager", "seat"}, Try("text_input", {"seat"})),
     Roundtrip, Capabilities({"keyboard", "pointer", "touch"}),
     If({"shm"}, Try("cursor", {"shm", "compositor"})) >>

ImGui_Shutdown ==
  << Drop("cursor"), Drop("data_device"), Drop("text_input") >> \o SeatRelease
  \o << Drop("shm"), Drop("backend_registry") >>

ImGuiDemo_ScanGlobals ==
  << Make("display", {}) >>
  \o Scan({"wl_compositor", "xdg_wm_base"}, {"wp_viewporter", "wp_fractional_scale_manager_v1"})

(* The viewporter and the scale manager are of use only together.          *)
ImGuiDemo_BindGlobals ==
  << Bind("compositor", "wl_compositor"), Bind("wm_base", "xdg_wm_base") >>
  \o AllIf({"wp_viewporter", "wp_fractional_scale_manager_v1"},
       << Try("viewporter", {"registry"}), Try("fractional_mgr", {"registry"}) >>)
  \o << Unless({"fractional_mgr"}, Drop("viewporter")),
        Unless({"viewporter"}, Drop("fractional_mgr")) >>

ImGuiDemo_CreateSurfaces ==
  XdgWindow
  \o AllIf({"viewporter", "fractional_mgr"},
       << Try("viewport", {"viewporter", "surface"}),
          Try("fractional", {"fractional_mgr", "surface"}) >>)
  \o << Unless({"fractional"}, Drop("viewport")), Unless({"viewport"}, Drop("fractional")),
        Use({"surface"}), Roundtrip >>

ImGuiDemo_InitEgl == Egl("surface")

(* The OpenGL half of ImGui may fail with the Wayland half up: then nobody *)
(* shuts that down, since imgui_up_ is set only after both.                *)
ImGuiDemo_InitImGui == ImGui_Init \o << Drop("imgui_up"), Check, Sure("imgui_up", {}) >>

ImGuiDemo_ShutdownImGui == AllIf({"imgui_up"}, ImGui_Shutdown) \o << Drop("imgui_up") >>

ImGuiDemo_MainLoop ==
  << FrameCallback("frame_callback", "surface"), Use({"imgui_up", "backend_registry"}), Swap >>

ImGuiDemo_OnFrameReady ==
  [ of |-> {"frame_callback"}, code |-> Spent("frame_callback", ImGuiDemo_MainLoop) ]

(* The backend makes and releases the devices itself.                      *)
ImGui_OnSeatCapabilities == OnCapabilities({"keyboard", "pointer", "touch"})

ImGuiDemo_Members ==
  << "display", "registry", "compositor", "surface" >> \o EglState
  \o << "viewporter", "fractional_mgr", "wm_base", "xdg_surface", "xdg_toplevel",
        "viewport", "fractional", "frame_callback" >>

ImGuiDemo_Teardown == ImGuiDemo_ShutdownImGui \o Destroyed(ImGuiDemo_Members)

ImGuiDemo ==
  App(ImGuiDemo_ScanGlobals \o ImGuiDemo_BindGlobals \o ImGuiDemo_CreateSurfaces
        \o ImGuiDemo_InitEgl \o ImGuiDemo_InitImGui \o ImGuiDemo_MainLoop,
      [ OnSeatCapabilities |-> ImGui_OnSeatCapabilities,
        OnFrameReady |-> ImGuiDemo_OnFrameReady ],
      ImGuiDemo_Teardown)
=============================================================================
