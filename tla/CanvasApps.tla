----------------------------- MODULE CanvasApps -----------------------------
(***************************************************************************)
(* The programs under examples/ that paint pixels of their own into a pool *)
(* of wl_shm buffers which follows the size of the window, in the          *)
(* vocabulary of Script.                                                   *)
(***************************************************************************)
EXTENDS Decorations

RemakeBuffers_KeepsOld(memory, buffers) ==  \* mutant: the old memory is not unmapped
  << Drop(buffers), MakeOrReturn(memory, {}),
     MakeOrReturn("new_pool", {"shm", memory}), MakeOrReturn(buffers, {"new_pool"}),
     Drop("new_pool") >>

(* A pool that could not be made leaves the program running without one.   *)
RemakeBuffers(memory, buffers) ==
  << Drop(buffers), Drop(memory), MakeOrReturn(memory, {}),
     MakeOrReturn("new_pool", {"shm", memory}), MakeOrReturn(buffers, {"new_pool"}),
     Drop("new_pool") >>
-----------------------------------------------------------------------------
(* key-input: a text buffer edited from the keyboard, painted on demand.   *)
KeyInput_ScanGlobals ==
  << Make("display", {}) >>
  \o Scan({"wl_compositor", "wl_shm", "xdg_wm_base"}, {"wl_seat"})

KeyInput_BindGlobals ==
  << Bind("compositor", "wl_compositor"), Bind("shm", "wl_shm"),
     Bind("wm_base", "xdg_wm_base"), SeatBind, Roundtrip,
     Capabilities({"keyboard"}), Check >>

KeyInput_CreateSurfaces == XdgWindow \o << Use({"surface"}) >> \o Configured

KeyInput_InitShm(failing) ==
  << Drop("bufs"), Drop("mem"), MakeOr(failing, "mem", {}),
     MakeOr(failing, "pool", {"shm", "mem"}),
     MakeOr(failing, "bufs", {"pool"}), Drop("pool") >>

KeyInput_Redraw_Blind ==  \* mutant: whether there are buffers is not asked
  AllIf({"configured"}, << MayReturn, Use({"mem", "bufs"}), Use({"surface"}) >>)

(* Nothing is painted before the first configure, or while the compositor  *)
(* holds both buffers, or without any.                                     *)
KeyInput_Redraw ==
  AllIf({"configured", "bufs"}, << MayReturn, Use({"mem", "bufs"}), Use({"surface"}) >>)

(* A new size takes new buffers; a failure lets the loop end.              *)
KeyInput_OnToplevelConfigure ==
  [ of |-> {"xdg_toplevel"}, code |-> << MayReturn >> \o KeyInput_InitShm("return") ]

KeyInput_OnKey == [ of |-> {"keyboard"}, code |-> << MayReturn >> \o KeyInput_Redraw ]

KeyInput_Members ==
  << "display", "registry", "compositor", "surface", "shm", "wm_base",
     "xdg_surface", "xdg_toplevel", "seat", "mem", "bufs" >>

KeyInput_Teardown == SeatRelease \o Destroyed(KeyInput_Members)

KeyInput ==
  App(KeyInput_ScanGlobals \o KeyInput_BindGlobals \o KeyInput_CreateSurfaces
        \o KeyInput_InitShm("abort") \o KeyInput_Redraw,
      [ OnCapabilities |-> OnCapabilities({"keyboard"}),
        OnConfigure |-> OnConfigure,
        OnToplevelConfigure |-> KeyInput_OnToplevelConfigure, OnKey |-> KeyInput_OnKey ],
      KeyInput_Teardown)
-----------------------------------------------------------------------------
(* A global that is looked for only when it is its turn to be bound.       *)
Announced(global) == [Check EXCEPT !.makes = {global}]

(* text-input: the same with an input method in the keyboard's place; the  *)
(* seat and the text-input manager are required.                           *)
TextInput_ScanGlobals ==
  << Make("display", {}) >>
  \o Scan({"wl_compositor", "wl_shm", "xdg_wm_base"}, {})

TextInput_BindGlobals ==
  << Bind("compositor", "wl_compositor"), Bind("shm", "wl_shm"),
     Bind("wm_base", "xdg_wm_base"),
     Announced("wl_seat"), Bind("seat", "wl_seat"),
     Announced("text_input_manager"),
     [Bind("text_input", "text_input_manager") EXCEPT !.uses = @ \cup {"seat"}],
     Roundtrip, Capabilities({"keyboard"}), Check >>

(* What the input method may know of the text, and a commit.               *)
TextInput_PushTextInputState == << Use({"text_input"}) >>

TextInput_CreateSurfaces ==
  XdgWindow \o << Use({"surface"}) >> \o Configured
  \o << Use({"text_input", "surface"}) >> \o TextInput_PushTextInputState

TextInput_Redraw == KeyInput_Redraw

TextInput_OnToplevelConfigure == KeyInput_OnToplevelConfigure

TextInput_OnEnter ==
  [ of |-> {"text_input"}, code |-> TextInput_PushTextInputState \o TextInput_Redraw ]

TextInput_OnCommitString == [ of |-> {"text_input"}, code |-> TextInput_Redraw ]

TextInput_Members ==
  << "display", "registry", "compositor", "surface", "shm", "wm_base",
     "xdg_surface", "xdg_toplevel", "seat", "keyboard", "text_input", "mem", "bufs" >>

TextInput_Teardown == << Drop("text_input") >> \o Destroyed(TextInput_Members)

TextInput ==
  App(TextInput_ScanGlobals \o TextInput_BindGlobals \o TextInput_CreateSurfaces
        \o KeyInput_InitShm("abort") \o TextInput_Redraw,
      [ OnCapabilities |-> OnCapabilities({"keyboard"}),
        OnConfigure |-> OnConfigure,
        OnToplevelConfigure |-> TextInput_OnToplevelConfigure,
        OnEnter |-> TextInput_OnEnter, OnCommitString |-> TextInput_OnCommitString ],
      TextInput_Teardown)
-----------------------------------------------------------------------------
(* xdg-ssd: a window whose frame the compositor draws.                     *)
Ssd_ScanGlobals ==
  << Make("display", {}) >>
  \o Scan({"wl_compositor", "wl_shm", "xdg_wm_base"},
          {"wl_seat", "zxdg_decoration_manager_v1"})

Ssd_BindGlobals ==
  << Bind("compositor", "wl_compositor"), Bind("shm", "wl_shm"),
     Bind("wm_base", "xdg_wm_base"),
     TryIfSeen("decoration_mgr", "zxdg_decoration_manager_v1"), SeatBind, Roundtrip,
     Capabilities({"keyboard"}), Check >>

Ssd_CreateWindow ==
  XdgWindow
  \o << If({"decoration_mgr"}, Make("decoration", {"decoration_mgr", "xdg_toplevel"})),
        Use({"surface"}), Roundtrip >>

Ssd_CreateBuffers == ShmBuffers("pool_mem", "pool_bufs")

(* The pool is remade when the window has another size.                    *)
Ssd_CommitFrame ==
  << May({"resized"}) >> \o AllIf({"resized"}, RemakeBuffers("pool_mem", "pool_bufs"))
  \o << MayReturn, Use({"xdg_surface"}),
        Use({"surface", "pool_mem", "pool_bufs"}) >>

Ssd_RequestFrameCallback == << FrameCallback("frame_cb", "surface") >>

Ssd_OnFrameDone ==
  [ of |-> {"frame_cb"},
    code |-> Spent("frame_cb", Ssd_RequestFrameCallback \o Ssd_CommitFrame) ]

Ssd_MainLoop == Ssd_RequestFrameCallback \o Ssd_CommitFrame

Ssd_Members ==
  << "display", "registry", "compositor", "shm", "wm_base", "decoration_mgr",
     "decoration", "seat", "surface", "xdg_surface", "xdg_toplevel", "frame_cb",
     "pool_mem", "pool_bufs" >>

Ssd_Teardown == SeatRelease \o << Drop("decoration") >> \o Destroyed(Ssd_Members)

Ssd ==
  App(Ssd_ScanGlobals \o Ssd_BindGlobals \o Ssd_CreateWindow \o Ssd_CreateBuffers
        \o Ssd_MainLoop,
      [ OnCapabilities |-> OnCapabilities({"keyboard"}), OnFrameDone |-> Ssd_OnFrameDone ],
      Ssd_Teardown)
-----------------------------------------------------------------------------
(* xdg-csd: a window that draws its own frame, at a fractional scale where *)
(* the compositor offers one.                                              *)
Csd_ScanGlobals ==
  << Make("display", {}) >>
  \o Scan({"wl_compositor", "wl_shm", "xdg_wm_base"},
          {"wl_seat", "wp_viewporter", "wp_fractional_scale_manager_v1"})

(* Both objects of the scaling or, if one cannot be had, neither.          *)
Csd_BindGlobals ==
  << Bind("compositor", "wl_compositor"), Bind("shm", "wl_shm"),
     Bind("wm_base", "xdg_wm_base"),
     If({"wp_viewporter", "wp_fractional_scale_manager_v1"},
        [Use({"registry"}) EXCEPT !.may = {"scaling"}]),
     If({"scaling"}, Sure("viewporter", {})), If({"scaling"}, Sure("fractional_mgr", {})),
     SeatBind, Roundtrip, Capabilities({"keyboard", "pointer"}), Check,
     Try("cursor", {"shm", "compositor"}) >>

Csd_CreateWindow ==
  XdgWindow
  \o AllIf({"viewporter", "fractional_mgr"},
       << Try("viewport", {"viewporter", "surface"}),
          Try("fractional", {"fractional_mgr", "surface"}) >>)
  \o WindowFrame_Init \o << Use({"surface"}), Roundtrip >>

Csd_CreateBuffers == ShmBuffers("pool_mem", "pool_bufs")

(* With another size the pool retires until its buffers are released.      *)
(* Without a free buffer the surface is committed as it is, or the frame   *)
(* callback would never fire.                                              *)
Csd_CommitFrame ==
  << May({"resized"}),
     If({"resized"}, [May({"retired"}) EXCEPT !.drops = {"retired"}]) >>
  \o AllIf({"resized"}, RemakeBuffers("pool_mem", "pool_bufs"))
  \o << [May({"retired"}) EXCEPT !.when = {"retired"}, !.drops = {"retired"}],
        May({"all_busy"}), Use({"surface"}) >>
  \o AllUnless({"all_busy"},
       WindowFrame_Commit
       \o << Try("region", {"compositor"}), Drop("region"),
             If({"viewport"}, Use({"viewport"})),
             Use({"surface", "pool_mem", "pool_bufs"}) >>)

Csd_RequestFrameCallback == << FrameCallback("frame_cb", "surface") >>

Csd_OnFrameDone ==
  [ of |-> {"frame_cb"},
    code |-> Spent("frame_cb", Csd_RequestFrameCallback \o Csd_CommitFrame) ]

(* The cursor shows what the frame wants where the pointer is.             *)
Csd_OnPointerEnter ==
  [ of |-> {"pointer"},
    code |-> << If({"cursor"}, Use({"pointer"})),
                If({"frame"}, Use({"xdg_toplevel", "seat"})) >> ]

Csd_MainLoop == Csd_RequestFrameCallback \o Csd_CommitFrame

Csd_Members ==
  << "display", "registry", "compositor", "shm", "wm_base", "seat", "cursor",
     "surface", "xdg_surface", "xdg_toplevel", "frame", "frame_cb", "viewporter",
     "fractional_mgr", "viewport", "fractional", "pool_mem", "pool_bufs", "retired" >>

Csd_Teardown ==
  SeatRelease \o << Drop("fractional"), Drop("viewport") >> \o Destroyed(Csd_Members)

Csd ==
  App(Csd_ScanGlobals \o Csd_BindGlobals \o Csd_CreateWindow \o Csd_CreateBuffers
        \o Csd_MainLoop,
      [ OnCapabilities |-> OnCapabilities({"keyboard", "pointer"}),
        OnFrameDone |-> Csd_OnFrameDone, OnPointerEnter |-> Csd_OnPointerEnter ],
      Csd_Teardown)
-----------------------------------------------------------------------------
(* skia-shm-canvas: Skia on the pixels of a pool that follows the size and *)
(* the scale of the window; paced by callbacks or, with a frame limit, by  *)
(* itself.  The first frame is committed by the first configure.           *)
SkiaShm_ScanGlobals ==
  << May({"self_paced"}), Make("display", {}) >>
  \o Scan({"wl_compositor", "wl_shm", "xdg_wm_base"},
          {"wl_seat", "wp_viewporter", "wp_fractional_scale_manager_v1", "wp_presentation"})

SkiaShm_BindGlobals ==
  << Bind("compositor", "wl_compositor"), Bind("shm", "wl_shm"),
     Bind("wm_base", "xdg_wm_base"), TryIfSeen("viewporter", "wp_viewporter"),
     TryIfSeen("fractional_manager", "wp_fractional_scale_manager_v1"), SeatBind,
     BindIfSeen("presentation", "wp_presentation"), Roundtrip,
     Capabilities({"keyboard"}), Check >>

SkiaShm_CreateWindow ==
  XdgWindow
  \o AllIf({"viewporter", "fractional_manager"},
       << Try("viewport", {"viewporter", "surface"}),
          Make("fractional_scale", {"fractional_manager", "surface"}) >>)
  \o DecoratedFrame_Init \o << Use({"surface"}), Roundtrip >>

(* The size the pool is for is noted before its parts are made.            *)
SkiaShm_EnsurePool ==
  << Unless({"sized"}, Sure("create", {})), Sure("sized", {}) >>
  \o AllIf({"create"}, RemakeBuffers("pool_mem", "pool_bufs"))

(* Without a free buffer neither a commit nor a callback.                  *)
SkiaShm_CommitFrame(callback) ==
  SkiaShm_EnsurePool
  \o << MayReturn, Use({"surface", "pool_mem", "pool_bufs"}),
        If({"viewport"}, Use({"viewport"})) >>
  \o callback \o DecoratedFrame_CommitBeforePresent
  \o << If({"presentation"}, Add("feedback", {"presentation", "surface"})) >>

SkiaShm_RequestFrameCallback ==
  << Try("frame_cb", {"surface"}), Sure("frame_pending", {}) >>

SkiaShm_OnFrameDone ==
  [ of |-> {"frame_cb"},
    code |-> Spent("frame_cb", << Drop("frame_pending") >>
               \o AllIf({"configured"}, SkiaShm_CommitFrame(SkiaShm_RequestFrameCallback))) ]

(* A configure or a scale commits a frame unless one is on its way.        *)
SkiaShm_Refresh(frame) ==
  << If({"sized"}, [May({"sized"}) EXCEPT !.drops = {"sized"}]),
     Unless({"self_paced", "frame_pending"}, Sure("refresh", {})) >>
  \o AllIf({"refresh", "configured"}, frame)

SkiaShm_OnConfigure ==
  [ of |-> {"xdg_surface"},
    code |-> << Sure("configured", {}) >>
             \o SkiaShm_Refresh(SkiaShm_CommitFrame(SkiaShm_RequestFrameCallback)) ]

SkiaShm_OnPreferredScale ==
  [ of |-> {"fractional_scale", "viewport"},
    code |-> SkiaShm_Refresh(SkiaShm_CommitFrame(SkiaShm_RequestFrameCallback)) ]

(* RunSelfPaced: a frame and a roundtrip, over and over.                   *)
SkiaShm_RunSelfPaced ==
  [ of |-> {"self_paced"}, code |-> SkiaShm_CommitFrame(<< >>) \o << Roundtrip >> ]

SkiaShm_OnPresented ==
  [ of |-> {"feedback"}, code |-> << Drop("feedback"), May({"feedback"}) >> ]

SkiaShm_Members ==
  << "display", "registry", "compositor", "shm", "wm_base", "viewporter",
     "fractional_manager", "seat", "keyboard", "presentation", "feedback", "surface",
     "xdg_surface", "xdg_toplevel", "viewport", "fractional_scale", "frame_cb" >>
  \o DecoratedFrame_Members \o << "pool_mem", "pool_bufs" >>

SkiaShm ==
  App(SkiaShm_ScanGlobals \o SkiaShm_BindGlobals \o SkiaShm_CreateWindow,
      [ OnCapabilities |-> OnCapabilities({"keyboard"}),
        OnConfigure |-> SkiaShm_OnConfigure, OnPreferredScale |-> SkiaShm_OnPreferredScale,
        OnFrameDone |-> SkiaShm_OnFrameDone, RunSelfPaced |-> SkiaShm_RunSelfPaced,
        OnPresented |-> SkiaShm_OnPresented ],
      Destroyed(SkiaShm_Members))
-----------------------------------------------------------------------------
(* skia-skottie-canvas: the same for an animation, paced by a timer.       *)
Skottie_ScanGlobals == SkiaShm_ScanGlobals
Skottie_BindGlobals == SkiaShm_BindGlobals
Skottie_CreateWindow == SkiaShm_CreateWindow
Skottie_EnsurePool == SkiaShm_EnsurePool

(* Nothing is committed when nothing has changed.                          *)
Skottie_CommitFrame ==
  Skottie_EnsurePool
  \o << MayReturn, Use({"surface", "pool_mem", "pool_bufs"}),
        If({"viewport"}, Use({"viewport"})) >>
  \o DecoratedFrame_CommitBeforePresent
  \o << If({"presentation"}, Add("feedback", {"presentation", "surface"})) >>

Skottie_Produce == << MayReturn >> \o Skottie_CommitFrame

(* The timer replaces the frame callbacks.                                 *)
Skottie_MainLoop ==
  AllUnless({"self_paced"}, << Make("timer_fd", {}), Check >> \o Skottie_Produce)

Skottie_OnTimerTick ==
  [ of |-> {"timer_fd", "configured"}, code |-> << Use({"timer_fd"}) >> \o Skottie_Produce ]

(* The timer follows the refresh rate that presentation reports.           *)
Skottie_OnPresented ==
  [ of |-> {"feedback"},
    code |-> << Drop("feedback"), May({"feedback"}), If({"timer_fd"}, Use({"timer_fd"})) >> ]

Skottie_OnConfigure ==
  [ of |-> {"xdg_surface"},
    code |-> << Sure("configured", {}) >> \o SkiaShm_Refresh(Skottie_Produce) ]

Skottie_OnPreferredScale ==
  [ of |-> {"fractional_scale", "viewport"}, code |-> SkiaShm_Refresh(Skottie_Produce) ]

(* A key, a click or a touch pauses or seeks, and repaints.                *)
Skottie_Wake ==
  << Unless({"self_paced"}, Sure("refresh", {})) >>
  \o AllIf({"refresh", "configured"}, Skottie_Produce)
Skottie_OnKey == [ of |-> {"keyboard"}, code |-> << MayReturn >> \o Skottie_Wake ]

Skottie_RunSelfPaced ==
  [ of |-> {"self_paced"}, code |-> Skottie_CommitFrame \o << Roundtrip >> ]

Skottie_Members == SkiaShm_Members
Skottie_Teardown == << Drop("timer_fd") >> \o Destroyed(Skottie_Members)

Skottie ==
  App(Skottie_ScanGlobals \o Skottie_BindGlobals \o Skottie_CreateWindow
        \o Skottie_MainLoop,
      [ OnCapabilities |-> OnCapabilities({"keyboard"}),
        OnConfigure |-> Skottie_OnConfigure, OnPreferredScale |-> Skottie_OnPreferredScale,
        OnTimerTick |-> Skottie_OnTimerTick, OnKey |-> Skottie_OnKey,
        OnPresented |-> Skottie_OnPresented, RunSelfPaced |-> Skottie_RunSelfPaced ],
      Skottie_Teardown)
=============================================================================
