------------------------------ MODULE MC_Client ------------------------------
EXTENDS Review, ShmApps, GlApps, VkApps, ToolApps
MCPrograms == [
  presentation_shm |-> PresentationShm, sdl3 |-> Sdl3Shm, ivi |-> IviShm, agl |-> AglShm,
  key_input |-> KeyInput, text_input |-> TextInput, ssd |-> Ssd, csd |-> Csd,
  skia_shm |-> SkiaShm, skottie |-> Skottie,
  subsurfaces |-> Subsurfaces, simple_egl |-> SimpleEgl, agl_egl |-> AglEgl,
  simple_shell_egl |-> SimpleShellEgl, shadertoy_egl |-> ShadertoyEgl,
  skia_egl |-> SkiaEgl, imgui |-> ImGuiDemo,
  dmabuf_vk |-> DmabufVk, skia_vk |-> SkiaVk, shadertoy_vk |-> ShadertoyVk,
  clipboard |-> Clipboard, data_control |-> DataControl, wayland_info |-> WaylandInfo,
  decorated_window |-> DecoratedWindow]

(* The globals a compositor announces, and what a program remembers.       *)
MCGlobals ==
  { "wl_compositor", "wl_subcompositor", "wl_shm", "wl_seat", "wl_output", "xdg_wm_base",
    "agl_shell", "wl_simple_shell", "ivi_application", "wp_presentation", "wp_viewporter",
    "wp_fractional_scale_manager_v1", "zxdg_decoration_manager_v1", "zwp_linux_dmabuf_v1",
    "wl_data_device_manager", "text_input_manager", "syncobj_manager" }
MCFlags ==
  MCGlobals \cup
  { "-p", "self_paced", "wayland", "paste", "plugin", "globals", "csd", "no_subsurface",
    "imgui_up", "v4", "configured", "late_configure", "all_busy", "nested_frame",
    "resized", "create", "refresh", "sized", "scaling", "frame_pending", "needs_resize",
    "use_modifier", "use_sync", "rebuild", "own_selection" }

(* What the protocols, EGL, Vulkan and the libraries above them ask for.   *)
MCRules ==
  { <<"xdg_toplevel", "xdg_surface">>, <<"xdg_surface", "surface">>,
    <<"xdg_surface", "wm_base">>, <<"decoration", "xdg_toplevel">>,
    <<"frame", "xdg_toplevel">>, <<"texture", "renderer">>, <<"renderer", "window">>,
    <<"egl_surface", "egl_window">>, <<"egl_window", "surface">>,
    <<"egl_window", "red_surface">>, <<"egl_context", "egl">>, <<"egl_surface", "egl">>,
    <<"gr_context", "egl_context">>, <<"device", "instance">>, <<"cmd_pool", "device">>,
    <<"cmd_buf", "cmd_pool">>, <<"copy_cmd", "cmd_pool">>, <<"image", "memory">>,
    <<"fence", "device">>, <<"image", "device">>, <<"memory", "device">>,
    <<"image_view", "image">>, <<"framebuffer", "image_view">>, <<"pipeline", "device">>,
    <<"flush_sem", "device">>, <<"es_semaphore", "device">>, <<"gr_context", "device">>,
    <<"slot_surface", "gr_context">>, <<"skia_surface", "gr_context">>,
    <<"slot_surface", "image">>, <<"es_surface", "surface">>,
    <<"es_acquire_tl", "es_manager">>, <<"data_device", "data_manager">>,
    <<"data_device", "seat">>, <<"source", "data_device">>,
    <<"xdg_outputs", "outputs">>, <<"xdg_outputs", "xdg_output_manager">> }

(* What the programs do get wrong, as README.md describes: TLC reports any *)
(* of these that is taken out.                                             *)
MCFlaws == [
  misses |->  \* used, though making it failed, or its condition never came
    { <<n[1], n[2], o>> :
        n \in { <<"csd", "OnFrameDone">>, <<"ssd", "OnFrameDone">>,
                <<"skia_shm", "OnConfigure">>, <<"skia_shm", "OnPreferredScale">>,
                <<"skia_shm", "OnFrameDone">>, <<"skia_shm", "RunSelfPaced">>,
                <<"skottie", "OnConfigure">>, <<"skottie", "OnPreferredScale">>,
                <<"skottie", "OnKey">>, <<"skottie", "OnTimerTick">>,
                <<"skottie", "RunSelfPaced">> },
        o \in {"pool_mem", "pool_bufs"} }
    \cup { <<"presentation_shm", r, "configured">> :
             r \in {"setup", "OnFrameDone", "OnPresented", "OnDiscarded"} }
    \cup { <<"ivi", "OnConfigure", "bufs">>,
           <<"decorated_window", "Commit", "frame_subsurface">> },
  remakes |->  \* written over, and forgotten
    { <<a, "OnPresented", "last_presented">> : a \in {"presentation_shm", "sdl3"} }
    \cup { <<a, "OnDiscarded", "discarded">> : a \in {"presentation_shm", "sdl3"} }
    \cup { <<"presentation_shm", r, "feedkick">> : r \in {"OnPresented", "OnDiscarded"} }
    \cup { <<"ivi", "OnConfigure", "frame_callback">>,
           <<"skia_vk", "setup", "dmabuf_feedback">> },
  leaves |->  \* still there when the connection is closed
    { <<a, "discarded">> : a \in {"presentation_shm", "sdl3"} }
    \cup { <<"imgui", o>> :
             o \in {"backend_registry", "seat", "keyboard", "pointer", "touch", "shm",
                    "cursor", "data_device", "text_input"} } ]

(* Which programs pass the tests of Review, so that the theorems about     *)
(* them hold of it.  The rest is left to the run.                          *)
Reviewed ==
  \A n \in DOMAIN Programs :
    /\ DestroysInOrder(Programs[n])
    /\ UndoesAll(Programs[n]) <=> n \notin {"presentation_shm", "sdl3", "imgui"}
    /\ CreatesAfresh(Programs[n]) <=>
         n \notin {"presentation_shm", "sdl3", "ivi", "skia_shm", "skia_vk"}
    /\ NeedsNothingMore(Programs[n]) <=>
         n \in {"sdl3", "agl", "subsurfaces", "simple_egl", "agl_egl",
                "simple_shell_egl", "shadertoy_egl", "skia_egl", "imgui", "shadertoy_vk"}

(* The tests read the text of a program: no step of it is taken.           *)
Stay == UNCHANGED clientVars
=============================================================================
