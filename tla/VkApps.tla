------------------------------- MODULE VkApps -------------------------------
(***************************************************************************)
(* The programs under examples/ that draw with Vulkan, in the vocabulary   *)
(* of Script.  What Vulkan makes is undone by its Unique handles; a swap   *)
(* of images is written once for all slots, since every slot is made and   *)
(* undone in the same way.                                                 *)
(***************************************************************************)
EXTENDS Decorations

(* Instance, device and command pool; a device that lacks an extension     *)
(* ends the program between any two of them.                               *)
VkDevice ==
  << Make("instance", {}), Check, Make("device", {"instance"}),
     Make("cmd_pool", {"device"}) >>

(* linux-dmabuf: buffers are made through params, which are a local.       *)
DmabufBuffer(buffer, dmabuf, memory, failing) ==
  << MakeOr(failing, "pool", {dmabuf, memory}), MakeOr(failing, buffer, {"pool"}),
     Drop("pool") >>
-----------------------------------------------------------------------------
(* xdg-simple-dmabuf-vulkan: one image after another, exported as dma-buf. *)
DmabufVk_ScanGlobals ==
  << Make("display", {}) >>
  \o Scan({"wl_compositor", "xdg_wm_base", "zwp_linux_dmabuf_v1"}, {"wl_shm", "wl_seat"})

DmabufVk_BindGlobals ==
  << Bind("compositor", "wl_compositor"), Bind("wm_base", "xdg_wm_base"),
     Bind("linux_dmabuf", "zwp_linux_dmabuf_v1"), Roundtrip, Check,
     TryIfSeen("shm", "wl_shm"), SeatBind, Roundtrip,
     Capabilities({"keyboard", "pointer"}) >>

DmabufVk_CreateSurfaces ==
  XdgWindow \o DecoratedFrame_Init \o << Use({"surface"}), Roundtrip >>

DmabufVk_InitDevice == VkDevice

DmabufVk_InitVertexBuffer ==
  << Make("vertex_buf", {"device"}), Make("vertex_mem", {"device"}), Check >>

DmabufVk_InitPipeline ==
  << Make("render_pass", {"device"}), Make("vert_module", {"device"}),
     Make("frag_module", {"device"}), Make("pipeline_layout", {"device"}),
     Make("pipeline", {"render_pass", "pipeline_layout", "vert_module", "frag_module"}) >>

(* An image, memory bound to it, the memory as a descriptor, and what is   *)
(* drawn through.                                                          *)
DmabufVk_Image(failing) ==
  << MakeOr(failing, "image", {"device"}), MakeOr(failing, "memory", {"image"}),
     MakeOr(failing, "dma_fd", {"memory"}),
     MakeOr(failing, "image_view", {"image"}),
     MakeOr(failing, "framebuffer", {"image_view", "render_pass"}) >>

DmabufVk_InitFrames ==
  DmabufVk_Image("abort") \o << Make("cmd_buf", {"cmd_pool"}), Make("fence", {"device"}) >>

DmabufVk_CreateDmaBufBuffer ==
  DmabufBuffer("wl_buffer", "linux_dmabuf", "dma_fd", "abort")

(* Everything of a size is destroyed before it is made again; a failure    *)
(* ends the program.                                                       *)
DmabufVk_DoResize ==
  << Drop("wl_buffer"), Drop("framebuffer"), Drop("image_view"), Drop("image"),
     Drop("dma_fd"), Drop("memory") >>
  \o DmabufVk_Image("abort") \o DmabufVk_CreateDmaBufBuffer

DmabufVk_RenderFrame ==
  AllIf({"needs_resize"}, DmabufVk_DoResize)
  \o << Drop("needs_resize"), Use({"cmd_buf", "framebuffer", "render_pass", "pipeline"}),
        Check, Use({"fence", "vertex_buf"}), FrameCallback("frame_callback", "surface"),
        Use({"surface", "wl_buffer"}) >>
  \o DecoratedFrame_CommitBeforePresent

DmabufVk_OnFrameReady ==
  [ of |-> {"frame_callback"}, code |-> Spent("frame_callback", DmabufVk_RenderFrame) ]

DmabufVk_OnXdgSurfaceConfigure ==
  [ of |-> {"xdg_surface", "image"}, code |-> << Sure("needs_resize", {}) >> ]

(* App's members with those of its VulkanState, whose frames are last; a   *)
(* frame's destructor closes its descriptor before its members go.         *)
DmabufVk_Members ==
  << "display", "registry", "compositor", "surface",
     "instance", "device", "cmd_pool", "vertex_buf", "vertex_mem", "render_pass",
     "pipeline_layout", "vert_module", "frag_module", "pipeline",
     "memory", "image", "image_view", "framebuffer", "cmd_buf", "fence", "dma_fd",
     "linux_dmabuf", "wl_buffer", "wm_base", "xdg_surface", "xdg_toplevel",
     "seat", "shm" >>
  \o DecoratedFrame_Members \o << "frame_callback" >>

DmabufVk_Teardown == SeatRelease \o Destroyed(DmabufVk_Members)

DmabufVk ==
  App(DmabufVk_ScanGlobals \o DmabufVk_BindGlobals \o DmabufVk_CreateSurfaces
        \o DmabufVk_InitDevice \o DmabufVk_InitVertexBuffer \o DmabufVk_InitPipeline
        \o DmabufVk_InitFrames \o DmabufVk_CreateDmaBufBuffer \o DmabufVk_RenderFrame,
      [ OnCapabilities |-> OnCapabilities({"keyboard", "pointer"}),
        OnFrameReady |-> DmabufVk_OnFrameReady,
        OnXdgSurfaceConfigure |-> DmabufVk_OnXdgSurfaceConfigure ],
      DmabufVk_Teardown)
-----------------------------------------------------------------------------
(* ExplicitSync of vk-common: all of it or nothing.  Its destructor undoes *)
(* however much there is, and Create runs it when a later part fails; the  *)
(* program goes on without.                                                *)
ExplicitSync_Destroy ==
  << Drop("es_semaphore"), Drop("es_surface"), Drop("es_acquire_tl"),
     Drop("es_release_tl"), Drop("es_manager"), Drop("es_syncobjs") >>

ExplicitSync_Create ==
  << TryIfSeen("es_manager", "syncobj_manager"),
     If({"es_manager"}, Try("es_syncobjs", {})),
     If({"es_syncobjs"}, Try("es_acquire_tl", {"es_manager", "es_syncobjs"})),
     If({"es_syncobjs"}, Try("es_release_tl", {"es_manager", "es_syncobjs"})),
     If({"es_acquire_tl", "es_release_tl"}, Try("es_semaphore", {"device", "es_syncobjs"})),
     If({"es_semaphore"}, Try("es_surface", {"es_manager", "surface"})) >>
  \o AllUnless({"es_surface"}, ExplicitSync_Destroy)

ExplicitSync_SetSurfacePoints ==
  << If({"use_sync"}, Use({"es_surface", "es_acquire_tl", "es_release_tl"})) >>
-----------------------------------------------------------------------------
(* skia-vulkan-dmabuf: Skia on Vulkan, straight into a tiled dma-buf or    *)
(* through a copy, at the compositor's choice, which it may change.        *)
SkiaVk_ScanGlobals ==
  << Make("display", {}) >>
  \o Scan({"wl_compositor", "xdg_wm_base", "zwp_linux_dmabuf_v1"},
          {"wl_shm", "wl_seat", "wp_presentation", "syncobj_manager"})

SkiaVk_BindGlobals ==
  << Bind("compositor", "wl_compositor"), Bind("wm_base", "xdg_wm_base"),
     TryIfSeen("shm", "wl_shm"), Bind("linux_dmabuf", "zwp_linux_dmabuf_v1"),
     May({"v4"}), If({"v4"}, Try("dmabuf_feedback", {"linux_dmabuf"})), SeatBind,
     BindIfSeen("presentation", "wp_presentation"), Roundtrip, Check,
     Capabilities({"keyboard", "pointer", "touch"}) >>

(* The feedback for the surface is put where the default one is.           *)
SkiaVk_CreateSurfaces ==
  XdgWindow \o DecoratedFrame_Init
  \o << Use({"surface"}), Roundtrip,
        If({"v4"}, Try("dmabuf_feedback", {"linux_dmabuf", "surface"})), Drop("v4") >>

SkiaVk_InitVulkan ==
  VkDevice \o << Make("allocator", {"device"}), Make("gr_context", {"device", "allocator"}) >>

SkiaVk_SetupExplicitSync ==
  ExplicitSync_Create \o << If({"es_surface"}, Sure("use_sync", {})) >>

SkiaVk_DestroyRenderResources ==
  << Drop("skia_surface"), Drop("slot_buffer"), Drop("slot_surface"), Drop("flush_sem"),
     Drop("slot_fence"), Drop("copy_cmd"), Drop("image"), Drop("memory"), Drop("dma_fd") >>

(* Memory for a slot's image, exported, and the wl_buffer over it.         *)
SkiaVk_AllocateSlotMemory ==
  << Make("memory", {"image"}), Make("dma_fd", {"memory"}) >>
  \o DmabufBuffer("slot_buffer", "linux_dmabuf", "dma_fd", "abort")

SkiaVk_CreateModifierSlot ==
  << Make("image", {"device"}) >> \o SkiaVk_AllocateSlotMemory
  \o << Make("slot_surface", {"gr_context", "image", "memory"}),
        If({"use_sync"}, Make("flush_sem", {"device"})) >>

SkiaVk_CreateLinearSlot ==
  << Make("image", {"device"}), Make("copy_cmd", {"cmd_pool"}), Make("slot_fence", {"device"}) >>
  \o SkiaVk_AllocateSlotMemory

(* Which path is taken is decided anew each time; explicit sync is given   *)
(* up for good the first time it is the copy.                              *)
SkiaVk_CreateRenderResources ==
  SkiaVk_DestroyRenderResources
  \o << Drop("use_modifier"), May({"use_modifier"}), Unless({"use_modifier"}, Drop("use_sync")),
        Unless({"use_modifier"}, Make("skia_surface", {"gr_context"})) >>
  \o AllIf({"use_modifier"}, SkiaVk_CreateModifierSlot)
  \o AllUnless({"use_modifier"}, SkiaVk_CreateLinearSlot)

SkiaVk_CopyToSlot ==
  << Use({"skia_surface", "copy_cmd", "slot_fence", "image"}), Check >>

SkiaVk_SignalAcquire == << Use({"es_semaphore", "flush_sem"}), Check >>

SkiaVk_RenderFrame ==
  AllIf({"rebuild"}, SkiaVk_CreateRenderResources)
  \o << Drop("rebuild"), MayReturn >>
  \o AllIf({"use_modifier"},
       << Use({"slot_surface", "gr_context"}) >> \o AllIf({"use_sync"}, SkiaVk_SignalAcquire))
  \o AllUnless({"use_modifier"}, SkiaVk_CopyToSlot)
  \o << If({"presentation"}, [Use({"surface"}) EXCEPT !.may = {"feedback"}]),
        Use({"surface", "slot_buffer"}) >>
  \o ExplicitSync_SetSurfacePoints \o DecoratedFrame_CommitBeforePresent

SkiaVk_MainLoop ==
  << May({"self_paced"}), Unless({"self_paced"}, FrameCallback("frame_callback", "surface")) >>
  \o SkiaVk_RenderFrame

SkiaVk_OnFrameReady ==
  [ of |-> {"frame_callback"},
    code |-> Spent("frame_callback",
               << FrameCallback("frame_callback", "surface") >> \o SkiaVk_RenderFrame) ]

SkiaVk_RunSelfPaced ==
  [ of |-> {"self_paced"}, code |-> SkiaVk_RenderFrame \o << Roundtrip >> ]

SkiaVk_OnPresented == [ of |-> {"feedback"}, code |-> << Drop("feedback") >> ]

(* A size or a preference of another kind is noted for the next frame.     *)
SkiaVk_OnToplevelConfigure ==
  [ of |-> {"xdg_toplevel"}, code |-> << Sure("rebuild", {}) >> ]
SkiaVk_OnDmabufFeedback ==
  [ of |-> {"dmabuf_feedback"}, code |-> << Sure("rebuild", {}) >> ]

SkiaVk_Members ==
  << "display", "registry", "compositor", "surface", "instance", "device", "cmd_pool",
     "allocator", "gr_context", "skia_surface", "linux_dmabuf", "dmabuf_feedback",
     "wm_base", "xdg_surface", "xdg_toplevel", "seat", "shm" >>
  \o DecoratedFrame_Members \o << "presentation", "feedback", "frame_callback" >>

SkiaVk_Teardown ==
  SkiaVk_DestroyRenderResources \o ExplicitSync_Destroy
  \o << Drop("gr_context"), Drop("feedback"), Drop("presentation") >>
  \o SeatRelease \o Destroyed(SkiaVk_Members)

SkiaVk ==
  App(SkiaVk_ScanGlobals \o SkiaVk_BindGlobals \o SkiaVk_CreateSurfaces
        \o SkiaVk_InitVulkan \o SkiaVk_SetupExplicitSync \o SkiaVk_CreateRenderResources
        \o SkiaVk_MainLoop,
      [ OnFrameReady |-> SkiaVk_OnFrameReady,
        RunSelfPaced |-> SkiaVk_RunSelfPaced, OnPresented |-> SkiaVk_OnPresented,
        OnToplevelConfigure |-> SkiaVk_OnToplevelConfigure,
        OnDmabufFeedback |-> SkiaVk_OnDmabufFeedback ],
      SkiaVk_Teardown)
-----------------------------------------------------------------------------
(* shadertoy with Vulkan: a renderer that presents by itself, pumped by a  *)
(* loop of the program's own.                                              *)
ShadertoyVk_ScanGlobals ==
  << Make("display", {}) >>
  \o Scan({"wl_compositor", "xdg_wm_base"}, {"wl_seat", "wl_shm"})

ShadertoyVk_BindGlobals ==
  << Bind("compositor", "wl_compositor"), Bind("wm_base", "xdg_wm_base"), SeatBind, Roundtrip,
     Capabilities({"keyboard", "pointer", "touch"}), TryIfSeen("shm", "wl_shm"),
     If({"shm"}, Try("cursor", {"shm", "compositor"})) >>

ShadertoyVk_CreateSurfaces == XdgWindow \o << Use({"surface"}), Roundtrip >>

ShadertoyVk_InitRenderer == << Make("renderer", {"display", "surface"}) >>

ShadertoyVk_MainLoop == << Use({"display", "renderer"}), Check >>

ShadertoyVk_Render == [ of |-> {"renderer"}, code |-> << Use({"display", "surface"}), Check >> ]

ShadertoyVk_OnToplevelConfigure ==
  [ of |-> {"xdg_toplevel"}, code |-> << If({"renderer"}, Use({"renderer"})) >> ]

ShadertoyVk_Members ==
  << "display", "registry", "compositor", "surface", "wm_base", "xdg_surface",
     "xdg_toplevel", "seat", "shm", "cursor", "renderer" >>

ShadertoyVk_Teardown == << Drop("renderer") >> \o SeatRelease \o Destroyed(ShadertoyVk_Members)

ShadertoyVk ==
  App(ShadertoyVk_ScanGlobals \o ShadertoyVk_BindGlobals \o ShadertoyVk_CreateSurfaces
        \o ShadertoyVk_InitRenderer \o ShadertoyVk_MainLoop,
      [ OnCapabilities |-> OnCapabilities({"keyboard", "pointer", "touch"}),
        Render |-> ShadertoyVk_Render,
        OnToplevelConfigure |-> ShadertoyVk_OnToplevelConfigure ],
      ShadertoyVk_Teardown)
=============================================================================
