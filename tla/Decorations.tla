----------------------------- MODULE Decorations -----------------------------
(***************************************************************************)
(* The window frame that several of the examples hold (csd-common's        *)
(* DecoratedWindow and DecoratedFrame), in the vocabulary of Script.  The  *)
(* frame binds its own copies of the globals and draws on a surface of its *)
(* own below the application's.  Its insides are a program of their own    *)
(* here; to the programs that hold one it is a single object.              *)
(***************************************************************************)
EXTENDS Script

(* Each step is taken only as far as the ones before it came: Init returns *)
(* false there and every caller goes on, undecorated.                      *)
DecoratedWindow_Globals ==
  << May({"plugin"}), Try("registry", {"display"}),
     If({"registry"}, May({"globals"})),
     If({"globals"}, May({"wl_compositor", "wl_subcompositor", "wl_shm",
                          "zxdg_decoration_manager_v1", "wp_viewporter"})),
     TryIfSeen("frame_compositor", "wl_compositor"),
     TryIfSeen("frame_subcompositor", "wl_subcompositor"),
     TryIfSeen("frame_shm", "wl_shm"),
     TryIfSeen("decoration_mgr", "zxdg_decoration_manager_v1"),
     TryIfSeen("frame_viewporter", "wp_viewporter") >>

(* The mode is asked for; without a manager the frame draws itself.        *)
DecoratedWindow_Mode ==
  << If({"decoration_mgr"}, Try("decoration", {"decoration_mgr", "xdg_toplevel"})),
     Unless({"decoration_mgr"}, If({"plugin", "globals"}, Sure("csd", {}))) >>

DecoratedWindow_Surface ==
  AllIf({"plugin", "frame_compositor", "frame_subcompositor", "frame_shm"},
    << Try("frame_surface", {"frame_compositor", "surface"}),
       If({"frame_surface"}, May({"no_subsurface"})),
       Unless({"no_subsurface"}, If({"frame_surface"},
          Sure("frame_subsurface", {"frame_subcompositor", "frame_surface", "surface"}))),
       If({"frame_viewporter", "frame_subsurface"},
          Try("frame_viewport", {"frame_viewporter", "frame_surface"})) >>)

DecoratedWindow_Init ==
  DecoratedWindow_Globals \o DecoratedWindow_Mode \o DecoratedWindow_Surface

(* The compositor decides who draws.                                       *)
DecoratedWindow_OnDecorationConfigure ==
  [ of |-> {"decoration"},
    code |-> << Drop("csd"), If({"plugin"}, May({"csd"})) >> ]

(* A pool of another size takes the place of the old one, which is kept    *)
(* until the compositor has released its buffers.                          *)
DecoratedWindow_Commit ==
  [ of |-> {"xdg_surface"},
    code |-> << Use({"xdg_surface"}) >>
             \o AllIf({"csd", "frame_surface"},
                  << MayReturn, Use({"frame_shm"}),
                     [May({"frame_retired"}) EXCEPT !.drops = {"frame_pool", "frame_retired"}],
                     MakeOrReturn("frame_pool", {"frame_shm"}),
                     Use({"frame_subsurface", "frame_surface"}) >>) ]

(* A press on the frame is a move, a resize or a menu of the toplevel.     *)
DecoratedWindow_OnPointerButton ==
  [ of |-> {"pointer", "frame_surface"}, code |-> << Use({"xdg_toplevel", "seat"}) >> ]

DecoratedWindow_Members ==
  << "registry", "frame_compositor", "frame_subcompositor", "frame_shm",
     "decoration_mgr", "frame_viewporter", "frame_surface", "frame_subsurface",
     "frame_viewport", "decoration", "frame_pool", "frame_retired" >>

(* The frame within a program that has what it is handed: the display, a   *)
(* seat with a pointer, and a window.                                      *)
DecoratedWindow ==
  App(<< Sure("display", {}), Sure("compositor", {}), Sure("wm_base", {}),
         Sure("seat", {}), Sure("pointer", {"seat"}) >>
        \o XdgWindow \o DecoratedWindow_Init,
      [ OnDecorationConfigure |-> DecoratedWindow_OnDecorationConfigure,
        Commit |-> DecoratedWindow_Commit,
        OnPointerButton |-> DecoratedWindow_OnPointerButton ],
      Destroyed(<< "display", "compositor", "surface", "wm_base", "xdg_surface",
                   "xdg_toplevel", "seat", "pointer" >> \o DecoratedWindow_Members))
-----------------------------------------------------------------------------
(* A frame as its holders see it.                                          *)
WindowFrame_Init == << Try("frame", {"display", "surface", "xdg_surface", "xdg_toplevel"}) >>
WindowFrame_Commit == << Use({"xdg_surface"}) >>

(* DecoratedFrame: a frame, and a cursor for the pointer over it.          *)
DecoratedFrame_Init ==
  WindowFrame_Init \o << If({"shm"}, Try("cursor", {"shm", "compositor"})) >>
DecoratedFrame_CommitBeforePresent == WindowFrame_Commit
DecoratedFrame_Members == << "frame", "cursor" >>
=============================================================================
