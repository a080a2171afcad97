------------------------------ MODULE ThreeDs ------------------------------
(***************************************************************************)
(* The 3DS core (ThreeDsCore.cpp) around its engine, one global instance for    *)
(* the life of the process: what a core has acquired of it, of files and of     *)
(* graphics, and gives back, wherever its preparation or boot fails.              *)
(***************************************************************************)
EXTENDS Naturals

VARIABLES
  object,     \* "none", "made", "prepared", "booted" (gameLoaded)
  romFd, romLink,
  handle,     \* api->handle
  active,     \* gActive is this core
  useVulkan,
  inits,      \* history: retro_init calls not undone by retro_deinit
  games,      \* history: retro_load_game, by retro_unload_game
  requested,  \* the engine has asked for hardware rendering
  fbo,        \* fbo and fboColor, outTexture
  image,      \* vkBridge->image: "none", "live", "gone"
  haveFrame

holdings == <<romFd, romLink, handle, active>>
engine   == <<inits, games, requested>>
drawing  == <<fbo, image, haveFrame>>
vars == <<object, holdings, useVulkan, engine, drawing>>

Init ==
  /\ object = "none"
  /\ romFd = FALSE /\ romLink = FALSE /\ handle = FALSE /\ active = FALSE
  /\ useVulkan = FALSE
  /\ inits = 0 /\ games = 0 /\ requested = FALSE
  /\ fbo = FALSE /\ image = "none" /\ haveFrame = FALSE

\* A new core; without its file or the library it goes no further.
Prepare ==
  /\ object = "none"
  /\ \/ /\ object' = "made"                  \* dup fails
        /\ UNCHANGED <<holdings, useVulkan>>
     \/ /\ romFd' = TRUE
        /\ romLink' \in BOOLEAN                 \* or the descriptor's own path
        /\ handle' \in BOOLEAN
        /\ \/ object' = "made" /\ UNCHANGED <<active, useVulkan>>
           \/ handle' /\ object' = "prepared" /\ active' = TRUE /\ useVulkan' \in BOOLEAN
  /\ UNCHANGED <<engine, drawing>>

\* retro_load_game fails: retro_deinit.
Refused == UNCHANGED inits

\* SET_SYSTEM_AV_INFO may make a framebuffer on the way, whatever the renderer.
Boot ==
  /\ object = "prepared"
  /\ requested' \in BOOLEAN
  /\ \/ /\ object' = "made"
        /\ Refused
        /\ fbo' \in BOOLEAN
        /\ UNCHANGED games
     \/ /\ object' = "made"       \* context_reset leaves a message: all is undone
        /\ requested'
        /\ fbo' = FALSE
        /\ UNCHANGED <<inits, games>>
     \/ /\ object' = "booted"
        /\ inits' = inits + 1 /\ games' = games + 1
        /\ fbo' \in {requested' /\ ~useVulkan, TRUE}
  /\ UNCHANGED <<holdings, useVulkan, image, haveFrame>>

\* retro_run
RunFrame ==
  /\ object = "booted"
  /\ active' = TRUE
  /\ fbo' \in {fbo, TRUE}
  /\ \/ UNCHANGED <<image, haveFrame>>      \* a duplicate frame
     \/ haveFrame' = TRUE /\ image' = IF useVulkan /\ requested THEN "live" ELSE image
  /\ UNCHANGED <<object, romFd, romLink, handle, useVulkan, engine>>

\* Slip: the image that the engine has destroyed stays.
KeepVulkanImage == image' = (IF image = "live" THEN "gone" ELSE image) /\ UNCHANGED haveFrame

\* The engine's output image is gone; the next frame brings another.
ForgetVulkanImage ==
  IF useVulkan THEN image' = "none" /\ haveFrame' = FALSE ELSE UNCHANGED <<image, haveFrame>>

\* LoadState and Reset restart the engine, renderer included.
Restart ==
  /\ object = "booted"
  /\ active' = TRUE
  /\ ForgetVulkanImage
  /\ UNCHANGED <<object, romFd, romLink, handle, useVulkan, engine, fbo>>

EndGame ==
  IF object = "booted" THEN inits' = inits - 1 /\ games' = games - 1 ELSE UNCHANGED <<inits, games>>

\* Shutdown, of SwapCore or of the destructor; the library stays.
Shutdown ==
  /\ object # "none"
  /\ object' = "none"
  /\ romFd' = FALSE /\ romLink' = FALSE
  /\ IF handle
     THEN /\ EndGame
          /\ active' = FALSE /\ handle' = FALSE
          /\ fbo' = FALSE
     ELSE UNCHANGED <<inits, games, active, handle, fbo>>
  /\ image' = "none" /\ haveFrame' = FALSE
  /\ requested' = FALSE /\ useVulkan' = FALSE

Next == Prepare \/ Boot \/ RunFrame \/ Restart \/ Shutdown

Spec == Init /\ [][Next]_vars

-----------------------------------------------------------------------------
(* Properties                                                               *)

\* Wherever the preparation or the boot failed, a core that is gone has left
\* nothing of itself, and the engine, which all cores share, is initialised and
\* given a game at most once (ThreeDsCore.cpp:406-458, 970-994).
NothingOutlives ==
  /\ inits \in 0 .. 1 /\ games \in 0 .. inits
  /\ object = "none" => ~romFd /\ ~romLink /\ ~active /\ ~fbo /\ inits = 0

\* GetFrame never hands out an image that the engine destroyed when a state was
\* loaded or the console reset (ThreeDsCore.cpp:962).
FrameIsLive == haveFrame => image # "gone"

EngineIsKept == NothingOutlives /\ FrameIsLive
=============================================================================
