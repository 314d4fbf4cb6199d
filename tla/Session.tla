------------------------------ MODULE Session ------------------------------
(***************************************************************************)
(* How FoFiX pauses, fails, restarts and leaves a song: the main loop of   *)
(* the engine, the View with its layers that fade in and out, the key      *)
(* listeners of Input, the pause and fail menus, and the part of           *)
(* GuitarScene that they drive.  A menu's choice takes effect at once, but *)
(* its onClose is called only when the menu has faded away.                *)
(*                                                                         *)
(* One turn of the loop (GameEngine.main) is Input.run, View.run,          *)
(* GuitarScene.run and GuitarScene.render.  Time is counted in turns.      *)
(* How the song is played is in module GuitarScene: here it may end, and   *)
(* the player may fail, at any time.                                       *)
(***************************************************************************)
EXTENDS Integers, Sequences, SequencesExt

CONSTANTS
  Transitions,   \* how many turns a layer may take to fade: transitionTime
  Countdown,     \* turns before the song begins
  ResumeTurns,   \* turns before the song goes on: resumeCountdownSeconds
  FailTurns,     \* turns that the fail message is shown
  RockTurns      \* turns that "you rock" is shown: rockCountdown

\* 3 seconds are longer than the 512 ms of a transition
ASSUME SessionAssumption ==
  /\ Transitions \subseteq Nat \ {0} /\ Countdown \in Nat \ {0}
  /\ ResumeTurns \in Nat /\ \A t \in Transitions : t + 1 < ResumeTurns
  /\ FailTurns \in Nat \ {0} /\ RockTurns \in Nat \ {0}

VARIABLES
  stage,      \* the task whose turn it is
  settings,   \* what the player configured, and the length of a transition
  view,       \* the layers, and the key listeners of Input
  game        \* the GuitarScene and its song

vars == <<stage, settings, view, game>>

Menus == {"menu", "failMenu"}
\* the scene that follows: the results, the songs, or the main menu
Layers == {"scene", "next"} \cup Menus
isBackgroundLayer(l) == l \notin Menus

Init ==
  /\ stage = "input"
  /\ settings \in [resumeCountdown : BOOLEAN, lostFocusPause : BOOLEAN, transition : Transitions]
  /\ view = [layers |-> <<"scene">>, outgoing |-> {}, visibility |-> [l \in Layers |-> 0],
             listeners |-> <<"scene">>]
  /\ game = [song |-> TRUE, audio |-> "stopped", pause |-> FALSE,
             countdown |-> Countdown, countdownOK |-> FALSE, resumeCountdown |-> 0,
             failed |-> FALSE, failTimer |-> 0, failEnd |-> FALSE,
             youRock |-> FALSE, rockTimer |-> 0, ending |-> FALSE]

-----------------------------------------------------------------------------
\* The song, as the audio library plays it

songPause(g) == [g EXCEPT !.audio = IF @ = "playing" THEN "paused" ELSE @]
songUnpause(g) == [g EXCEPT !.audio = IF @ = "paused" THEN "playing" ELSE @]
songStop(g) == [g EXCEPT !.audio = "stopped"]
isPlaying(g) == g.audio \in {"playing", "paused"}

-----------------------------------------------------------------------------
\* GuitarScene

resetVariablesToDefaults(g) ==
  [g EXCEPT !.countdown = Countdown, !.countdownOK = FALSE, !.resumeCountdown = 0,
            !.failed = FALSE, !.failTimer = 0, !.failEnd = FALSE,
            !.youRock = FALSE, !.rockTimer = 0]

pauseGame(g) == IF g.song THEN [songPause(g) EXCEPT !.pause = TRUE] ELSE g

\* mutant: also a song that was failed is resumed
resumeGameFailed(g) == [songUnpause(g) EXCEPT !.pause = FALSE]
resumeGame(g) ==
  CASE settings.resumeCountdown /\ ~g.failed /\ g.countdown = 0 ->
         [g EXCEPT !.resumeCountdown = ResumeTurns, !.pause = FALSE]
    [] ~(settings.resumeCountdown /\ ~g.failed /\ g.countdown = 0) /\ g.song ->
         [(IF g.failed THEN g ELSE songUnpause(g)) EXCEPT !.pause = FALSE]
    [] OTHER -> g

-----------------------------------------------------------------------------
\* View and the listeners of Input; w is the view and the game

Up(v, l) == l \in Range(v.layers) \ v.outgoing

addKeyListener(v, l) == [v EXCEPT !.listeners = IF Contains(@, l) THEN @ ELSE Append(@, l)]
removeKeyListener(v, l) == [v EXCEPT !.listeners = RemoveFirst(@, l)]

shown(w, l) == [w EXCEPT !.view = addKeyListener(@, l)]
\* mutant: the menu's onClose is not called
hiddenSilent(w, l) == [w EXCEPT !.view = removeKeyListener(@, l)]
hidden(w, l) ==
  [w EXCEPT !.view = removeKeyListener(@, l), !.game = IF l = "menu" THEN resumeGame(@) ELSE @]

\* mutant: a layer that is fading away is hidden after it was shown
pushLayerHidden(w, l) ==
  CASE l \notin Range(w.view.layers) ->
         shown([w EXCEPT !.view.layers = Append(@, l), !.view.visibility[l] = 0], l)
    [] l \in w.view.outgoing -> [hidden(shown(w, l), l) EXCEPT !.view.outgoing = @ \ {l}]
    [] OTHER -> w
pushLayer(w, l) ==
  CASE l \notin Range(w.view.layers) ->
         shown([w EXCEPT !.view.layers = Append(@, l), !.view.visibility[l] = 0], l)
    [] l \in w.view.outgoing -> [shown(hidden(w, l), l) EXCEPT !.view.outgoing = @ \ {l}]
    [] OTHER -> w

\* mutant: also a layer that is not shown is popped
popLayerAny(w, l) == [w EXCEPT !.view.outgoing = @ \cup {l}]
popLayer(w, l) ==
  [w EXCEPT !.view.outgoing = IF l \in Range(w.view.layers) THEN @ \cup {l} ELSE @]

\* a layer fades out when it was popped, or a menu when it is not on top
Fades(v, l) == l \in v.outgoing \/ (l # Last(v.layers) /\ ~isBackgroundLayer(l))
Gone(v) == {l \in v.outgoing : v.visibility[l] = 0}

Visibility(v) ==
  [l \in Layers |->
    CASE l \notin Range(v.layers) -> 0
      [] l \in Range(v.layers) /\ Fades(v, l) -> IF v.visibility[l] > 0 THEN v.visibility[l] - 1 ELSE 0
      [] OTHER -> IF v.visibility[l] < settings.transition THEN v.visibility[l] + 1
                                                            ELSE settings.transition]

-----------------------------------------------------------------------------
\* What ends the scene: its song is freed, and another scene takes its place

createScene(w) == pushLayer(popLayer(w, "scene"), "next")

freeResources(w) == [w EXCEPT !.game.song = FALSE]

changeSong(w) ==
  LET g == resetVariablesToDefaults(songStop(w.game))
  IN  createScene(freeResources(popLayer(popLayer([w EXCEPT !.game = g], "menu"), "failMenu")))

changeAfterFail(w) ==
  LET g == resetVariablesToDefaults(songStop(w.game))
  IN  createScene(freeResources(popLayer([w EXCEPT !.game = g], "failMenu")))

\* the results are shown if something was scored
goToResults(w, score) ==
  LET k == [w EXCEPT !.game = [songStop(@) EXCEPT !.ending = TRUE]]
  IN  IF score THEN createScene(freeResources(k)) ELSE changeSong(k)

endSong(w, score) == IF score THEN goToResults(popLayer(w, "menu"), TRUE)
                              ELSE changeSong(popLayer(w, "menu"))

-----------------------------------------------------------------------------
\* The menus' other choices

resumeSong(w) == LET k == popLayer(w, "menu") IN [k EXCEPT !.game = resumeGame(@)]

restart(w, m) ==
  LET k == popLayer(w, m) IN [k EXCEPT !.game = songStop(resetVariablesToDefaults(@))]

failGame(w) ==
  LET k == pushLayer(w, "failMenu")
      p == IF k.game.pause THEN [popLayer(k, "menu") EXCEPT !.game.pause = FALSE] ELSE k
  IN  [p EXCEPT !.game.failEnd = TRUE]

-----------------------------------------------------------------------------
\* Input.run: key presses go to the listener that was added last; every menu
\* takes all keys.  What is pressed after the scene is over is not modelled.

Heard(l) == stage = "input" /\ game.song /\ view.listeners # <<>> /\ Last(view.listeners) = l

Become(w) == view' = w.view /\ game' = w.game

Here == [view |-> view, game |-> game]

\* a start key in the scene: it pauses first, and then shows the menu
StartPressed ==
  /\ Heard("scene") /\ ~game.ending
  /\ Become(pushLayer([Here EXCEPT !.game = pauseGame(@)], "menu"))
  /\ UNCHANGED <<stage, settings>>

MenuChosen ==
  /\ Heard("menu")
  /\ \/ Become(resumeSong(Here))
     \/ Become(restart(Here, "menu"))
     \/ \E score \in BOOLEAN : Become(endSong(Here, score))
     \/ Become(changeSong(Here))
  /\ UNCHANGED <<stage, settings>>

MenuCancelled ==
  /\ Heard("menu")
  /\ view' = removeKeyListener(popLayer(Here, "menu").view, "menu")
  /\ UNCHANGED <<stage, settings, game>>

FailMenuChosen ==
  /\ Heard("failMenu")
  /\ \/ Become(restart(Here, "failMenu"))
     \/ Become(changeAfterFail(Here))
     \/ Become(changeSong(Here))
  /\ UNCHANGED <<stage, settings>>

\* the fail menu's onCancel leaves the song
FailMenuCancelled ==
  /\ Heard("failMenu")
  /\ LET w == changeAfterFail(Here)
     IN  view' = removeKeyListener(w.view, "failMenu") /\ game' = w.game
  /\ UNCHANGED <<stage, settings>>

\* it is told to all listeners: here the menu is shown first
lostFocus ==
  /\ stage = "input" /\ Contains(view.listeners, "scene")
  /\ game.song /\ ~game.failed /\ ~game.pause /\ settings.lostFocusPause
  /\ LET w == pushLayer(Here, "menu") IN Become([w EXCEPT !.game = pauseGame(@)])
  /\ UNCHANGED <<stage, settings>>

InputDone ==
  /\ stage = "input" /\ stage' = "view"
  /\ UNCHANGED <<settings, view, game>>

-----------------------------------------------------------------------------
\* The other tasks of the loop

\* a layer that has faded out leaves, and then is told
leave(w, l) ==
  hidden([w EXCEPT !.view.layers = RemoveFirst(@, l), !.view.outgoing = @ \ {l}], l)
leaveIf(w, l, gone) == IF l \in gone THEN leave(w, l) ELSE w

\* layers leave each with its own listener, so that their order is nothing
ViewRun ==
  /\ stage = "view" /\ stage' = "scene"
  /\ LET gone == Gone(view)
         w == [Here EXCEPT !.view.visibility = Visibility(view)]
     IN  Become(leaveIf(leaveIf(leaveIf(leaveIf(w, "scene", gone), "next", gone),
                                "menu", gone), "failMenu", gone))
  /\ UNCHANGED settings

\* the countdowns of a turn; the song begins when the first one is over
CountDown(g) ==
  IF g.countdown > 0 /\ g.countdownOK
  THEN [g EXCEPT !.countdown = @ - 1, !.audio = IF g.countdown = 1 THEN "playing" ELSE @] ELSE g
ResumeCountDown(g) ==
  IF g.resumeCountdown > 0
  THEN LET k == [g EXCEPT !.resumeCountdown = @ - 1]
       IN  IF k.resumeCountdown = 0 THEN [songUnpause(k) EXCEPT !.pause = FALSE] ELSE k
  ELSE g
RockAtEnd(g) == IF g.countdown = 0 /\ ~isPlaying(g) THEN [g EXCEPT !.youRock = TRUE] ELSE g

\* the song may have ended; the rock meter may be empty once it has begun
SceneRun ==
  /\ stage = "scene" /\ stage' = "render"
  /\ IF game.song /\ ~game.pause /\ ~game.failed
     THEN \E ended, failed, score \in BOOLEAN :
            /\ ended => game.audio = "playing"
            /\ failed => game.countdown = 0
            /\ LET g == [game EXCEPT !.audio = IF ended THEN "ended" ELSE @, !.failed = failed]
                   k == RockAtEnd(ResumeCountDown(CountDown(g)))
                   w == [view |-> view, game |-> k]
               IN  Become(IF k.rockTimer = RockTurns /\ ~k.pause THEN goToResults(w, score) ELSE w)
     ELSE UNCHANGED <<view, game>>
  /\ UNCHANGED settings

FailMessage(w) ==
  CASE w.game.failTimer < FailTurns ->
         LET g == IF w.game.failTimer = 0 THEN songPause(w.game) ELSE w.game
         IN  [w EXCEPT !.game = [g EXCEPT !.failTimer = @ + 1]]
    [] w.game.failTimer = FailTurns /\ ~w.game.failEnd -> failGame(w)
    [] OTHER -> w

Render ==
  /\ stage = "render" /\ stage' = "input"
  /\ IF game.song
     THEN LET g == [game EXCEPT !.countdownOK = @ \/ game.countdown > 0,
                                !.rockTimer = IF game.youRock /\ @ < RockTurns THEN @ + 1 ELSE @]
              w == [view |-> view, game |-> g]
          IN  Become(IF g.failed THEN FailMessage(w) ELSE w)
     ELSE UNCHANGED <<view, game>>
  /\ UNCHANGED settings

Next ==
  \/ StartPressed \/ MenuChosen \/ MenuCancelled \/ FailMenuChosen \/ FailMenuCancelled
  \/ lostFocus \/ InputDone \/ ViewRun \/ SceneRun \/ Render

\* the loop goes on: pygame's queue of events is finite
Fairness == WF_vars(InputDone \/ ViewRun \/ SceneRun \/ Render)

Spec == Init /\ [][Next]_vars /\ Fairness

-----------------------------------------------------------------------------
View == [layers: Seq(Layers), outgoing: SUBSET Layers, visibility: [Layers -> Nat],
         listeners: Seq(Layers)]

\* no layer and no listener is twice in its list, and a layer fades out of it
Listed(v) ==
  IsInjective(v.layers) /\ IsInjective(v.listeners) /\ v.outgoing \subseteq Range(v.layers)

UpTo(n) == 0 .. n

Game ==
  [song: BOOLEAN, audio: {"stopped", "playing", "paused", "ended"}, pause: BOOLEAN,
   countdown: UpTo(Countdown), countdownOK: BOOLEAN, resumeCountdown: UpTo(ResumeTurns),
   failed: BOOLEAN, failTimer: UpTo(FailTurns), failEnd: BOOLEAN,
   youRock: BOOLEAN, rockTimer: UpTo(RockTurns), ending: BOOLEAN]

TypeOK ==
  /\ stage \in {"input", "view", "scene", "render"}
  /\ settings \in [resumeCountdown : BOOLEAN, lostFocusPause : BOOLEAN, transition : Transitions]
  /\ view \in View /\ Listed(view)
  /\ \A l \in Layers : view.visibility[l] <= settings.transition
  /\ game \in Game

(* The song sounds only while the game runs, and does not wait while it    *)
(* runs: whatever menus were shown and have faded away since, a song that  *)
(* was paused or failed is not resumed behind the player's back.           *)
SoundFollowsGame ==
  game.song =>
    /\ game.audio = "playing" => ~game.pause /\ ~(game.failed /\ game.failTimer > 0)
    /\ game.audio = "paused" => game.pause \/ game.failed \/ game.resumeCountdown > 0

(* A menu that is up hears the keys, also when it was shown again while    *)
(* it was fading away: else the player could not go on.                    *)
MenusHearKeys == \A m \in Menus : Up(view, m) => Contains(view.listeners, m)

(* A game that stands still, paused or failed, with no menu up that could  *)
(* be answered, goes on or shows one: the menu that has faded resumes the  *)
(* game, and the fail message is followed by its menu.                     *)
StandsStill == game.song /\ (game.pause \/ game.failed)
CanAnswer == \E m \in Menus : Up(view, m)
NeverStuck == (StandsStill /\ ~CanAnswer) ~> (~StandsStill \/ CanAnswer)

(* GuitarScene.py 415: "don't let the pause menu overlap the fail menu".   *)
MenusDoNotOverlap == ~(Up(view, "menu") /\ Up(view, "failMenu"))

=============================================================================
