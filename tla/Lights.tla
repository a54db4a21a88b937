-------------------------------- MODULE Lights --------------------------------
(***************************************************************************)
(* The lights HAL (liblights/lights.c).  Three lights share one RGB LED:   *)
(* attention, notification and battery, in that order of importance; the   *)
(* display and the buttons have a file each.  Every file write happens     *)
(* under g_lock, one file at a time, and may fail without being noticed.   *)
(*                                                                         *)
(* A thread opens the device of a light, sets the light any number of      *)
(* times and closes it.  The mutex is initialised once more on the first   *)
(* open (pthread_once); what a wrong `once' would do is visible because    *)
(* init_globals leaves the mutex free, whoever held it.                    *)
(***************************************************************************)
EXTENDS Integers

CONSTANTS
  Thread,     \* the threads that use the HAL
  State,      \* the light_state_t the framework asks for
  Flaky,      \* the parts whose files may refuse a write
  Nobody,     \* nobody holds the lock
  NoDevice    \* a thread without a device

\* The parts of a colour, in the order in which they are written; the LED has
\* a brightness and a blink file for each.
Red == 1
Green == 2
Blue == 3
Part == Red .. Blue

Speaker == {"attention", "notifications", "battery"}
Panel == {"backlight", "buttons"}
Light == Speaker \cup Panel

LightState == [color: [Part -> 0..255], flashMode: {"none", "timed", "hardware"},
               flashOnMS: Nat, flashOffMS: Nat]

ASSUME LightsAssumption ==
  /\ State \subseteq LightState
  /\ Flaky \subseteq Part
  /\ Nobody \notin Thread
  /\ NoDevice \notin Light

VARIABLES
  pc,       \* where each thread is
  device,      \* the light whose device each thread has open
  g_init,   \* the pthread_once_t
  g_lock,   \* the thread that holds the mutex
  lights,   \* g_attention, g_notification and g_battery
  cur,      \* the state a thread is asked for or is showing (locals: Off between calls)
  at,       \* the part it writes next
  led,      \* the brightness files of the LED
  blink,    \* its blink files: TRUE once 1 was written
  stale,    \* the brightness files whose last write failed, or never happened
  dim,      \* the blink files a write of 1 has failed on
  panel     \* the files of the display and of the buttons

lightsVars == <<pc, device, g_init, g_lock, lights, cur, at, led, blink, stale, dim, panel>>

\* "new": no device; "init": in init_globals; "idle": between two calls; "set":
\* in set_light, before the lock; "write" and "blink": writing the files of the
\* LED; "file": writing the display or the buttons; "unlock": done writing.
Place == {"new", "init", "idle", "set", "write", "blink", "file", "unlock"}

Off == [color |-> [c \in Part |-> 0], flashMode |-> "none", flashOnMS |-> 0, flashOffMS |-> 0]

LightsTypeOK ==
  /\ pc \in [Thread -> Place]
  /\ device \in [Thread -> Light \cup {NoDevice}]
  /\ g_init \in {"no", "running", "done"}
  /\ g_lock \in Thread \cup {Nobody}
  /\ lights \in [Speaker -> LightState]
  /\ cur \in [Thread -> LightState]
  /\ at \in [Thread -> Part]
  /\ led \in [Part -> 0..255]
  /\ blink \in [Part -> BOOLEAN]
  /\ stale \subseteq Part
  /\ dim \subseteq Part
  /\ panel \in [Panel -> 0..255]

\* The LED is as the boot loader left it.
LightsInit ==
  /\ pc = [t \in Thread |-> "new"]
  /\ device = [t \in Thread |-> NoDevice]
  /\ g_init = "no"
  /\ g_lock = Nobody
  /\ lights = [l \in Speaker |-> Off]
  /\ cur = [t \in Thread |-> Off]
  /\ at = [t \in Thread |-> 1]
  /\ led = [c \in Part |-> 0]
  /\ blink = [c \in Part |-> FALSE]
  /\ stale = Part
  /\ dim = {}
  /\ panel = [l \in Panel |-> 0]

Goes(t, place) == pc[t] = place
To(t, place) == pc' = [pc EXCEPT ![t] = place]

is_lit(s) == \E c \in Part : s.color[c] # 0

\* The state handle_speaker_battery_locked shows.
TheMostImportant(ls) ==
  IF is_lit(ls["attention"]) THEN ls["attention"]
  ELSE IF is_lit(ls["notifications"]) THEN ls["notifications"]
  ELSE ls["battery"]

\* Faulty variant: division by 255 instead of the shift.
rgb_to_brightness_wide(s) ==
  (77 * s.color[Red] + 150 * s.color[Green] + 29 * s.color[Blue]) \div 255

\* The weights add up to 256.
rgb_to_brightness(s) ==
  (77 * s.color[Red] + 150 * s.color[Green] + 29 * s.color[Blue]) \div 256

\* What set_light_backlight and set_light_buttons write.
FileValue(l, s) ==
  IF l = "backlight" THEN rgb_to_brightness(s) ELSE IF is_lit(s) THEN 255 ELSE 0

\* The variable `blink' of set_speaker_light_locked.
Flashes(s) == s.flashMode = "timed" /\ s.flashOnMS > 0 /\ s.flashOffMS > 0

\* What is kept of the state a light is set to.
Kept(l, s) ==
  IF l = "attention" /\ s.flashOnMS = 0 /\ s.flashOffMS = 0
  THEN [s EXCEPT !.color = Off.color]
  ELSE s

\* Faulty variant: the flag is tested without waiting for its owner.
onceUnguarded == g_init # "done"

\* pthread_once lets one thread run init_globals and the others wait for it.
once == g_init = "no"

\* open_lights: the first one runs init_globals, those that come meanwhile wait.
OpenFirst(t) ==
  /\ Goes(t, "new")
  /\ once
  /\ g_init' = "running"
  /\ To(t, "init")
  /\ UNCHANGED <<device, g_lock, lights, cur, at, led, blink, stale, dim, panel>>

\* init_globals, and the rest of open_lights for the device of l.
init_globals(t, l) ==
  /\ Goes(t, "init")
  /\ g_lock' = Nobody
  /\ g_init' = "done"
  /\ device' = [device EXCEPT ![t] = l]
  /\ To(t, "idle")
  /\ UNCHANGED <<lights, cur, at, led, blink, stale, dim, panel>>

\* open_lights when the mutex is ready.
open_lights(t, l) ==
  /\ Goes(t, "new")
  /\ g_init = "done"
  /\ device' = [device EXCEPT ![t] = l]
  /\ To(t, "idle")
  /\ UNCHANGED <<g_init, g_lock, lights, cur, at, led, blink, stale, dim, panel>>

\* close_lights: the lights stay as they are.
close_lights(t) ==
  /\ Goes(t, "idle")
  /\ device' = [device EXCEPT ![t] = NoDevice]
  /\ To(t, "new")
  /\ UNCHANGED <<g_init, g_lock, lights, cur, at, led, blink, stale, dim, panel>>

\* The framework calls set_light with the state s.
set_light(t, s) ==
  /\ Goes(t, "idle")
  /\ cur' = [cur EXCEPT ![t] = s]
  /\ To(t, "set")
  /\ UNCHANGED <<device, g_init, g_lock, lights, at, led, blink, stale, dim, panel>>

takes(t) == g_lock = Nobody /\ g_lock' = t

\* set_light_attention, _notifications and _battery up to the first write: the
\* state is kept and the most important light is chosen.
SetSpeaker(t) ==
  /\ Goes(t, "set")
  /\ device[t] \in Speaker
  /\ takes(t)
  /\ lights' = [lights EXCEPT ![device[t]] = Kept(device[t], cur[t])]
  /\ cur' = [cur EXCEPT ![t] = TheMostImportant(lights')]
  /\ at' = [at EXCEPT ![t] = Red]
  /\ To(t, "write")
  /\ UNCHANGED <<device, g_init, led, blink, stale, dim, panel>>

AfterColour(t) == IF Flashes(cur[t]) THEN "blink" ELSE "unlock"

\* One of the three writes of brightness, which may fail.
WriteColour(t) ==
  /\ Goes(t, "write")
  /\ \/ /\ led' = [led EXCEPT ![at[t]] = cur[t].color[at[t]]]
        /\ stale' = stale \ {at[t]}
     \/ /\ at[t] \in Flaky
        /\ stale' = stale \cup {at[t]}
        /\ led' = led
  /\ IF at[t] = Blue
     THEN /\ To(t, AfterColour(t))
          /\ at' = [at EXCEPT ![t] = Red]
     ELSE /\ at' = [at EXCEPT ![t] = @ + 1]
          /\ pc' = pc
  /\ UNCHANGED <<device, g_init, g_lock, lights, cur, blink, dim, panel>>

\* One of the three writes of blink: only for a part that is lit.
WriteBlink(t) ==
  /\ Goes(t, "blink")
  /\ IF cur[t].color[at[t]] = 0
     THEN UNCHANGED <<blink, dim>>
     ELSE \/ blink' = [blink EXCEPT ![at[t]] = TRUE] /\ dim' = dim
          \/ at[t] \in Flaky /\ dim' = dim \cup {at[t]} /\ blink' = blink
  /\ IF at[t] = Blue
     THEN To(t, "unlock") /\ at' = at
     ELSE at' = [at EXCEPT ![t] = @ + 1] /\ pc' = pc
  /\ UNCHANGED <<device, g_init, g_lock, lights, cur, led, stale, panel>>

\* set_light_backlight and set_light_buttons: one write of a file of their own.
LockFile(t) ==
  /\ Goes(t, "set")
  /\ device[t] \in Panel
  /\ takes(t)
  /\ To(t, "file")
  /\ UNCHANGED <<device, g_init, lights, cur, at, led, blink, stale, dim, panel>>
WriteFile(t) ==
  /\ Goes(t, "file")
  /\ panel' \in {panel, [panel EXCEPT ![device[t]] = FileValue(device[t], cur[t])]}
  /\ To(t, "unlock")
  /\ UNCHANGED <<device, g_init, g_lock, lights, cur, at, led, blink, stale, dim>>

Unlock(t) ==
  /\ Goes(t, "unlock")
  /\ g_lock' = Nobody
  /\ cur' = [cur EXCEPT ![t] = Off]
  /\ at' = [at EXCEPT ![t] = Red]
  /\ To(t, "idle")
  /\ UNCHANGED <<device, g_init, lights, led, blink, stale, dim, panel>>

Step(t) ==
  \/ OpenFirst(t)
  \/ \E l \in Light : init_globals(t, l) \/ open_lights(t, l)
  \/ close_lights(t)
  \/ \E s \in State : set_light(t, s)
  \/ SetSpeaker(t)
  \/ WriteColour(t)
  \/ WriteBlink(t)
  \/ LockFile(t)
  \/ WriteFile(t)
  \/ Unlock(t)

LightsNext == \E t \in Thread : Step(t)

LightsSpec == LightsInit /\ [][LightsNext]_lightsVars

-------------------------------------------------------------------------------
\* Whenever nobody is writing, the LED has the colour of the most important
\* light that is lit, and blinks in every part of it that should, except in
\* the files whose write failed (handle_speaker_battery_locked under g_lock,
\* in whatever order the three lights were set and by whom).
ShowsMostImportant ==
  LET top == TheMostImportant(lights) IN
  g_lock = Nobody =>
    \A c \in Part :
      /\ c \notin stale => led[c] = top.color[c]
      /\ Flashes(top) /\ top.color[c] # 0 /\ c \notin dim => blink[c]
=============================================================================
