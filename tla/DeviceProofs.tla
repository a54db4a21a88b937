----------------------------- MODULE DeviceProofs -----------------------------
(***************************************************************************)
(* Theorems about the two HALs of the phone's own hardware, Lights and     *)
(* CameraWrapper.  They share no state: each has its own invariant, for    *)
(* any threads, states and failing files of the one and for any cameras    *)
(* and memory of the other, as long as a camera is opened only while none  *)
(* is open.                                                                *)
(***************************************************************************)
EXTENDS Lights, CameraWrapper, TLAPS

-------------------------------------------------------------------------------
(* The lights.                                                             *)
(*                                                                         *)
(* What the LED shows is invariant because of two things.  LockInv: the    *)
(* mutex is held by the one thread that writes, which in turn rests on     *)
(* pthread_once: a second init_globals would free it under its owner.      *)
(* ShowInv: a writer has chosen the most important light, and the parts it *)
(* has passed show it.                                                     *)

Holding == {"write", "blink", "file", "unlock"}

LockInv ==
  /\ \A t \in Thread : pc[t] = "init" => g_init = "running"
  /\ \A t \in Thread : pc[t] \notin {"new", "init"} => g_init = "done"
  /\ \A t, u \in Thread : pc[t] = "init" /\ pc[u] = "init" => t = u
  /\ \A t \in Thread : pc[t] \in Holding <=> g_lock = t

top == TheMostImportant(lights)

\* A part of the LED has its colour, or could not be written; and blinks if it
\* has to.
Shown(c) == c \notin stale => led[c] = top.color[c]
Blinks(c) == Flashes(top) /\ top.color[c] # 0 /\ c \notin dim => blink[c]

ShowInv ==
  /\ \A t \in Thread : pc[t] = "write" =>
       cur[t] = top /\ \A c \in Part : c < at[t] => Shown(c)
  /\ \A t \in Thread : pc[t] = "blink" =>
       /\ cur[t] = top
       /\ \A c \in Part : Shown(c) /\ (c < at[t] => Blinks(c))
  /\ (\A t \in Thread : pc[t] \notin {"write", "blink"}) =>
       \A c \in Part : Shown(c) /\ Blinks(c)

LightsInv == LightsTypeOK /\ LockInv /\ ShowInv

-------------------------------------------------------------------------------
\* The brightness is one byte: the weights of the colours add up to 256.
LEMMA BrightnessIsByte ==
  ASSUME NEW s \in LightState, NEW l
  PROVE  FileValue(l, s) \in 0..255
<1>1. s.color[Red] \in 0..255 /\ s.color[Green] \in 0..255 /\ s.color[Blue] \in 0..255
  BY DEF LightState, Part, Red, Green, Blue
<1>2. \A r, g, b \in 0..255 : (77 * r + 150 * g + 29 * b) \div 256 \in 0..255
  OBVIOUS
<1>3. rgb_to_brightness(s) \in 0..255
  BY <1>1, <1>2 DEF rgb_to_brightness
<1> QED BY <1>3 DEF FileValue

\* What is kept and what is shown are states of a light.
LEMMA StatesAre ==
  /\ Off \in LightState
  /\ \A l, s : s \in LightState => Kept(l, s) \in LightState
  /\ \A ls : ls \in [Speaker -> LightState] => TheMostImportant(ls) \in LightState
<1>1. Off \in LightState
  BY DEF Off, LightState, Part
<1>2. ASSUME NEW l, NEW s \in LightState PROVE Kept(l, s) \in LightState
  <2>1. [s EXCEPT !.color = Off.color] \in LightState
    BY DEF Off, LightState
  <2> QED BY <2>1 DEF Kept
<1>3. ASSUME NEW ls \in [Speaker -> LightState] PROVE TheMostImportant(ls) \in LightState
  BY DEF TheMostImportant, Speaker
<1> QED BY <1>1, <1>2, <1>3

\* The parts of the LED and their order.
LEMMA Parts == /\ Part = {1, 2, 3} /\ Red = 1 /\ Blue = 3
               /\ \A p \in Part : p # Blue => p + 1 \in Part
BY DEF Part, Red, Blue

LEMMA LightsInitHolds == LightsInit => LightsInv
<1> SUFFICES ASSUME LightsInit PROVE LightsInv
  OBVIOUS
<1>1. LightsTypeOK
  BY StatesAre, Parts DEF LightsInit, LightsTypeOK, Place, Speaker, Panel, Part, Red, Blue
<1>2. LockInv
  BY LightsAssumption DEF LightsInit, LockInv, Holding
<1>3. \A c \in Part : Shown(c)
  BY DEF LightsInit, Shown
<1>4. top = Off
  BY DEF LightsInit, top, TheMostImportant, Speaker, is_lit
<1>5. ~Flashes(Off)
  BY DEF Flashes, Off
<1>6. \A c \in Part : Blinks(c)
  BY <1>4, <1>5 DEF Blinks
<1>7. ShowInv
  BY <1>3, <1>6 DEF LightsInit, ShowInv
<1> QED BY <1>1, <1>2, <1>7 DEF LightsInv

-------------------------------------------------------------------------------
\* Type correctness, one action at a time.
LEMMA LightsTypeStep ==
  ASSUME LightsTypeOK, NEW t \in Thread, Step(t)
  PROVE  LightsTypeOK'
<1>1. CASE OpenFirst(t)
  BY <1>1 DEF LightsTypeOK, OpenFirst, To, Place
<1>2. ASSUME NEW l \in Light, init_globals(t, l) \/ open_lights(t, l) PROVE LightsTypeOK'
  BY <1>2 DEF LightsTypeOK, init_globals, open_lights, To, Place
<1>3. CASE close_lights(t)
  BY <1>3 DEF LightsTypeOK, close_lights, To, Place
<1>4. ASSUME NEW s \in State, set_light(t, s) PROVE LightsTypeOK'
  BY <1>4, LightsAssumption DEF LightsTypeOK, set_light, To, Place
<1>5. CASE SetSpeaker(t)
  <2>1. lights' \in [Speaker -> LightState]
    BY <1>5, StatesAre DEF LightsTypeOK, SetSpeaker
  <2>2. cur' \in [Thread -> LightState]
    BY <1>5, <2>1, StatesAre DEF LightsTypeOK, SetSpeaker
  <2> QED BY <1>5, <2>1, <2>2, Parts DEF LightsTypeOK, SetSpeaker, To, takes, Place
<1>6. CASE WriteColour(t)
  <2>1. cur[t].color[at[t]] \in 0..255
    BY DEF LightsTypeOK, LightState
  <2>2. led' \in [Part -> 0..255] /\ stale' \subseteq Part
    BY <1>6, <2>1 DEF LightsTypeOK, WriteColour
  <2>3. at' \in [Thread -> Part] /\ pc' \in [Thread -> Place]
    BY <1>6, Parts DEF LightsTypeOK, WriteColour, To, AfterColour, Place
  <2> QED BY <1>6, <2>2, <2>3 DEF LightsTypeOK, WriteColour
<1>7. CASE WriteBlink(t)
  <2>1. blink' \in [Part -> BOOLEAN] /\ dim' \subseteq Part
    <3>1. at[t] \in Part
      BY DEF LightsTypeOK
    <3>2. blink' = blink \/ blink' = [blink EXCEPT ![at[t]] = TRUE]
      BY <1>7 DEF WriteBlink
    <3>3. dim' = dim \/ dim' = dim \cup {at[t]}
      BY <1>7 DEF WriteBlink
    <3> QED BY <3>1, <3>2, <3>3 DEF LightsTypeOK
  <2>2. at' \in [Thread -> Part] /\ pc' \in [Thread -> Place]
    BY <1>7, Parts DEF LightsTypeOK, WriteBlink, To, Place
  <2> QED BY <1>7, <2>1, <2>2 DEF LightsTypeOK, WriteBlink
<1>8. CASE LockFile(t)
  BY <1>8 DEF LightsTypeOK, LockFile, To, takes, Place
<1>9. CASE WriteFile(t)
  <2>1. FileValue(device[t], cur[t]) \in 0..255
    BY BrightnessIsByte DEF LightsTypeOK
  <2> QED BY <1>9, <2>1 DEF LightsTypeOK, WriteFile, To, Place
<1>10. CASE Unlock(t)
  BY <1>10, StatesAre, Parts DEF LightsTypeOK, Unlock, To, Place
<1> QED BY <1>1, <1>2, <1>3, <1>4, <1>5, <1>6, <1>7, <1>8, <1>9, <1>10 DEF Step

\* The mutex.  Only init_globals could take it from its holder, and nobody holds
\* it then, as no device is open.
LEMMA LockStep ==
  ASSUME LightsTypeOK, LockInv, NEW t \in Thread, Step(t)
  PROVE  LockInv'
<1>1. CASE OpenFirst(t)
  BY <1>1 DEF LightsTypeOK, LockInv, Holding, OpenFirst, once, Goes, To
<1>2. ASSUME NEW l \in Light, init_globals(t, l) PROVE LockInv'
  <2>1. \A u \in Thread : pc[u] \notin Holding /\ (u # t => pc[u] = "new")
    BY <1>2 DEF LockInv, Holding, init_globals, Goes
  <2> QED BY <1>2, <2>1, LightsAssumption DEF LightsTypeOK, LockInv, Holding, init_globals, To
<1>3. ASSUME NEW l \in Light, open_lights(t, l) PROVE LockInv'
  BY <1>3 DEF LightsTypeOK, LockInv, Holding, open_lights, Goes, To
<1>4. CASE close_lights(t)
  BY <1>4 DEF LightsTypeOK, LockInv, Holding, close_lights, Goes, To
<1>5. ASSUME NEW s \in State, set_light(t, s) PROVE LockInv'
  BY <1>5 DEF LightsTypeOK, LockInv, Holding, set_light, Goes, To
<1>6. CASE SetSpeaker(t) \/ LockFile(t)
  BY <1>6, LightsAssumption DEF LightsTypeOK, LockInv, Holding, SetSpeaker, LockFile, Goes, To, takes
<1>7. CASE WriteColour(t) \/ WriteBlink(t) \/ WriteFile(t)
  <2>1. /\ pc[t] \in Holding /\ UNCHANGED <<g_init, g_lock>>
        /\ \E p \in Holding : pc' = [pc EXCEPT ![t] = p]
    BY <1>7 DEF LightsTypeOK, Holding, WriteColour, WriteBlink, WriteFile, AfterColour, Goes, To
  <2> QED BY <2>1 DEF LightsTypeOK, LockInv, Holding
<1>8. CASE Unlock(t)
  BY <1>8, LightsAssumption DEF LightsTypeOK, LockInv, Holding, Unlock, Goes, To
<1> QED BY <1>1, <1>2, <1>3, <1>4, <1>5, <1>6, <1>7, <1>8 DEF Step

\* While t writes, nobody else does.
LEMMA OneWriter ==
  ASSUME LockInv, NEW t \in Thread, NEW u \in Thread, pc[t] \in Holding, pc[u] \in Holding
  PROVE  t = u
BY DEF LockInv

\* A step of t that touches neither the LED nor the lights, and after which t is
\* no writer if it was none.
LEMMA QuietStep ==
  ASSUME LightsTypeOK, ShowInv, NEW t \in Thread, NEW p \in Place \ {"write", "blink"},
         pc' = [pc EXCEPT ![t] = p], pc[t] \notin {"write", "blink"},
         UNCHANGED <<lights, led, blink, stale, dim>>,
         \A u \in Thread \ {t} : cur'[u] = cur[u] /\ at'[u] = at[u]
  PROVE  ShowInv'
<1>1. UNCHANGED top /\ \A c \in Part : (Shown(c)' <=> Shown(c)) /\ (Blinks(c)' <=> Blinks(c))
  BY DEF top, Shown, Blinks
<1>2. pc'[t] = p /\ \A u \in Thread \ {t} : pc'[u] = pc[u]
  BY DEF LightsTypeOK
<1> QED BY <1>1, <1>2 DEF ShowInv

\* The colours: the part that was written is shown or stale, those before it
\* stay as they are.
LEMMA ColourStep ==
  ASSUME LightsTypeOK, LockInv, ShowInv, NEW t \in Thread, WriteColour(t)
  PROVE  ShowInv'
<1> DEFINE a == at[t]
<1>1. pc[t] = "write" /\ cur[t] = top /\ a \in Part /\ UNCHANGED <<top, cur>>
  BY DEF WriteColour, Goes, ShowInv, LightsTypeOK, top
<1>2. \A u \in Thread \ {t} : pc'[u] = pc[u] /\ pc'[u] \notin {"write", "blink"}
  BY <1>1, OneWriter DEF WriteColour, To, LightsTypeOK, Holding
<1>3. \A c \in Part : c # a => (c \in stale' <=> c \in stale) /\ led'[c] = led[c]
  BY DEF WriteColour, LightsTypeOK
<1>4. a \in stale' \/ led'[a] = top.color[a]
  BY <1>1 DEF WriteColour, LightsTypeOK
<1>5. \A c \in Part : c <= a => Shown(c)'
  <2> SUFFICES ASSUME NEW c \in Part, c <= a, c \notin stale'
               PROVE  led'[c] = top.color[c]
    BY <1>1 DEF Shown
  <2>1. CASE c = a BY <1>4, <2>1
  <2>2. CASE c # a
    <3>1. c < a
      BY <1>1, <2>2, Parts
    <3>2. Shown(c)
      BY <1>1, <3>1 DEF ShowInv
    <3> QED BY <1>3, <2>2, <3>2 DEF Shown
  <2> QED BY <2>1, <2>2
<1>6. CASE a = Blue
  <2>1. \A c \in Part : Shown(c)' /\ ~ (c < Red)
    BY <1>5, <1>6, Parts
  <2>2. at'[t] = Red /\ pc'[t] = IF Flashes(top) THEN "blink" ELSE "unlock"
    BY <1>1, <1>6 DEF WriteColour, To, AfterColour, LightsTypeOK
  <2>3. ~Flashes(top) => \A c \in Part : Blinks(c)'
    BY <1>1 DEF Blinks
  <2> QED BY <1>1, <1>2, <2>1, <2>2, <2>3 DEF ShowInv
<1>7. CASE a # Blue
  <2>1. at'[t] = a + 1 /\ pc'[t] = "write"
    BY <1>1, <1>7 DEF WriteColour, LightsTypeOK
  <2>2. \A c \in Part : c < a + 1 => c <= a
    BY <1>1, Parts
  <2> QED BY <1>1, <1>2, <1>5, <2>1, <2>2 DEF ShowInv
<1> QED BY <1>6, <1>7

\* The blink files: a part that is lit blinks from here on or is dim.
LEMMA BlinkStep ==
  ASSUME LightsTypeOK, LockInv, ShowInv, NEW t \in Thread, WriteBlink(t)
  PROVE  ShowInv'
<1> DEFINE a == at[t]
<1>1. pc[t] = "blink" /\ cur[t] = top /\ a \in Part /\ UNCHANGED <<top, cur>>
  BY DEF WriteBlink, Goes, ShowInv, LightsTypeOK, top
<1>2. \A u \in Thread \ {t} : pc'[u] = pc[u] /\ pc'[u] \notin {"write", "blink"}
  BY <1>1, OneWriter DEF WriteBlink, To, LightsTypeOK, Holding
<1>3. \A c \in Part : Shown(c)'
  BY <1>1 DEF WriteBlink, ShowInv, Shown
<1>4. top.color[a] = 0 \/ a \in dim' \/ blink'[a]
  BY <1>1 DEF WriteBlink, LightsTypeOK
<1>5. \A c \in Part : (blink[c] => blink'[c]) /\ (c \in dim => c \in dim')
  <2>1. (blink' = blink \/ blink' = [blink EXCEPT ![a] = TRUE]) /\ dim \subseteq dim'
    BY DEF WriteBlink
  <2> QED BY <2>1 DEF LightsTypeOK
<1>6. \A c \in Part : c <= a => Blinks(c)'
  <2> SUFFICES ASSUME NEW c \in Part, c <= a, Flashes(top), top.color[c] # 0, c \notin dim'
               PROVE  blink'[c]
    BY <1>1 DEF Blinks
  <2>1. CASE c = a BY <1>4, <2>1
  <2>2. CASE c # a
    <3>1. c < a
      BY <1>1, <2>2, Parts
    <3>2. Blinks(c)
      BY <1>1, <3>1 DEF ShowInv
    <3> QED BY <1>5, <3>2 DEF Blinks
  <2> QED BY <2>1, <2>2
<1>7. CASE a = Blue
  <2>1. \A c \in Part : Blinks(c)'
    BY <1>6, <1>7, Parts
  <2>2. pc'[t] = "unlock"
    BY <1>1, <1>7 DEF WriteBlink, To, LightsTypeOK
  <2> QED BY <1>2, <1>3, <2>1, <2>2 DEF ShowInv
<1>8. CASE a # Blue
  <2>1. at'[t] = a + 1 /\ pc'[t] = "blink"
    BY <1>1, <1>8 DEF WriteBlink, LightsTypeOK
  <2>2. \A c \in Part : c < a + 1 => c <= a
    BY <1>1, Parts
  <2> QED BY <1>1, <1>2, <1>3, <1>6, <2>1, <2>2 DEF ShowInv
<1> QED BY <1>7, <1>8

\* What is shown, whatever the step.
LEMMA ShowStep ==
  ASSUME LightsTypeOK, LockInv, ShowInv, NEW t \in Thread, Step(t)
  PROVE  ShowInv'
<1>1. CASE \/ OpenFirst(t) \/ close_lights(t) \/ LockFile(t) \/ WriteFile(t) \/ Unlock(t)
           \/ \E l \in Light : init_globals(t, l) \/ open_lights(t, l)
           \/ \E s \in State : set_light(t, s)
  <2>1. \E p \in Place \ {"write", "blink"} : pc' = [pc EXCEPT ![t] = p]
    BY <1>1 DEF OpenFirst, close_lights, LockFile, WriteFile, Unlock, init_globals, open_lights,
       set_light, To, Place
  <2>2. pc[t] \notin {"write", "blink"} /\ UNCHANGED <<lights, led, blink, stale, dim>>
    BY <1>1 DEF OpenFirst, close_lights, LockFile, WriteFile, Unlock, init_globals, open_lights,
       set_light, Goes
  <2>3. \A u \in Thread \ {t} : cur'[u] = cur[u] /\ at'[u] = at[u]
    BY <1>1 DEF LightsTypeOK, OpenFirst, close_lights, LockFile, WriteFile, Unlock, init_globals,
       open_lights, set_light
  <2> QED BY <2>1, <2>2, <2>3, QuietStep
<1>2. CASE SetSpeaker(t)
  <2>1. \A u \in Thread : pc[u] \notin Holding
    BY <1>2, LightsAssumption DEF SetSpeaker, takes, LockInv
  <2>2. pc'[t] = "write" /\ cur'[t] = top' /\ at'[t] = Red
    BY <1>2 DEF SetSpeaker, To, top, LightsTypeOK
  <2>3. \A u \in Thread \ {t} : pc'[u] = pc[u]
    BY <1>2 DEF SetSpeaker, To, LightsTypeOK
  <2>4. \A c \in Part : ~ (c < Red)
    BY Parts
  <2> QED BY <2>1, <2>2, <2>3, <2>4 DEF ShowInv, Holding
<1>3. CASE WriteColour(t) BY <1>3, ColourStep
<1>4. CASE WriteBlink(t) BY <1>4, BlinkStep
<1> QED BY <1>1, <1>2, <1>3, <1>4 DEF Step

\* The invariant holds in every reachable state.
LEMMA LightsInductive == LightsSpec => []LightsInv
<1>1. LightsInv /\ [LightsNext]_lightsVars => LightsInv'
  <2> SUFFICES ASSUME LightsInv, [LightsNext]_lightsVars PROVE LightsInv'
    OBVIOUS
  <2>1. CASE LightsNext
    BY <2>1, LightsTypeStep, LockStep, ShowStep DEF LightsNext, LightsInv
  <2>2. CASE UNCHANGED lightsVars
    BY <2>2 DEF lightsVars, LightsInv, LightsTypeOK, LockInv, ShowInv, Shown, Blinks, top
  <2> QED BY <2>1, <2>2
<1> QED BY LightsInitHolds, <1>1, PTL DEF LightsSpec

-------------------------------------------------------------------------------
\* Type correctness; no brightness exceeds a byte (rgb_to_brightness).
THEOREM LightsTypeCorrect == LightsSpec => []LightsTypeOK
BY LightsInductive, PTL DEF LightsInv

\* pthread_once and g_lock: the files of the LED have one writer at a time.
THEOREM WritersExclude ==
  LightsSpec => [](\A t, u \in Thread : pc[t] \in Holding /\ pc[u] \in Holding => t = u)
<1>1. LightsInv => \A t, u \in Thread : pc[t] \in Holding /\ pc[u] \in Holding => t = u
  BY OneWriter DEF LightsInv
<1> QED BY LightsInductive, <1>1, PTL

\* set_speaker_light_locked under g_lock: whoever set the lights and in
\* whatever order, the LED shows the most important one.
THEOREM LedSound == LightsSpec => []ShowsMostImportant
<1>1. LightsInv => ShowsMostImportant
  <2> SUFFICES ASSUME LightsInv, g_lock = Nobody
               PROVE  \A c \in Part : Shown(c) /\ Blinks(c)
    BY DEF ShowsMostImportant, Shown, Blinks, top
  <2>1. \A t \in Thread : pc[t] \notin Holding
    BY LightsAssumption DEF LightsInv, LockInv
  <2> QED BY <2>1 DEF LightsInv, ShowInv, Holding
<1> QED BY LightsInductive, <1>1, PTL

-------------------------------------------------------------------------------
(* The camera wrapper.                                                     *)
(*                                                                         *)
(* StringsInv says why no string is freed twice or lost: one camera is     *)
(* open at most, the table is the one its open allocated, it holds the     *)
(* string of that camera only, and that string is all that is allocated.   *)
(* SceneInv says what the vendor was given, or is about to be, and that    *)
(* only a back camera that took HDR photos carries the capture mode HDR.   *)

StringsInv ==
  /\ ~fault
  /\ \A c, d \in dev : c = d
  /\ \A c \in Camera : tmp[c] # Null => c \in dev /\ tmp[c] = fixed_set_params[c]
  /\ dev # {} => fixed_set_params # Null
  /\ \A c \in dev : /\ \A d \in Camera : d # c => fixed_set_params[d] = Null
                    /\ fixed_set_params[c] # Null => live = {fixed_set_params[c]}
                    /\ fixed_set_params[c] = Null => live = {}
  /\ dev = {} => live = {}

\* The capture mode HDR in parameters p of camera c comes from a photo.
Carries(c, p) == p.capture = "hdr" => c = Back /\ c \in hdrPhotos

\* A string for the vendor, made from parameters with what is asked for.
Made(c, string) ==
  \E p \in Params : /\ string = camera_fixup_setparams(c, p)
                    /\ Carries(c, p)
                    /\ p.scene = asked[c].scene
                    /\ p.video = asked[c].video

SceneInv ==
  /\ \A c \in Camera : /\ Carries(c, given[c]) /\ Carries(c, read[c])
                       /\ c \notin dev => taken[c] = Unset
                       /\ tmp[c] # Null => asked[c] \in Choice /\ Made(c, text[tmp[c]])
  /\ SceneReadBack

CameraInv == TypeOK /\ (~overlapped => StringsInv /\ SceneInv)

-------------------------------------------------------------------------------
\* The parameters stay parameters on their way in and out.
LEMMA FixupsTyped ==
  ASSUME NEW p \in Params
  PROVE  /\ \A id \in Camera : camera_fixup_setparams(id, p) \in Params
         /\ camera_fixup_getparams(p) \in Params
BY DEF Params, camera_fixup_setparams, camera_fixup_getparams

\* HDR is hidden from the vendor and restored for the application, except that
\* a recording keeps the capture mode it was given.
LEMMA FixupsAgree ==
  ASSUME NEW p \in Params, NEW id \in Camera, p.scene # "off"
  PROVE  \/ camera_fixup_getparams(camera_fixup_setparams(id, p)).scene = p.scene
         \/ p.capture = "hdr" /\ (p.video \/ id # Back)
BY DEF Params, camera_fixup_setparams, camera_fixup_getparams

\* Where the capture mode the vendor is told comes from.
LEMMA CaptureFrom ==
  ASSUME NEW p \in Params, NEW id \in Camera,
         camera_fixup_setparams(id, p).capture = "hdr"
  PROVE  \/ p.capture = "hdr" /\ (p.video \/ id # Back)
         \/ id = Back /\ ~p.video /\ p.scene = "hdr"
BY DEF Params, camera_fixup_setparams

\* Reading leaves the capture mode as it is.
LEMMA ReadKeepsCapture ==
  ASSUME NEW p \in Params
  PROVE  camera_fixup_getparams(p).capture = p.capture
BY DEF Params, camera_fixup_getparams

\* A new table is a table.
LEMMA NewTable == newTable \in [Camera -> Str \cup {Null}] /\ newTable # Null
BY CameraAssumption DEF newTable

LEMMA CameraInitHolds == Init => CameraInv
<1>1. Default \in Params
  BY DEF Default, Params
<1> SUFFICES ASSUME Init PROVE CameraInv
  OBVIOUS
<1>2. TypeOK /\ StringsInv
  BY <1>1, CameraAssumption DEF Init, TypeOK, StringsInv
<1>3. Default.capture # "hdr"
  BY DEF Default
<1>4. SceneInv
  BY <1>3 DEF Init, SceneInv, SceneReadBack, Carries
<1> QED BY <1>2, <1>4 DEF CameraInv

\* Opening: while a camera is open it makes overlapped true, and all the
\* promises void; while none is, the table is new and nothing is allocated.
LEMMA OpenStep ==
  ASSUME CameraInv,
         \/ OpenWithoutTable
         \/ \E id \in 0 .. NumCameras + 1 : OpenFails(id)
         \/ \E id \in Camera : Open(id) \/ OpenLosesVendor(id)
  PROVE  CameraInv'
<1>1. CASE OpenWithoutTable
  <2>1. TypeOK'
    BY <1>1 DEF CameraInv, TypeOK, OpenWithoutTable, calls
  <2>2. ~overlapped' => ~overlapped /\ dev = {} /\ dev' = {}
    BY <1>1 DEF OpenWithoutTable
  <2>3. ~overlapped' => StringsInv' /\ SceneInv'
    BY <1>1, <2>2 DEF CameraInv, OpenWithoutTable, StringsInv, SceneInv, SceneReadBack,
                         Carries, Made, calls
  <2> QED BY <2>1, <2>3 DEF CameraInv
<1>2. ASSUME NEW id \in 0 .. NumCameras + 1, OpenFails(id) PROVE CameraInv'
  <2>1. TypeOK'
    BY <1>2 DEF CameraInv, TypeOK, OpenFails, Attempt, newTable, calls
  <2>2. ~overlapped' => ~overlapped /\ dev = {} /\ dev' = {}
    BY <1>2 DEF OpenFails, Attempt
  <2>3. ~overlapped' => StringsInv' /\ SceneInv'
    BY <1>2, <2>2 DEF CameraInv, OpenFails, Attempt, StringsInv, SceneInv, SceneReadBack,
                         Carries, Made, calls
  <2> QED BY <2>1, <2>3 DEF CameraInv
<1>3. ASSUME NEW id \in Camera, Open(id) PROVE CameraInv'
  <2>1. TypeOK'
    BY <1>3, NewTable DEF CameraInv, TypeOK, Open, Attempt, calls
  <2>2. ~overlapped' => ~overlapped /\ dev = {} /\ dev' = {id}
    BY <1>3 DEF Open, Attempt
  <2>3. ~overlapped' => StringsInv'
    <3>1. fixed_set_params' # Null /\ \A d \in Camera : fixed_set_params'[d] = Null
      BY <1>3, NewTable DEF Open, Attempt, newTable
    <3> QED BY <1>3, <2>2, <3>1 DEF CameraInv, Open, Attempt, StringsInv
  <2>4. ~overlapped' => SceneInv'
    BY <1>3, <2>2 DEF CameraInv, Open, Attempt, StringsInv, SceneInv, SceneReadBack,
                      Carries, Made, calls
  <2> QED BY <2>1, <2>3, <2>4 DEF CameraInv
<1>4. ASSUME NEW id \in Camera, OpenLosesVendor(id) PROVE CameraInv'
  <2>1. TypeOK'
    BY <1>4 DEF CameraInv, TypeOK, OpenLosesVendor, Attempt, newTable, calls
  <2>2. ~overlapped' => ~overlapped /\ dev = {} /\ dev' = {}
    BY <1>4 DEF OpenLosesVendor, Attempt
  <2>3. ~overlapped' => StringsInv' /\ SceneInv'
    BY <1>4, <2>2 DEF CameraInv, OpenLosesVendor, Attempt, StringsInv, SceneInv, SceneReadBack,
                         Carries, Made, calls
  <2> QED BY <2>1, <2>3 DEF CameraInv
<1> QED BY <1>1, <1>2, <1>3, <1>4

\* Closing the one open camera frees its string, the only one.
LEMMA CloseStep ==
  ASSUME CameraInv, NEW id \in Camera, Close(id)
  PROVE  CameraInv'
<1>1. TypeOK'
  <2>1. Default \in Params
    BY DEF Default, Params
  <2>2. text' \in [Str -> Params]
    BY <2>1 DEF CameraInv, TypeOK, Close
  <2>3. live' \subseteq Str /\ dev' \subseteq Camera /\ vendor' \subseteq Camera /\ dev' \subseteq vendor'
    BY DEF CameraInv, TypeOK, Close
  <2>4. /\ taken' \in [Camera -> Choice \cup {Unset}] /\ hdrPhotos' \subseteq Camera
        /\ given' \in [Camera -> Params] /\ read' \in [Camera -> Params]
    BY <2>1 DEF CameraInv, TypeOK, Close
  <2>5. fault' \in BOOLEAN
    BY DEF Close
  <2> QED BY <2>2, <2>3, <2>4, <2>5 DEF CameraInv, TypeOK, Close
<1>2. ASSUME ~overlapped PROVE StringsInv' /\ SceneInv'
  <2>1. StringsInv /\ dev = {id}
    BY <1>2 DEF CameraInv, StringsInv, Close
  <2>2. slots \subseteq {id} /\ stringsFreed = live
    BY <2>1 DEF StringsInv, slots, stringsFreed
  <2>3. ~fault' /\ live' = {} /\ dev' = {}
    BY <2>1, <2>2 DEF Close
  <2>4. \A c \in Camera : tmp'[c] = Null
    BY <2>1 DEF Close, StringsInv
  <2>5. /\ \A c \in Camera : taken'[c] = Unset
        /\ given'[id] = Default /\ read'[id] = Default
        /\ \A c \in Camera \ {id} : /\ given'[c] = given[c] /\ read'[c] = read[c]
                                    /\ c \in hdrPhotos' <=> c \in hdrPhotos
    BY <1>2, <2>1 DEF Close, SceneInv, CameraInv, TypeOK
  <2>6. \A c \in Camera : Carries(c, given[c])' /\ Carries(c, read[c])'
    <3>1. Default.capture # "hdr"
      BY DEF Default
    <3>2. \A c \in Camera : Carries(c, given[c]) /\ Carries(c, read[c])
      BY <1>2 DEF CameraInv, SceneInv
    <3> SUFFICES ASSUME NEW c \in Camera
                 PROVE  /\ given'[c].capture = "hdr" => c = Back /\ c \in hdrPhotos'
                        /\ read'[c].capture = "hdr" => c = Back /\ c \in hdrPhotos'
      BY DEF Carries
    <3>3. CASE c = id
      BY <2>5, <3>1, <3>3
    <3>4. CASE c # id
      BY <2>5, <3>2, <3>4 DEF Carries
    <3> QED BY <3>3, <3>4
  <2>7. StringsInv'
    BY <2>3, <2>4 DEF StringsInv
  <2>8. SceneReadBack'
    BY <2>3 DEF SceneReadBack
  <2>9. SceneInv'
    BY <2>4, <2>5, <2>6, <2>8 DEF SceneInv, Carries, Made
  <2> QED BY <2>7, <2>9
<1> QED BY <1>1, <1>2 DEF CameraInv, Close

\* A new string takes the place of the old one and is all that is allocated.
LEMMA SetStep ==
  ASSUME CameraInv, NEW id \in Camera, NEW choice \in Choice, SetParameters(id, choice)
  PROVE  CameraInv'
<1> DEFINE old == fixed_set_params[id]
           p == [read[id] EXCEPT !.scene = choice.scene, !.video = choice.video]
<1>1. /\ p \in Params /\ p.scene = choice.scene /\ p.video = choice.video
      /\ p.capture = read[id].capture /\ camera_fixup_setparams(id, p) \in Params
  <2>1. /\ p \in Params /\ p.scene = choice.scene /\ p.video = choice.video
        /\ p.capture = read[id].capture
    BY DEF CameraInv, TypeOK, Params, Choice
  <2> QED BY <2>1, FixupsTyped
<1>2. PICK s \in (Str \ live) \cup ({old} \ {Null}) :
        /\ live' = (live \ {old}) \cup {s}
        /\ text' = [r \in Str |-> IF r = s THEN camera_fixup_setparams(id, p)
                                ELSE IF r \in live' THEN text[r] ELSE Default]
        /\ fixed_set_params' = [fixed_set_params EXCEPT ![id] = s]
        /\ tmp' = [tmp EXCEPT ![id] = s]
  BY DEF SetParameters
<1>3. /\ fixed_set_params \in [Camera -> Str \cup {Null}] /\ s \in Str /\ s # Null
      /\ asked' = [asked EXCEPT ![id] = choice]
      /\ fault' = (old # Null /\ old \notin live)
      /\ id \in dev
      /\ UNCHANGED <<gVendorModule, dev, vendor, taken, hdrPhotos, given, read, overlapped>>
  BY <1>2, CameraAssumption DEF SetParameters, CameraInv, TypeOK
<1>4. TypeOK'
  <2>1. Default \in Params
    BY DEF Default, Params
  <2>2. text' \in [Str -> Params]
    BY <1>1, <1>2, <2>1 DEF CameraInv, TypeOK
  <2>3. /\ fixed_set_params' \in [Camera -> Str \cup {Null}]
        /\ tmp' \in [Camera -> Str \cup {Null}] /\ live' \subseteq Str
        /\ asked' \in [Camera -> Choice \cup {Unset}]
    BY <1>1, <1>2, <1>3 DEF CameraInv, TypeOK
  <2>4. fixed_set_params' # Null
    BY <2>3, CameraAssumption
  <2> QED BY <1>3, <2>2, <2>3, <2>4 DEF CameraInv, TypeOK
<1>5. ASSUME ~overlapped PROVE StringsInv' /\ SceneInv'
  <2>1. StringsInv /\ SceneInv /\ dev = {id}
    BY <1>3, <1>5 DEF CameraInv, StringsInv
  <2>2. /\ fixed_set_params'[id] = s /\ tmp'[id] = s /\ asked'[id] = choice
        /\ \A d \in Camera \ {id} : /\ fixed_set_params'[d] = fixed_set_params[d]
                                    /\ tmp'[d] = tmp[d] /\ asked'[d] = asked[d]
    BY <1>2, <1>3 DEF CameraInv, TypeOK
  <2>3. live' = {s} /\ ~fault'
    BY <1>2, <1>3, <2>1 DEF StringsInv
  <2>4. StringsInv'
    <3>1. fixed_set_params' # Null
      BY <1>2, <1>3, CameraAssumption
    <3>2. \A c \in Camera : tmp'[c] # Null => c = id
      BY <2>1, <2>2 DEF StringsInv
    <3>3. \A d \in Camera : d # id => fixed_set_params'[d] = Null
      BY <2>1, <2>2 DEF StringsInv
    <3>5. dev' = {id}
      BY <1>3, <2>1
    <3> QED BY <1>3, <2>2, <2>3, <3>1, <3>2, <3>3, <3>5 DEF StringsInv
  <2>5. text'[s] = camera_fixup_setparams(id, p)
    BY <1>2, <1>3
  <2>6. Made(id, text[tmp[id]])'
    <3>1. PICK q \in Params : q = p
      BY <1>1
    <3>2. q.capture = "hdr" => id = Back /\ id \in hdrPhotos'
      BY <1>1, <1>3, <2>1, <3>1 DEF SceneInv, Carries
    <3>3. q.scene = asked'[id].scene /\ q.video = asked'[id].video
      BY <1>1, <2>2, <3>1
    <3>4. text'[tmp'[id]] = camera_fixup_setparams(id, q)
      BY <2>2, <2>5, <3>1
    <3> QED BY <3>2, <3>3, <3>4 DEF Made, Carries
  <2>7. \A c \in Camera : tmp'[c] # Null => c = id
    BY <2>1, <2>2 DEF StringsInv
  <2>8. SceneReadBack'
    BY <1>3, <2>1 DEF SceneInv, SceneReadBack
  <2>9. \A c \in Camera : /\ Carries(c, given[c])' /\ Carries(c, read[c])'
                          /\ c \notin dev' => taken'[c] = Unset
    BY <1>3, <2>1 DEF SceneInv, Carries
  <2>10. \A c \in Camera : tmp'[c] # Null => asked'[c] \in Choice /\ Made(c, text[tmp[c]])'
    BY <2>2, <2>6, <2>7
  <2>11. SceneInv'
    BY <2>8, <2>9, <2>10 DEF SceneInv
  <2> QED BY <2>4, <2>11
<1> QED BY <1>3, <1>4, <1>5 DEF CameraInv

\* The vendor reads the string that is allocated, and accepts or refuses it.
LEMMA VendorStep ==
  ASSUME CameraInv, NEW id \in Camera, VendorSets(id) \/ VendorRefuses(id)
  PROVE  CameraInv'
<1>1. /\ Returns(id)
      /\ text[tmp[id]] \in Params
  <2>1. Returns(id)
    BY DEF VendorSets, VendorRefuses
  <2> QED BY <2>1 DEF CameraInv, TypeOK, Returns
<1>2. TypeOK'
  BY <1>1 DEF CameraInv, TypeOK, Returns, VendorSets, VendorRefuses
<1>3. ASSUME ~overlapped PROVE StringsInv' /\ SceneInv'
  <2>1. StringsInv /\ SceneInv /\ dev = {id} /\ tmp[id] = fixed_set_params[id] /\ tmp[id] # Null
    BY <1>1, <1>3 DEF CameraInv, StringsInv, Returns
  <2>2. /\ tmp'[id] = Null
        /\ \A c \in Camera \ {id} : tmp'[c] = tmp[c] /\ tmp[c] = Null
        /\ dev' = {id}
    BY <1>1, <2>1 DEF CameraInv, TypeOK, StringsInv, Returns
  <2>3. StringsInv'
    BY <1>1, <2>1, <2>2 DEF StringsInv, Returns
  <2>4. CASE VendorRefuses(id)
    <3>1. SceneReadBack' /\ UNCHANGED <<given, read, taken, hdrPhotos, dev>>
      BY <1>1, <2>1, <2>4 DEF SceneInv, SceneReadBack, VendorRefuses, Returns
    <3> QED BY <2>1, <2>2, <2>3, <3>1 DEF SceneInv, Carries
  <2>5. CASE VendorSets(id)
    <3>1. asked[id] \in Choice /\ Made(id, text[tmp[id]])
      BY <2>1 DEF SceneInv
    <3>2. PICK p \in Params : /\ text[tmp[id]] = camera_fixup_setparams(id, p)
                              /\ Carries(id, p)
                              /\ p.scene = asked[id].scene /\ p.video = asked[id].video
      BY <3>1 DEF Made
    <3>3. /\ given'[id] = camera_fixup_setparams(id, p) /\ taken'[id] = asked[id]
          /\ \A c \in Camera \ {id} : given'[c] = given[c] /\ taken'[c] = taken[c]
          /\ hdrPhotos \subseteq hdrPhotos'
          /\ ~p.video /\ p.scene = "hdr" => id \in hdrPhotos'
          /\ \A c \in Camera \ {id} : c \in hdrPhotos' <=> c \in hdrPhotos
      BY <2>5, <3>2 DEF VendorSets, CameraInv, TypeOK
    <3>4. UNCHANGED <<read, overlapped>>
      BY <1>1 DEF Returns
    <3>5. \A c \in Camera : Carries(c, given[c])' /\ Carries(c, read[c])'
      <4>1. \A c \in Camera : Carries(c, given[c]) /\ Carries(c, read[c])
        BY <2>1 DEF SceneInv
      <4>2. Carries(id, given[id])'
        BY <3>2, <3>3, CaptureFrom DEF Carries
      <4> QED BY <3>3, <3>4, <4>1, <4>2 DEF Carries
    <3>6. SceneReadBack'
      <4>1. \/ camera_fixup_getparams(given'[id]).scene = asked[id].scene
            \/ p.capture = "hdr" /\ (p.video \/ id # Back)
        BY <3>1, <3>2, <3>3, FixupsAgree DEF Choice
      <4> QED BY <2>2, <3>2, <3>3, <4>1 DEF SceneReadBack, Carries
    <3>7. \A c \in Camera \ dev' : taken'[c] = Unset
      BY <2>1, <2>2, <3>3 DEF SceneInv
    <3> QED BY <2>2, <2>3, <3>5, <3>6, <3>7 DEF SceneInv
  <2> QED BY <2>4, <2>5
<1> QED BY <1>1, <1>2, <1>3 DEF CameraInv, Returns

\* The steps that leave strings and parameters of the vendor alone.
LEMMA OtherStep ==
  ASSUME CameraInv, AskModule \/ \E id \in Camera : NullTable(id) \/ GetParameters(id)
  PROVE  CameraInv'
<1>1. CASE AskModule
  <2>1. /\ UNCHANGED <<dev, vendor, fixed_set_params, live, text, tmp, given, read,
                        overlapped, fault>>
        /\ UNCHANGED <<asked, taken, hdrPhotos>>
    BY <1>1 DEF AskModule, calls
  <2>2. TypeOK'
    <3>1. gVendorModule' \in BOOLEAN
      BY <1>1 DEF CameraInv, TypeOK, AskModule, check_vendor_module
    <3> QED BY <2>1, <3>1 DEF CameraInv, TypeOK
  <2>3. StringsInv => StringsInv'
    BY <2>1 DEF StringsInv
  <2>4. SceneInv => SceneInv'
    BY <2>1 DEF SceneInv, SceneReadBack, Carries, Made
  <2>5. overlapped' = overlapped
    BY <2>1
  <2> QED BY <2>2, <2>3, <2>4, <2>5 DEF CameraInv
<1>2. ASSUME NEW id \in Camera, NullTable(id) PROVE CameraInv'
  <2>1. overlapped
    BY <1>2 DEF CameraInv, StringsInv, NullTable
  <2> QED BY <1>2, <2>1 DEF CameraInv, TypeOK, NullTable, calls
<1>3. ASSUME NEW id \in Camera, GetParameters(id) PROVE CameraInv'
  <2>1. camera_fixup_getparams(given[id]) \in Params
    BY FixupsTyped DEF CameraInv, TypeOK
  <2>2. TypeOK'
    BY <1>3, <2>1 DEF CameraInv, TypeOK, GetParameters, calls
  <2>3. ASSUME ~overlapped PROVE SceneInv'
    <3>1. SceneInv
      BY <2>3 DEF CameraInv
    <3>2. /\ read'[id].capture = given[id].capture
          /\ \A c \in Camera \ {id} : read'[c] = read[c]
          /\ UNCHANGED <<dev, tmp, text, asked, taken, hdrPhotos, given, overlapped>>
      BY <1>3, ReadKeepsCapture DEF CameraInv, TypeOK, GetParameters, calls
    <3>3. SceneReadBack'
      BY <3>1, <3>2 DEF SceneInv, SceneReadBack
    <3>4. \A c \in Camera : Carries(c, given[c])' /\ Carries(c, read[c])'
      BY <3>1, <3>2 DEF SceneInv, Carries
    <3>5. \A c \in Camera : tmp'[c] # Null => asked'[c] \in Choice /\ Made(c, text[tmp[c]])'
      BY <3>1, <3>2 DEF SceneInv, Made, Carries
    <3> QED BY <3>1, <3>2, <3>3, <3>4, <3>5 DEF SceneInv
  <2> QED BY <1>3, <2>2, <2>3 DEF CameraInv, StringsInv, GetParameters
<1> QED BY <1>1, <1>2, <1>3

\* The invariant holds in every reachable state.
LEMMA CameraInductive == Spec => []CameraInv
<1>1. CameraInv /\ [Next]_vars => CameraInv'
  <2> SUFFICES ASSUME CameraInv, [Next]_vars PROVE CameraInv'
    OBVIOUS
  <2>1. CASE Next
    BY <2>1, OpenStep, CloseStep, SetStep, VendorStep, OtherStep DEF Next
  <2>2. CASE UNCHANGED vars
    BY <2>2 DEF vars, calls, CameraInv, TypeOK, StringsInv, SceneInv, SceneReadBack,
               Carries, Made
  <2> QED BY <2>1, <2>2
<1> QED BY CameraInitHolds, <1>1, PTL DEF Spec

-------------------------------------------------------------------------------
\* Type correctness; an open camera has the vendor's device and a table.
THEOREM CameraTypeCorrect == Spec => []TypeOK
BY CameraInductive, PTL DEF CameraInv

\* camera_device_open, camera_device_close and camera_fixup_setparams: whatever
\* fails, no string is freed twice, read after it was freed, or forgotten.
THEOREM StringsSound == Spec => []StringsAreSound
<1>1. CameraInv => StringsAreSound
  BY DEF CameraInv, StringsInv, StringsAreSound
<1> QED BY CameraInductive, <1>1, PTL

\* camera_fixup_setparams and camera_fixup_getparams, while no camera is opened
\* with another open: the scene mode of the last call the vendor accepted is read
\* back, HDR included, except in a recording after an HDR photo.
THEOREM SceneSound == Spec => []SceneReadBack
<1>1. CameraInv => SceneReadBack
  BY DEF CameraInv, SceneInv, SceneReadBack
<1> QED BY CameraInductive, <1>1, PTL
===============================================================================
