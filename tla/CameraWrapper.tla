----------------------------- MODULE CameraWrapper -----------------------------
(***************************************************************************)
(* The camera HAL wrapper (camera/CameraWrapper.cpp): a module that opens  *)
(* the vendor's camera module and forwards to it, rewriting the parameters *)
(* on their way in (camera_fixup_setparams) and out                        *)
(* (camera_fixup_getparams).  The string last given to the vendor is kept  *)
(* per camera in fixed_set_params, a table that every open allocates anew  *)
(* and every close frees the strings of, all of them.                      *)
(*                                                                         *)
(* open and close hold gCameraWrapperLock and are one action each;         *)
(* set_parameters holds no lock, so the string is made in one step and     *)
(* read by the vendor in another.  The camera service calls one function   *)
(* of a camera at a time and opens a camera only while it is closed; two   *)
(* cameras are independent of each other.  The vendor may refuse a string: *)
(* it then works on with what it had, and fixed_set_params keeps the       *)
(* refused string.                                                         *)
(*                                                                         *)
(* Strings are memory: Str is the set of addresses strdup can return, and  *)
(* a freed address may be returned again.  A free or a read of an address  *)
(* that is not allocated is undefined; the model stops there.              *)
(***************************************************************************)
EXTENDS Integers

CONSTANTS
  NumCameras,   \* cameras of the vendor's module; 0 faces back
  Str,          \* addresses of strings: a bound on how many are allocated
  Null,         \* the null pointer
  Unset         \* no parameters yet

Camera == 0 .. NumCameras - 1
Back == 0

\* The null pointer is neither a string nor a table.
ASSUME CameraAssumption ==
  /\ NumCameras \in Nat \ {0}
  /\ Null \notin Str
  /\ Null \notin [Camera -> Str \cup {Null}]

VARIABLES
  gVendorModule,     \* the vendor's module is loaded
  dev,               \* the cameras with a wrapper_camera_device_t
  vendor,            \* the cameras the vendor has open
  fixed_set_params,  \* the table, or Null before the first open
  live,              \* allocated strings
  text,              \* what is written at each address
  tmp,               \* the string camera_set_parameters is about to give to the vendor
  asked,             \* what the call of set_parameters that is under way asks for
  taken,             \* what the last call the vendor accepted asked for
  hdrPhotos,         \* the cameras that since they were opened were set to take photos in HDR
  given,             \* the parameters the vendor works with
  read,              \* what get_parameters last returned
  overlapped,        \* open was called while a camera was open
  fault              \* memory was used that is not allocated

vars == <<gVendorModule, dev, vendor, fixed_set_params, live, text, tmp,
          asked, taken, hdrPhotos, given, read, overlapped, fault>>

\* What is remembered of the calls of set_parameters.
calls == <<asked, taken, hdrPhotos>>

\* Of the parameters, those whose rewriting depends on each other: the recording
\* hint, the scene mode and the capture mode.
Params == [video: BOOLEAN, scene: {"auto", "hdr", "off"}, capture: {"normal", "hdr"}]
\* Of these, those an application chooses.
Choice == [video: BOOLEAN, scene: {"auto", "hdr"}]
Default == [video |-> FALSE, scene |-> "auto", capture |-> "normal"]

TypeOK ==
  /\ gVendorModule \in BOOLEAN
  /\ dev \subseteq Camera
  /\ vendor \subseteq Camera
  /\ fixed_set_params \in [Camera -> Str \cup {Null}] \cup {Null}
  /\ live \subseteq Str
  /\ text \in [Str -> Params]
  /\ tmp \in [Camera -> Str \cup {Null}]
  /\ asked \in [Camera -> Choice \cup {Unset}]
  /\ taken \in [Camera -> Choice \cup {Unset}]
  /\ hdrPhotos \subseteq Camera
  /\ given \in [Camera -> Params]
  /\ read \in [Camera -> Params]
  /\ overlapped \in BOOLEAN
  /\ fault \in BOOLEAN
  \* the wrapper of a camera has a vendor's device, and a table unless another open failed
  /\ dev \subseteq vendor
  /\ dev # {} /\ ~overlapped => fixed_set_params # Null

Init ==
  /\ gVendorModule = FALSE
  /\ dev = {}
  /\ vendor = {}
  /\ fixed_set_params = Null
  /\ live = {}
  /\ text = [s \in Str |-> Default]
  /\ tmp = [c \in Camera |-> Null]
  /\ asked = [c \in Camera |-> Unset]
  /\ taken = [c \in Camera |-> Unset]
  /\ hdrPhotos = {}
  /\ given = [c \in Camera |-> Default]
  /\ read = [c \in Camera |-> Default]
  /\ overlapped = FALSE
  /\ fault = FALSE

\* The calls of the service are independent of each other while memory is sound.
running == ~fault

\* Faulty variant: the capture mode is left as it was.
camera_fixup_setparams_sticky(id, p) ==
  IF p.video \/ id # Back THEN p
  ELSE IF p.scene = "hdr" THEN [p EXCEPT !.scene = "off", !.capture = "hdr"]
  ELSE p

\* What the vendor is told.
camera_fixup_setparams(id, p) ==
  IF p.video \/ id # Back THEN p
  ELSE IF p.scene = "hdr" THEN [p EXCEPT !.scene = "off", !.capture = "hdr"]
  ELSE [p EXCEPT !.capture = "normal"]

\* What the application reads.
camera_fixup_getparams(p) == IF p.capture = "hdr" THEN [p EXCEPT !.scene = "hdr"] ELSE p

\* check_vendor_module, which may fail until it succeeds once.
check_vendor_module == gVendorModule' \in {gVendorModule, TRUE}

\* camera_get_number_of_cameras and camera_get_camera_info, without the lock.
AskModule ==
  /\ running
  /\ check_vendor_module
  /\ UNCHANGED <<dev, vendor, fixed_set_params, live, text, tmp, calls, given, read,
                 overlapped, fault>>

\* Faulty variant: the table is allocated once.
newTableOnce ==
  IF fixed_set_params = Null THEN [c \in Camera |-> Null] ELSE fixed_set_params

\* The fresh table of camera_device_open.  It replaces the old one before the
\* id is looked at, whatever becomes of the open.
newTable == [c \in Camera |-> Null]

\* camera_device_open as far as every attempt gets: the table is new.
Attempt ==
  /\ running
  /\ gVendorModule' = TRUE
  /\ fixed_set_params' = newTable
  /\ overlapped' = (overlapped \/ dev # {})
  /\ UNCHANGED <<live, text, tmp, fault>>

\* Faulty variant: what the vendor's open returns is not looked at.
OpenUnchecked(id) ==
  /\ id \in Camera \ dev
  /\ Attempt
  /\ dev' = dev \cup {id}
  /\ vendor' \in {vendor, vendor \cup {id}}
  /\ UNCHANGED <<calls, given, read>>

\* The open succeeds.  The vendor opens what is its own and not open yet, and
\* starts from its default parameters.
Open(id) ==
  /\ id \in Camera \ vendor
  /\ Attempt
  /\ dev' = dev \cup {id}
  /\ vendor' = vendor \cup {id}
  /\ UNCHANGED <<calls, given, read>>

\* The open fails: the id is out of bounds (the wrapper lets NumCameras pass,
\* the vendor does not), the vendor refuses, or no memory for the wrapper.
OpenFails(id) ==
  /\ id \notin dev
  /\ Attempt
  /\ UNCHANGED <<dev, vendor, calls, given, read>>

\* No memory for the table: the pointer is null for every camera.
OpenWithoutTable ==
  /\ running
  /\ gVendorModule' = TRUE
  /\ fixed_set_params' = Null
  /\ overlapped' = (overlapped \/ dev # {})
  /\ UNCHANGED <<dev, vendor, live, text, tmp, calls, given, read, fault>>

\* The vendor has opened and there is no memory for the operations: the wrapper
\* is freed, the vendor's device stays open.
OpenLosesVendor(id) ==
  /\ id \in Camera \ vendor
  /\ Attempt
  /\ vendor' = vendor \cup {id}
  /\ UNCHANGED <<dev, calls, given, read>>

\* The slots camera_device_close frees, and the strings in them.
slots == {c \in Camera : fixed_set_params[c] # Null}
stringsFreed == {fixed_set_params[c] : c \in slots}

\* A call that uses the table where there is none.
NullTable(id) ==
  /\ running
  /\ id \in dev
  /\ tmp[id] = Null
  /\ fixed_set_params = Null
  /\ fault' = TRUE
  /\ UNCHANGED <<gVendorModule, dev, vendor, fixed_set_params, live, text, tmp, calls, given,
                 read, overlapped>>

\* camera_device_close.  The pointers stay in the table; what was kept of the
\* camera and of freed strings is forgotten.
Close(id) ==
  /\ running
  /\ id \in dev
  /\ tmp[id] = Null
  /\ fixed_set_params # Null
  /\ LET twice == \E c, d \in slots : c # d /\ fixed_set_params[c] = fixed_set_params[d]
     IN fault' = (twice \/ ~(stringsFreed \subseteq live))
  /\ live' = live \ stringsFreed
  /\ dev' = dev \ {id}
  /\ vendor' = vendor \ {id}
  /\ text' = [s \in Str |-> IF s \in live' THEN text[s] ELSE Default]
  /\ taken' = [taken EXCEPT ![id] = Unset]
  /\ hdrPhotos' = hdrPhotos \ {id}
  /\ given' = [given EXCEPT ![id] = Default]
  /\ read' = [read EXCEPT ![id] = Default]
  /\ UNCHANGED <<gVendorModule, fixed_set_params, tmp, asked, overlapped>>

\* camera_set_parameters up to the string of camera_fixup_setparams: the old
\* string is freed, the new one may get the same address.  The application
\* changes the scene mode and the recording hint of what it last read.
SetParameters(id, choice) ==
  /\ running
  /\ id \in dev
  /\ tmp[id] = Null
  /\ fixed_set_params # Null
  /\ LET old == fixed_set_params[id]
         p == [read[id] EXCEPT !.scene = choice.scene, !.video = choice.video]
     IN /\ fault' = (old # Null /\ old \notin live)
        /\ \E s \in (Str \ live) \cup ({old} \ {Null}) :
             /\ live' = (live \ {old}) \cup {s}
             /\ text' = [r \in Str |-> IF r = s THEN camera_fixup_setparams(id, p)
                                    ELSE IF r \in live' THEN text[r] ELSE Default]
             /\ fixed_set_params' = [fixed_set_params EXCEPT ![id] = s]
             /\ tmp' = [tmp EXCEPT ![id] = s]
        /\ asked' = [asked EXCEPT ![id] = choice]
  /\ UNCHANGED <<gVendorModule, dev, vendor, taken, hdrPhotos, given, read, overlapped>>

\* VENDOR_CALL(device, set_parameters, tmp): the vendor reads the string.
Returns(id) ==
  /\ running
  /\ tmp[id] # Null
  /\ fault' = (tmp[id] \notin live)
  /\ tmp' = [tmp EXCEPT ![id] = Null]
  /\ asked' = [asked EXCEPT ![id] = Unset]
  /\ UNCHANGED <<gVendorModule, dev, vendor, fixed_set_params, live, text, read, overlapped>>

\* The vendor accepts what it reads.
VendorSets(id) ==
  /\ Returns(id)
  /\ given' = [given EXCEPT ![id] = text[tmp[id]]]
  /\ taken' = [taken EXCEPT ![id] = asked[id]]
  /\ hdrPhotos' = IF ~asked[id].video /\ asked[id].scene = "hdr" THEN hdrPhotos \cup {id}
                  ELSE hdrPhotos

\* The vendor refuses it and returns an error, which the wrapper passes on.
VendorRefuses(id) ==
  /\ Returns(id)
  /\ UNCHANGED <<given, taken, hdrPhotos>>

\* camera_get_parameters and the camera_put_parameters that follows: a copy of
\* the vendor's parameters, fixed up.
GetParameters(id) ==
  /\ running
  /\ id \in dev
  /\ tmp[id] = Null
  /\ read' = [read EXCEPT ![id] = camera_fixup_getparams(given[id])]
  /\ UNCHANGED <<gVendorModule, dev, vendor, fixed_set_params, live, text, tmp, calls, given,
                 overlapped, fault>>

Next ==
  \/ AskModule
  \/ OpenWithoutTable
  \/ \E id \in 0 .. NumCameras + 1 : OpenFails(id)
  \/ \E id \in Camera :
       \/ Open(id) \/ OpenLosesVendor(id) \/ Close(id)
       \/ NullTable(id) \/ VendorSets(id) \/ VendorRefuses(id) \/ GetParameters(id)
       \/ \E choice \in Choice : SetParameters(id, choice)

Spec == Init /\ [][Next]_vars

-------------------------------------------------------------------------------
\* As long as a camera is opened only while none is open, whatever fails on the
\* way, no string is freed twice or read after it was freed, and none is
\* forgotten (the table of camera_device_open, the frees of camera_device_close
\* and of camera_fixup_setparams).
StringsAreSound ==
  ~overlapped =>
    /\ ~fault
    /\ dev = {} => live = {}
    /\ \A s \in live : \E c \in dev : fixed_set_params[c] = s

\* As long as a camera is opened only while none is open, the scene mode that an
\* application would read back is the one of the last call the vendor accepted,
\* whatever was refused since, although the wrapper hides HDR in the capture
\* mode.  The one exception is the back camera in a recording that follows an HDR
\* photo: camera_fixup_setparams does not reset the capture mode of a recording,
\* so one the application read with the photo makes the recording read HDR.
SceneReadBack ==
  ~overlapped =>
    \A c \in dev : taken[c] # Unset =>
      \/ camera_fixup_getparams(given[c]).scene = taken[c].scene
      \/ c = Back /\ c \in hdrPhotos /\ taken[c].video
=============================================================================
