--------------------------- MODULE SettingsTransfer ---------------------------
(* Settings taken from one device to another by a link                       *)
(* (settings/transfer.ts, transfer-controller.ts): the exporter leaves out   *)
(* what is at its default, the importer merges the sections of the link into *)
(* what it has, asks, and replaces its settings.  A field holds 0 at its     *)
(* default; a backend's configuration is its fields.                         *)
EXTENDS Naturals

CONSTANTS
    Device, Field, Section, sectionOf,   \* the transferred settings
    Kind,                                \* the storage backends
    None,
    Races,      \* "confirm": settings change while the person is asked
    Choices,    \* what a person exports: sections and how much of the storage
    MaxTweaks, MaxExports, MaxImports

VARIABLES
    settings,   \* of each device
    links,      \* the links made, and what each was made of
    prompt,     \* what a device asks its person to confirm
    used
xvars == <<settings, links, prompt, used>>

Value == 0..1
Storage == "storage"
Mode == {"none", "active", "all"}

(* What a stored state is made into: some backend is there to be active.     *)
mergeSettings(s) ==
    IF s.config[s.active] # None THEN s
    ELSE IF \E k \in Kind : s.config[k] # None
         THEN [s EXCEPT !.active = CHOOSE k \in Kind : s.config[k] # None]
         ELSE [s EXCEPT !.active = CHOOSE k \in Kind : TRUE,
                        !.config = [k \in Kind |->
                                       IF k = CHOOSE j \in Kind : TRUE THEN 0 ELSE None]]

XInit ==
    /\ settings \in [Device -> {mergeSettings(s) :
                                s \in [field : [Field -> Value], active : Kind,
                                      config : [Kind -> Value \cup {None}], records : {0}]}]
    /\ links = {} /\ prompt = [d \in Device |-> None]
    /\ used = [tweaks |-> 0, exports |-> 0, imports |-> 0]

spend(what, most) == used[what] < most /\ used' = [used EXCEPT ![what] = @ + 1]

(* A person changes a setting or the backend, a share is joined or closed.   *)
Tweak(d) ==
    /\ spend("tweaks", MaxTweaks)
    /\ prompt[d] = None \/ "confirm" \in Races
    /\ \/ \E f \in Field : settings' = [settings EXCEPT ![d].field[f] = 1 - @]
       \/ \E k \in Kind : settings' = [settings EXCEPT ![d].active = k,
              ![d].config[k] = IF @ = None THEN 0 ELSE @]
       \/ settings' = [settings EXCEPT ![d].records = @ + 1]
    /\ UNCHANGED <<links, prompt>>

-----------------------------------------------------------------------------
(* The payload: a partial function of what differs from the defaults.        *)
differing(f, over) == {x \in over : f[x] # 0}

sections(s, chosen) ==
    [c \in chosen |-> differing(s.field, {f \in Field : sectionOf[f] = c})]

stored(s, mode) ==
    IF mode = "all" THEN {k \in Kind : s.config[k] # None} \cup {s.active} ELSE {s.active}

configOf(s, k) == IF s.config[k] = None THEN 0 ELSE s.config[k]

payload(s, o) ==
    [sections |-> sections(s, o.sections),
     active |-> IF o.mode = "none" THEN None ELSE s.active,
     stores |-> IF o.mode = "none" THEN {} ELSE stored(s, o.mode),
     configured |-> IF o.mode = "none" THEN {}
                    ELSE {k \in stored(s, o.mode) : configOf(s, k) # 0}]

(* isTransferPayload: something is in it, its active backend among the rest. *)
isTransferPayload(p) ==
    /\ p.active # None \/ DOMAIN p.sections # {}
    /\ p.active # None => p.active \in p.stores
    /\ \A c \in DOMAIN p.sections : \A f \in p.sections[c] : sectionOf[f] = c

Export(d) ==
    /\ spend("exports", MaxExports)
    /\ \E o \in Choices :
          /\ o.mode # "none" \/ o.sections # {}
          /\ links' = links \cup {[payload |-> payload(settings[d], o), of |-> settings[d],
                                   options |-> o]}
    /\ UNCHANGED <<settings, prompt>>

-----------------------------------------------------------------------------
(* Mutant: a field the link leaves out keeps what it has here.               *)
filledAsHere(p, s, f) == IF f \in p.sections[sectionOf[f]] THEN 1 ELSE s.field[f]

(* applySectionDefaults: a field the link leaves out is at its default.      *)
filled(p, s, f) == IF f \in p.sections[sectionOf[f]] THEN 1 ELSE 0

(* Mutant: the link's backends are all there are.                            *)
backendsOnly(p, s, k) ==
    IF k \in p.stores THEN (IF k \in p.configured THEN 1 ELSE 0) ELSE None

backends(p, s, k) ==
    IF k \in p.stores THEN (IF k \in p.configured THEN 1 ELSE 0) ELSE s.config[k]

(* mergeTransferredSettings over this device's settings.                     *)
merged(p, s) == mergeSettings(
    [s EXCEPT !.field = [f \in Field |->
                  IF sectionOf[f] \in DOMAIN p.sections THEN filled(p, s, f) ELSE s.field[f]],
              !.active = IF p.active = None THEN s.active ELSE p.active,
              !.config = IF p.active = None THEN s.config
                         ELSE [k \in Kind |-> backends(p, s, k)]])

(* importFrom: merged with the settings of now, then the person is asked.    *)
Open(d) ==
    /\ prompt[d] = None /\ spend("imports", MaxImports)
    /\ \E l \in links :
          /\ isTransferPayload(l.payload)
          /\ prompt' = [prompt EXCEPT ![d] = [link |-> l, merged |-> merged(l.payload, settings[d])]]
    /\ UNCHANGED <<settings, links>>

Confirm(d) ==
    /\ prompt[d] # None
    /\ settings' = [settings EXCEPT ![d] = prompt[d].merged]
    /\ prompt' = [prompt EXCEPT ![d] = None]
    /\ UNCHANGED <<links, used>>

Refuse(d) ==
    /\ prompt[d] # None /\ prompt' = [prompt EXCEPT ![d] = None]
    /\ UNCHANGED <<settings, links, used>>

XNext == \E d \in Device : Tweak(d) \/ Export(d) \/ Open(d) \/ Confirm(d) \/ Refuse(d)

-----------------------------------------------------------------------------
(* What an import changes is what the link was made of: each of its sections *)
(* as the exporter had it, its backends beside the others saved here, and    *)
(* nothing else of this device, at the moment it is confirmed.               *)
took(d, l) ==
    LET was == settings[d]
        now == settings'[d]
        o == l.options
        from == l.of
    IN  /\ \A f \in Field :
              now.field[f] = IF sectionOf[f] \in o.sections THEN from.field[f] ELSE was.field[f]
        /\ now.records = was.records
        /\ now.active = IF o.mode = "none" THEN was.active ELSE from.active
        /\ now.config[now.active] # None
        /\ \A k \in Kind :
              now.config[k] =
                 IF \/ o.mode = "all" /\ from.config[k] # None
                    \/ o.mode = "active" /\ k = from.active
                 THEN from.config[k] ELSE was.config[k]
TakesWhatWasSent ==
    \A d \in Device :
        prompt[d] # None /\ prompt'[d] = None =>
            settings'[d] = settings[d] \/ took(d, prompt[d].link)

SettingsSafe == [][TakesWhatWasSent]_xvars
=============================================================================
