-------------------------------- MODULE Settings --------------------------------
(***************************************************************************)
(* What identity, theme and profile promise a user who waits: the settings  *)
(* are one dictionary that nothing but the user changes, all that a tap     *)
(* changes at once; restarts keep it; and whoever is told of a setting is   *)
(* told what the dictionary holds.                                         *)
(***************************************************************************)
CONSTANTS Keys, Data, Nil, idKey, themeKey, profileKeys

VARIABLES settings,  \* what is kept for each key
          identity,  \* what this launch was told of the identity,
          theme,     \* the theme,
          profile    \* and, on the profile screen, of the profile

view == <<settings, identity, theme, profile>>

Nothing == [k \in Keys |-> Nil]

Init == settings = Nothing /\ identity = Nil /\ theme = Nil /\ profile = Nothing

(* An install makes its identity before it keeps anything else, and once.   *)
MakeIdentity(d) == /\ settings = Nothing
                   /\ settings' = [settings EXCEPT ![idKey] = d]
                   /\ identity' = d
                   /\ UNCHANGED <<theme, profile>>

ChooseTheme(v) == /\ settings[idKey] # Nil
                  /\ settings' = [settings EXCEPT ![themeKey] = v]
                  /\ theme' = v
                  /\ UNCHANGED <<identity, profile>>

(* Any part of the profile is saved as a whole.                             *)
SaveProfile(pairs) ==
  /\ settings[idKey] # Nil
  /\ settings' = [k \in Keys |-> IF k \in DOMAIN pairs THEN pairs[k] ELSE settings[k]]
  /\ UNCHANGED <<identity, theme, profile>>

TellIdentity == /\ settings[idKey] # Nil
                /\ identity' = settings[idKey]
                /\ UNCHANGED <<settings, theme, profile>>

TellTheme == /\ theme' = settings[themeKey]
             /\ UNCHANGED <<settings, identity, profile>>

TellProfile == /\ profile' = [k \in Keys |-> IF k \in profileKeys THEN settings[k] ELSE Nil]
               /\ UNCHANGED <<settings, identity, theme>>

(* The profile screen is opened anew, or the app launched.                  *)
LeaveProfile == profile' = Nothing /\ UNCHANGED <<settings, identity, theme>>

Relaunch == /\ identity' = Nil /\ theme' = Nil /\ profile' = Nothing
            /\ UNCHANGED settings

Next == \/ \E d \in Data : MakeIdentity(d) \/ ChooseTheme(d)
        \/ \E S \in SUBSET profileKeys : \E pairs \in [S -> Data] : SaveProfile(pairs)
        \/ TellIdentity \/ TellTheme \/ TellProfile
        \/ LeaveProfile \/ Relaunch

Spec == Init /\ [][Next]_view
================================================================================
