------------------------------- MODULE Cookies -------------------------------
(***************************************************************************)
(* pkg/security/cookies: the kinds of cookies and their fixed profiles.    *)
(* Downstream packages register kinds at run time, under one lock with     *)
(* those that build cookies; Configure swaps the settings atomically.      *)
(***************************************************************************)
EXTENDS Text, SequencesExt

CONSTANTS
  BuiltInProfiles,      \* [1..n -> [name, path, age]]: kinds are numbers
  ProfileMenu,          \* profiles to register: names are texts, paths words
  BadCookieNames, BadCookiePaths, RootPath,
  SettingsMenu,         \* [domain, secure, ages : kinds -> Nat, 0 where unset]
  MaxKinds              \* bound

ASSUME CookieAssumption ==
  /\ MaxKinds \in Nat
  /\ \E n \in 0..MaxKinds : DOMAIN BuiltInProfiles = 1..n
  /\ \A k, l \in DOMAIN BuiltInProfiles :
       k # l => Trim(BuiltInProfiles[k].name) # Trim(BuiltInProfiles[l].name)
  /\ ProfileMenu \subseteq [name : [word : Nat, padded : BOOLEAN], path : Nat, age : Int]

VARIABLES
  kindProfiles,         \* [kinds -> profile]
  settings,
  handedOut             \* history: [kinds -> profile when the kind was first returned]

cookieVars == <<kindProfiles, settings, handedOut>>

Kinds == 1..MaxKinds

CookieInit ==
  /\ kindProfiles = BuiltInProfiles
  /\ settings = [domain |-> 0, secure |-> FALSE, ages |-> [k \in Kinds |-> 0]]
  /\ handedOut = BuiltInProfiles

Trimmed(p) == [p EXCEPT !.name = Plain(Trim(p.name)),
                        !.path = IF p.path = Empty THEN RootPath ELSE p.path]

ValidProfile(p) ==
  /\ ~Blank(p.name) /\ Trim(p.name) \notin BadCookieNames /\ ~HasSpace(Trim(p.name))
  /\ p.path \notin BadCookiePaths

(* Mutant: the name is compared as it was given.                           *)
NameTakenAsGiven(p) == \E k \in DOMAIN kindProfiles : kindProfiles[k].name = p.name

NameTaken(p) == \E k \in DOMAIN kindProfiles : Trim(kindProfiles[k].name) = Trim(p.name)

(* The first kind from the number of kinds on that is free.                *)
NextKind ==
  Min({k \in Kinds : k > Cardinality(DOMAIN kindProfiles) /\ k \notin DOMAIN kindProfiles})

RegisterKind(p) ==
  /\ Cardinality(DOMAIN kindProfiles) < MaxKinds
  /\ ValidProfile(Trimmed(p)) /\ ~NameTaken(p)
  /\ kindProfiles' = [k \in DOMAIN kindProfiles \cup {NextKind} |->
                        IF k = NextKind THEN Trimmed(p) ELSE kindProfiles[k]]
  /\ handedOut' = [k \in DOMAIN handedOut \cup {NextKind} |->
                     IF k \in DOMAIN handedOut THEN handedOut[k] ELSE Trimmed(p)]
  /\ UNCHANGED settings

Configure ==
  /\ settings' \in SettingsMenu
  /\ UNCHANGED <<kindProfiles, handedOut>>

CookieNext == Configure \/ \E p \in ProfileMenu : RegisterKind(p)

(* Build; built-in kinds take their age from the settings when these name  *)
(* one. secure is what the request shows of its scheme.                    *)
MaxAge(k) ==
  IF k \in DOMAIN BuiltInProfiles /\ settings.ages[k] > 0 THEN settings.ages[k]
  ELSE kindProfiles[k].age

BuildCookie(k, value, secure) ==
  [name |-> Trim(kindProfiles[k].name), value |-> value, path |-> kindProfiles[k].path,
   domain |-> settings.domain, secure |-> settings.secure \/ secure, age |-> MaxAge(k)]

(* Clearing writes a cookie that replaces the one it clears: same name,    *)
(* same path and, unless the settings changed meanwhile, same domain.      *)
BuildClear(k, secure) == [BuildCookie(k, Empty, secure) EXCEPT !.age = -1]

-----------------------------------------------------------------------------
(* Whoever was handed a kind keeps it, with its own name and profile, and  *)
(* no two kinds share a name, so that a cookie read by its name is of the  *)
(* kind it was written as (cookies.go:72-108, 280-289).                    *)
KindsKept ==
  /\ handedOut = kindProfiles
  /\ \A k, l \in DOMAIN kindProfiles :
       /\ k # l => Trim(kindProfiles[k].name) # Trim(kindProfiles[l].name)
       /\ BuildClear(k, FALSE).name = BuildCookie(l, 1, TRUE).name => k = l
=============================================================================
