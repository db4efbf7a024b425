------------------------------- MODULE KeyStore -------------------------------
(***************************************************************************)
(* The master key that voiceprints are sealed under: KeyProtector of       *)
(* src/mom_igd/enrollment/keys.py and VoiceprintCipher of cipher.py.  Keys *)
(* are numbered as they are generated; the file holds the latest one, in a *)
(* form only this user of this machine can unwrap, or it is gone or        *)
(* altered.  What a key seals, that key opens and no other.                *)
(***************************************************************************)
EXTENDS Integers

VARIABLES
    key,            \* the key in the file, NoKey, or Altered
    keysMade        \* how many have been generated

keyVars == <<key, keysMade>>

NoKey == 0
Altered == -1

KeyInit == key = NoKey /\ keysMade = 0

Exists == key # NoKey

\* load: a file that cannot be unwrapped, or whose key is not the one it names, is
\* refused.
Loadable == key > 0

\* A key is generated, and replaces the file at once, only if there is none.
CreateIfMissing ==
    IF Exists THEN Loadable /\ UNCHANGED keyVars
    ELSE key' = keysMade + 1 /\ keysMade' = keysMade + 1

\* An envelope names its key, and that is compared before it is opened.
Opens(sealedWith) == Loadable /\ key = sealedWith

\* describe, of which doctor shows the result: the file is read, and nothing unwrapped.
KeyState == IF ~Exists THEN "missing" ELSE IF key = Altered THEN "unreadable" ELSE "present"

\* Something outside the program removes the file, or alters it so that it cannot be parsed.
LoseKey == Loadable /\ key' \in {NoKey, Altered} /\ UNCHANGED keysMade
=============================================================================
