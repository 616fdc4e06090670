----------------------------- MODULE MCRegistrar -----------------------------
(* The registrar on small profiles: SDK A with keys a1, a2, a3, SDK B with  *)
(* key b1.                                                                 *)
EXTENDS Registrar

CONSTANTS A, B, a1, a2, a3, b1, o1, o2

Sdk(k1, k2) == [key1 |-> k1, key2 |-> k2]
MCOwner == [k \in Keys |-> IF k = b1 THEN B ELSE A]
ProfileOf(o, a, b) == [opts |-> o, sdks |-> [id \in Ids |-> IF id = A THEN a ELSE b]]

(* every way one SDK can change, a second one that comes and goes, and a   *)
(* profile with other global options                                      *)
MCProfiles ==
  {ProfileOf(o1, a, NoSdk) :
      a \in {NoSdk, Sdk(a1, NoKey), Sdk(a1, a2), Sdk(a2, a1), Sdk(a1, a3)}}
    \cup {ProfileOf(o, Sdk(a1, a2), Sdk(b1, NoKey)) : o \in {o1, o2}}

(* one SDK whose keys rotate *)
MCRotation ==
  {ProfileOf(o1, a, NoSdk) : a \in {NoSdk, Sdk(a1, NoKey), Sdk(a1, a2), Sdk(a2, NoKey)}}
=============================================================================
