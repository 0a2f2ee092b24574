------------------------------ MODULE LicenseText ------------------------------
(***************************************************************************)
(* How the text of a license becomes a license (LicenseBlob, LicenseParser *)
(* and RSADecryptPublic of imageflow_helpers/src/licensing/parsing.rs):    *)
(* its last two segments are data and signature, the signature is raised   *)
(* to the exponent of each trusted key in turn until the digest of the     *)
(* data appears, and only then are the lines of the data read.             *)
(***************************************************************************)
EXTENDS Integers, Sequences, SequencesExt

CONSTANTS
  Licenses,    \* [segments, base64, lines, signature] of texts
  KeyRings,    \* sequences of [modulus, exponent], as keys are trusted
  DigestOf(_), \* the digest of some lines, as a sequence of bytes
  Byte         \* how many values a byte has

ByteAssumption ==
  /\ Byte \in Nat \ {0, 1}
  /\ \A x \in Licenses : x.signature \in Nat /\ x.lines \in Seq([key : STRING, value : STRING])
  /\ \A ring \in KeyRings : ring \in Seq([modulus : Nat \ {0, 1}, exponent : Nat])

VARIABLES
  license, keys, \* the text and the trusted keys
  pc,
  key,           \* the key that is tried
  base, exp, result   \* of powm

vars == <<license, keys, pc, key, base, exp, result>>

Init ==
  /\ license \in Licenses /\ keys \in KeyRings
  /\ pc = "segments" /\ key = 1 /\ base = 0 /\ exp = 0 /\ result = 1

Modulus == keys[key].modulus
Digest == DigestOf(license.lines)
End(how) == pc' = how /\ UNCHANGED <<license, keys, key, base, exp, result>>

(* Fewer than two segments, or one that is not base 64.                    *)
Split ==
  /\ pc = "segments"
  /\ End(IF license.segments < 2 \/ ~license.base64 THEN "error" ELSE "key")

(* validate_signature: a signature that is no block of the key ends it.    *)
TryKey ==
  /\ pc = "key"
  /\ IF key > Len(keys) \/ license.signature >= Modulus
     THEN End("error")
     ELSE /\ pc' = "power"
          /\ base' = license.signature % Modulus /\ exp' = keys[key].exponent /\ result' = 1
          /\ UNCHANGED <<license, keys, key>>

Multiplied == IF exp % 2 = 1 THEN (result * base) % Modulus ELSE result

(* powm                                                                    *)
Power ==
  /\ pc = "power" /\ exp > 0
  /\ result' = Multiplied /\ exp' = exp \div 2 /\ base' = (base * base) % Modulus
  /\ UNCHANGED <<license, keys, pc, key>>

(* to_bytes_be                                                             *)
Bytes[n \in Nat] == IF n < Byte THEN <<n>> ELSE Append(Bytes[n \div Byte], n % Byte)
AfterFirst(s, x) ==
  IF \E i \in DOMAIN s : s[i] = x
  THEN SubSeq(s, 1 + (CHOOSE i \in DOMAIN s : s[i] = x /\ \A j \in 1..(i - 1) : s[j] # x), Len(s))
  ELSE <<>>
UnpaddedNot(s) == <<Last(s)>>   \* variant: the padding is not looked at
Unpadded(s) == AfterFirst(s, 0)

Compare ==
  /\ pc = "power" /\ exp = 0
  /\ IF Unpadded(Bytes[result]) = Digest THEN pc' = "parse" /\ UNCHANGED key ELSE pc' = "key" /\ key' = key + 1
  /\ UNCHANGED <<license, keys, base, exp, result>>

-----------------------------------------------------------------------------
(* The last line of a key counts; a field that is not there is an empty set. *)
Get(k) ==
  LET at == {i \in DOMAIN license.lines : license.lines[i].key = k} IN
  IF at = {} THEN {} ELSE {license.lines[CHOOSE i \in at : \A j \in at : i >= j].value}

Id == IF Get("id") # {} THEN Get("id") ELSE Get("domain")
IsRemotePlaceholder == Get("kind") = {"id"}
IsComplete ==
  /\ Id # {}
  /\ IsRemotePlaceholder => Get("secret") \notin {{}, {"blank"}}
  /\ \A k \in {"issued", "expires", "subscriptionexpirationdate"} : Get(k) \subseteq {"date"}

(* LicenseParser::new panics over what is not complete.                    *)
Parse == pc = "parse" /\ End(IF IsComplete THEN "accepted" ELSE "panicked")

Next == Split \/ TryKey \/ Power \/ Compare \/ Parse
Spec == Init /\ [][Next]_vars

-----------------------------------------------------------------------------
TypeOK ==
  /\ key \in 1..(Len(keys) + 1)
  /\ pc \in {"segments", "key", "power", "parse", "accepted", "error", "panicked"}
  /\ {base, exp, result} \subseteq Nat
  /\ pc = "power" => base < Modulus /\ result < Modulus

(* b raised to n, modulo m, one factor after the other.                    *)
Powers(b, m) == LET p[n \in Nat] == IF n = 0 THEN 1 % m ELSE (p[n - 1] * b) % m IN p
Opens(k) == AfterFirst(Bytes[Powers(license.signature, k.modulus)[k.exponent]], 0) = Digest

(* In every round of powm, what was multiplied and what is left to         *)
(* multiply make up the power that is wanted (parsing.rs:275-291).         *)
PowmIsExact ==
  pc = "power" => (result * Powers(base, Modulus)[exp]) % Modulus = Powers(license.signature, Modulus)[keys[key].exponent]

(* The lines of a license are read, and may only panic, when a trusted key *)
(* opens its signature (parsing.rs:208-221).                               *)
OnlySignedAreRead ==
  pc \in {"parse", "accepted", "panicked"} => \E i \in DOMAIN keys : Opens(keys[i])

(* Of a license that is accepted the last lines count: it has an id, and a *)
(* secret if it stands for another (parsing.rs:43-47).                     *)
AcceptedAreComplete ==
  pc = "accepted" =>
    LET ls == license.lines
        Final(k) == {i \in DOMAIN ls : ls[i].key = k /\ \A j \in (i + 1)..Len(ls) : ls[j].key # k}
    IN /\ \E i \in DOMAIN ls : ls[i].key \in {"id", "domain"}
       /\ (\E i \in Final("kind") : ls[i].value = "id") => \E i \in Final("secret") : ls[i].value # "blank"
=============================================================================
