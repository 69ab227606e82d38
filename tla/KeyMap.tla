--------------------------------- MODULE KeyMap ---------------------------------
(***************************************************************************)
(* hashMapInsert and hashMapFind: short numbers for 64-bit keys.  The hash *)
(* (libstdc++'s identity, cut to 32 bits) is tried again while its value   *)
(* is taken, and is the same every time: for a second key with the same    *)
(* low bits hashMapInsert does not return.                                 *)
(***************************************************************************)
EXTENDS Integers

CONSTANTS
  Keys,     \* a set of naturals
  Width     \* number of hash values, 2^32 in the code

VARIABLES
  map,      \* hashMap: map[key], or -1
  values,   \* hashValues
  arg,      \* the key with which hashMapInsert has been called, or -1
  hash      \* hashValue, or -1 before it is set

vars == <<map, values, arg, hash>>

Init ==
  /\ map = [key \in Keys |-> -1]
  /\ values = {} /\ arg = -1 /\ hash = -1

Hash(key) == key % Width

(* hashMapFind; the caller gets -1 as an unsigned number. *)
Find(key) == IF map[key] # -1 THEN map[key] ELSE Width - 1

-----------------------------------------------------------------------------

(* Mutant: the loop tries only once. *)
NeverInUse(v) == FALSE

-----------------------------------------------------------------------------
(* hashMapInsert *)

Call(key) ==
  /\ arg = -1
  /\ arg' = key
  /\ UNCHANGED <<map, values, hash>>

Hit ==
  /\ arg # -1 /\ hash = -1
  /\ map[arg] # -1
  /\ arg' = -1
  /\ UNCHANGED <<map, values, hash>>

FirstTry ==
  /\ arg # -1 /\ hash = -1
  /\ map[arg] = -1
  /\ hash' = Hash(arg)
  /\ UNCHANGED <<map, values, arg>>

InUse(v) == v \in values

TryAgain ==
  /\ hash # -1
  /\ InUse(hash)
  /\ hash' = Hash(arg)
  /\ UNCHANGED <<map, values, arg>>

Insert ==
  /\ hash # -1
  /\ ~InUse(hash)
  /\ values' = values \cup {hash}
  /\ map' = [map EXCEPT ![arg] = hash]
  /\ arg' = -1 /\ hash' = -1

Next ==
  \/ \E key \in Keys : Call(key)
  \/ Hit \/ FirstTry \/ TryAgain \/ Insert

Spec == Init /\ [][Next]_vars

-----------------------------------------------------------------------------

(* No two keys have the same number, the set of used numbers is that of    *)
(* the map, and hashMapFind does not take a missing key for another one,   *)
(* unless that one's number is what it returns for missing keys.           *)
NumbersUnique ==
  /\ \A k, l \in Keys : k # l /\ map[k] # -1 => map[k] # map[l]
  /\ values = {map[key] : key \in Keys} \ {-1}
  /\ \A k, l \in Keys :
       map[k] = -1 /\ map[l] \notin {-1, Width - 1} => Find(k) # Find(l)

=============================================================================
