------------------------------ MODULE MpmcIsEmpty ------------------------------
(***************************************************************************)
(* isempty() of lfmpmc.h, which nothing in the server calls.  It is a copy *)
(* of dequeue with the read of the data, the store to seq and the reload   *)
(* of tail_seq commented out; the compare_exchange on _tail_seq is not.    *)
(* A consumer in isempty is at "iseq" or "icas".                           *)
(***************************************************************************)
EXTENDS MpmcQueue

IsEmptyCall(c) ==
  /\ cpc[c] = "idle"
  /\ \E t \in Visible(tailSeq) : tail' = [tail EXCEPT ![c] = t]
  /\ cpc' = [cpc EXCEPT ![c] = "iseq"]
  /\ UNCHANGED <<shared, out, pvars>>

(* dif == 0 *)
IsEmptyReady(c) ==
  /\ cpc[c] = "iseq"
  /\ \E s \in VisibleSeq(Slot(tail[c])) : s - (tail[c] + 1) = 0
  /\ cpc' = [cpc EXCEPT ![c] = "icas"]
  /\ UNCHANGED <<shared, tail, out, pvars>>

(* dif < 0: return true. *)
IsEmptyTrue(c) ==
  /\ cpc[c] = "iseq"
  /\ \E s \in VisibleSeq(Slot(tail[c])) : s - (tail[c] + 1) < 0
  /\ cpc' = [cpc EXCEPT ![c] = "idle"]
  /\ UNCHANGED <<shared, tail, out, pvars>>

(* dif > 0: the reload is commented out, so the loop looks at the same     *)
(* ticket again; a stuttering step and therefore no action.                *)

(* The exchange succeeds: return false, with the ticket taken. *)
IsEmptyFalse(c) ==
  /\ cpc[c] = "icas"
  /\ tailSeq = tail[c]
  /\ tailSeq' = tail[c] + 1
  /\ cpc' = [cpc EXCEPT ![c] = "idle"]
  /\ UNCHANGED <<headSeq, seq, data, tail, out, pvars>>

IsEmptyCasFails(c) ==
  /\ cpc[c] = "icas"
  /\ \E t \in Visible(tailSeq) : tail' = [tail EXCEPT ![c] = t]
  /\ cpc' = [cpc EXCEPT ![c] = "iseq"]
  /\ UNCHANGED <<shared, out, pvars>>

IsEmpty(c) ==
  \/ IsEmptyCall(c) \/ IsEmptyReady(c) \/ IsEmptyTrue(c)
  \/ IsEmptyFalse(c) \/ IsEmptyCasFails(c)

IsEmptySpec ==
  Init /\ [][Next \/ \E c \in Consumers : IsEmpty(c)]_vars

=============================================================================
