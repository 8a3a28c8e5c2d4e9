---------------------------- MODULE PendingNonces ----------------------------
(***************************************************************************)
(* The list behind MessagingChannel's set of pending nonces: the vector of *)
(* PendingInboundNonce, kept sorted by a binary search, and the walk of    *)
(* update_inbound_nonce over it.                                           *)
(***************************************************************************)
EXTENDS Integers, Sequences, SequencesExt

CONSTANTS
  MaxNonce,  \* bound: nonces 1..MaxNonce
  Window     \* PENDING_INBOUND_NONCE_MAX_LEN, also the capacity of the vector

ASSUME ListAssumption == MaxNonce \in Nat /\ Window \in Nat \ {0}

VARIABLES
  inboundNonce,  \* Nonce.inbound_nonce
  nonces         \* PendingInboundNonce.nonces

vars == <<inboundNonce, nonces>>

TypeOK == inboundNonce \in 0..MaxNonce /\ nonces \in Seq(1..MaxNonce)

Init == inboundNonce = 0 /\ nonces = << >>

-----------------------------------------------------------------------------
(* A mistake: nonces are pushed at the end instead of sorted in.           *)
PushIndex(list, n) == {Len(list) + 1}

(* Vec::binary_search on a sorted list without n: the index to insert at.  *)
InsertIndex(list, n) ==
  { i \in 1..(Len(list) + 1) :
      /\ \A j \in 1..(i - 1) : list[j] < n
      /\ \A j \in i..Len(list) : list[j] > n }

(* Mistakes: the walk stops after its first step, or includes the element  *)
(* that ended it.                                                          *)
OneStepRun(list) == IF list # << >> /\ list[1] = inboundNonce + 1 THEN 1 ELSE 0
RunOneTooFar(list) ==
  CHOOSE k \in 1..(Len(list) + 1) :
    /\ \A i \in 1..(k - 1) : list[i] = inboundNonce + i
    /\ k <= Len(list) => list[k] # inboundNonce + k

(* The walk of update_inbound_nonce: how many leading elements continue    *)
(* inbound_nonce without a gap.                                            *)
Run(list) ==
  CHOOSE k \in 0..Len(list) :
    /\ \A i \in 1..k : list[i] = inboundNonce + i
    /\ k < Len(list) => list[k + 1] # inboundNonce + k + 1

(* inbound_nonce moves to the end of the run; drain(0..diff).              *)
UpdateInboundNonce(list) ==
  /\ inboundNonce' = inboundNonce + Run(list)
  /\ nonces' = SubSeq(list, Run(list) + 1, Len(list))

InWindow(n) == inboundNonce < n /\ inboundNonce + Window >= n

InsertPendingInboundNonce(n) ==
  /\ InWindow(n)
  /\ IF n \in ToSet(nonces)
     THEN UNCHANGED vars
     ELSE \E i \in InsertIndex(nonces, n) : UpdateInboundNonce(InsertAt(nonces, i, n))

(* verify, nilify and skip insert nonces in any order.                     *)
Next == \E n \in 1..MaxNonce : InsertPendingInboundNonce(n)
Spec == Init /\ [][Next]_vars

-----------------------------------------------------------------------------
(* The list stays strictly sorted, which the binary search and the walk    *)
(* both rely on, and shorter than its account, whose capacity is Window.   *)
SortedAndFits ==
  /\ \A i \in 1..(Len(nonces) - 1) : nonces[i] < nonces[i + 1]
  /\ Len(nonces) < Window

(* The list does to inbound_nonce and to the set of its elements what      *)
(* MessagingChannel does to its set, for every order of insertions.        *)
Channel == INSTANCE MessagingChannel WITH
  pending <- ToSet(nonces), Payload <- {}, Delegate <- {},
  EMPTY <- "empty", NIL <- "nil", ABSENT <- "absent", SKIPPED <- "skipped", BURNT <- "burnt",
  OApp <- "oapp", registry <- "absent", channel <- TRUE, payloadHash <- << >>,
  verdicts <- << >>, fate <- << >>

ListIsSet == [][\E n \in 1..MaxNonce : Channel!InsertPendingInboundNonce(n)]_vars
=============================================================================
