---------------------------- MODULE DeliveryProofs ----------------------------
(***************************************************************************)
(* Proofs about the inbound channel of the endpoint, for every number of   *)
(* nonces, window, set of messages, delegates and executors.               *)
(*                                                                         *)
(* First the channel alone, and the executor's view of it; then delivery:  *)
(* every message is credited or dropped once, what it composes is called   *)
(* once, and every account that was closed left its rent to the endpoint.  *)
(***************************************************************************)
EXTENDS Delivery, ExecutionView, FiniteSetTheorems, TLAPS

-----------------------------------------------------------------------------
USE MaxNonceAssumption, WindowAssumption, HashAssumption, SignerAssumption

(* Inserting a nonce resolves that nonce and no other one, moves           *)
(* inbound_nonce forward only, and leaves the list inside the window.      *)
LEMMA InsertResolves ==
  ASSUME TypeOK, PendingInWindow, NEW n \in Nonce, InsertPendingInboundNonce(n)
  PROVE  /\ inboundNonce' \in inboundNonce..MaxNonce
         /\ pending' \in SUBSET Nonce
         /\ PendingInWindow'
         /\ Resolved' = Resolved \cup {n}
<1> USE DEF TypeOK, PendingInWindow, Nonce
<1>1. CASE n \in pending
  <2>1. UNCHANGED <<inboundNonce, pending>>
    BY <1>1 DEF InsertPendingInboundNonce
  <2> QED  BY <1>1, <2>1 DEF Resolved
<1>2. CASE n \notin pending
  <2>1. PICK last \in inboundNonce..MaxNonce :
          /\ (inboundNonce + 1)..last \subseteq pending \cup {n}
          /\ last + 1 \notin pending \cup {n}
          /\ inboundNonce' = last
          /\ pending' = (pending \cup {n}) \ ((inboundNonce + 1)..last)
    BY <1>2 DEF InsertPendingInboundNonce, UpdateInboundNonce
  <2>2. inboundNonce < n /\ n <= inboundNonce + Window
    BY DEF InsertPendingInboundNonce, InWindow
  <2>3. pending' \in SUBSET Nonce
    BY <2>1
  <2>4. PendingInWindow'
    <3> SUFFICES ASSUME NEW m \in pending'
                 PROVE  m \in (last + 2)..(last + Window)
      BY <2>1
    <3>1. m \in pending \cup {n} /\ m \notin (inboundNonce + 1)..last
      BY <2>1
    <3>2. m \in Nat /\ m > inboundNonce
      BY <3>1, <2>2
    <3>3. m > last /\ m # last + 1
      BY <3>1, <3>2, <2>1
    <3>4. m <= inboundNonce + Window
      BY <3>1, <2>2
    <3> QED  BY <3>2, <3>3, <3>4
  <2>5. Resolved' = Resolved \cup {n}
    <3>1. Resolved' = (1..last) \cup ((pending \cup {n}) \ ((inboundNonce + 1)..last))
      BY <2>1 DEF Resolved
    <3>2. 1..last = (1..inboundNonce) \cup ((inboundNonce + 1)..last)
      OBVIOUS
    <3> QED  BY <3>1, <3>2, <2>1 DEF Resolved
  <2> QED  BY <2>1, <2>3, <2>4, <2>5
<1> QED  BY <1>1, <1>2

(* The same for the guarded insertion of verify and nilify.                *)
LEMMA ResolveIfNewResolves ==
  ASSUME TypeOK, PendingInWindow, NEW n \in Nonce, ResolveIfNew(n)
  PROVE  /\ inboundNonce' \in inboundNonce..MaxNonce
         /\ pending' \in SUBSET Nonce
         /\ PendingInWindow'
         /\ Resolved' = Resolved \cup {n}
<1>1. CASE n > inboundNonce
  BY <1>1, InsertResolves DEF ResolveIfNew
<1>2. CASE ~(n > inboundNonce)
  <2>1. UNCHANGED <<inboundNonce, pending>>
    BY <1>2 DEF ResolveIfNew
  <2>2. n \in Resolved
    BY <1>2 DEF TypeOK, Resolved, Nonce
  <2> QED  BY <2>1, <2>2 DEF TypeOK, PendingInWindow, Resolved, Nonce
<1> QED  BY <1>1, <1>2

-----------------------------------------------------------------------------
(* What a step on nonce n leaves alone of another nonce m.                 *)
Untouched(m) ==
  /\ (m \in Resolved)' <=> m \in Resolved
  /\ payloadHash'[m] = payloadHash[m]
  /\ verdicts'[m] = verdicts[m]
  /\ fate'[m] = fate[m]

(* A step on one nonce preserves the phases when it gives that nonce one:  *)
(* every other nonce keeps its own.                                        *)
LEMMA StepOnOneNonce ==
  ASSUME TypeOK, PhasesAgree, PendingInWindow', NEW n \in Nonce,
         inboundNonce' \in inboundNonce..MaxNonce,
         \A m \in Nonce \ {n} : Untouched(m),
         Phase(n)'
  PROVE  PhasesAgree'
<1> SUFFICES ASSUME NEW m \in Nonce, m # n
             PROVE  Phase(m)'
  BY DEF PhasesAgree
<1>1. Phase(m) /\ Untouched(m)
  BY DEF PhasesAgree
<1>2. Decided(m)' <=> Decided(m)
  BY <1>1 DEF Decided, Untouched
<1>3. Undecided(m)' <=> Undecided(m)
  BY <1>1 DEF Undecided, Untouched
<1>4. Ended(m)' <=> Ended(m)
  BY <1>1 DEF Ended, Untouched
<1>5. m <= inboundNonce => m <= inboundNonce'
  BY DEF TypeOK, Nonce
<1> QED  BY <1>1, <1>2, <1>3, <1>4, <1>5 DEF Phase, Untouched

(* The type invariant is inductive.                                        *)
LEMMA TypingStep == ASSUME TypeOK, PendingInWindow, [Next]_vars PROVE TypeOK'
<1> USE DEF TypeOK, accounts, Hash, Open
<1>1. ASSUME NEW d \in Delegate, RegisterOApp(d) \/ SetDelegate(d) PROVE TypeOK'
  BY <1>1 DEF RegisterOApp, SetDelegate
<1>2. ASSUME NEW signer \in Signers, InitNonce(signer) PROVE TypeOK'
  BY <1>2 DEF InitNonce
<1>3. ASSUME NEW n \in Nonce, InitVerify(n) PROVE TypeOK'
  BY <1>3 DEF InitVerify
<1>4. ASSUME NEW n \in Nonce, NEW h \in Hash, Verify(n, h) PROVE TypeOK'
  <2>1. inboundNonce' \in 0..MaxNonce /\ pending' \in SUBSET Nonce
    BY <1>4, ResolveIfNewResolves DEF Verify
  <2> QED  BY <1>4, <2>1 DEF Verify, VerifiableHash
<1>5. ASSUME NEW signer \in Signers, NEW n \in Nonce, Skip(signer, n) PROVE TypeOK'
  <2>1. inboundNonce' \in 0..MaxNonce /\ pending' \in SUBSET Nonce
    BY <1>5, InsertResolves DEF Skip
  <2> QED  BY <1>5, <2>1 DEF Skip, Close
<1>6. ASSUME NEW signer \in Signers, NEW n \in Nonce, NEW h \in Hash, Nilify(signer, n, h)
      PROVE  TypeOK'
  <2>1. inboundNonce' \in 0..MaxNonce /\ pending' \in SUBSET Nonce
    BY <1>6, ResolveIfNewResolves DEF Nilify
  <2> QED  BY <1>6, <2>1 DEF Nilify
<1>7. ASSUME NEW signer \in Signers, NEW n \in Nonce, NEW h \in Hash, Burn(signer, n, h)
      PROVE  TypeOK'
  BY <1>7 DEF Burn, Close
<1>8. ASSUME NEW signer \in Signers, NEW n \in Nonce, NEW p \in Payload, Clear(signer, n, p)
      PROVE  TypeOK'
  BY <1>8 DEF Clear, Close
<1>9. CASE UNCHANGED vars
  BY <1>9 DEF vars
<1> QED  BY <1>1, <1>2, <1>3, <1>4, <1>5, <1>6, <1>7, <1>8, <1>9 DEF Next, Resolve

(* The phases are inductive, given the types.  A nonce that is verified or *)
(* nilified becomes decided; one that is skipped was undecided, and one    *)
(* that is burnt or cleared was decided, because its account exists.       *)
LEMMA PhasesStep == ASSUME IInv, [Next]_vars PROVE PhasesAgree'
<1> USE DEF IInv
<1>0. TypeOK /\ PhasesAgree /\ PendingInWindow /\ TypeOK'
  BY TypingStep DEF PhasesAgree
<1>1. ASSUME UNCHANGED <<accounts, verdicts, fate>> PROVE PhasesAgree'
  BY <1>0, <1>1 DEF accounts, PhasesAgree, PendingInWindow, Phase, Resolved, Decided, Undecided, Ended
<1>2. ASSUME NEW d \in Delegate, RegisterOApp(d) \/ SetDelegate(d) PROVE PhasesAgree'
  BY <1>1, <1>2 DEF RegisterOApp, SetDelegate
<1>3. ASSUME NEW signer \in Signers, InitNonce(signer) PROVE PhasesAgree'
  BY <1>1, <1>3 DEF InitNonce
<1>4. ASSUME NEW n \in Nonce, InitVerify(n) PROVE PhasesAgree'
  <2>1. /\ n > inboundNonce /\ payloadHash[n] = ABSENT
        /\ payloadHash' = [payloadHash EXCEPT ![n] = EMPTY]
        /\ UNCHANGED <<inboundNonce, pending, verdicts, fate>>
    BY <1>4 DEF InitVerify, Initializable, Open
  <2>2. Resolved' = Resolved /\ PendingInWindow'
    BY <1>0, <2>1 DEF Resolved, PendingInWindow
  <2>3. n \notin Resolved
    <3>1. payloadHash[n] \notin verdicts[n] /\ ~(n <= inboundNonce)
      BY <1>0, <2>1 DEF TypeOK, Nonce
    <3> QED  BY <1>0, <3>1 DEF PhasesAgree, Phase, Decided
  <2>4. Phase(n)'
    BY <1>0, <2>1, <2>2, <2>3 DEF PhasesAgree, Phase, Undecided, TypeOK
  <2>5. \A m \in Nonce \ {n} : Untouched(m)
    BY <1>0, <2>1, <2>2 DEF Untouched, TypeOK
  <2> QED  BY <1>0, <2>1, <2>2, <2>4, <2>5, StepOnOneNonce DEF TypeOK, Nonce
<1>5. ASSUME NEW n \in Nonce, NEW h \in Payload \cup {NIL}, Open(n), ResolveIfNew(n),
             payloadHash' = [payloadHash EXCEPT ![n] = h],
             verdicts' = [verdicts EXCEPT ![n] = @ \cup {h}],
             UNCHANGED fate
      PROVE  PhasesAgree'
  <2>1. /\ inboundNonce' \in inboundNonce..MaxNonce
        /\ PendingInWindow'
        /\ Resolved' = Resolved \cup {n}
    BY <1>0, <1>5, ResolveIfNewResolves
  <2>2. fate[n] = << >>
    BY <1>0, <1>5 DEF PhasesAgree, Phase, Decided, Undecided, Ended, Open
  <2>3. Phase(n)'
    BY <1>0, <1>5, <2>1, <2>2 DEF Phase, Decided, TypeOK
  <2>4. \A m \in Nonce \ {n} : Untouched(m)
    BY <1>0, <1>5, <2>1 DEF Untouched, TypeOK
  <2> QED  BY <1>0, <2>1, <2>3, <2>4, StepOnOneNonce
<1>6. ASSUME NEW n \in Nonce, NEW h \in Hash, Verify(n, h) PROVE PhasesAgree'
  BY <1>5, <1>6 DEF Verify, VerifiableHash, Hash
<1>7. ASSUME NEW signer \in Signers, NEW n \in Nonce, NEW h \in Hash, Nilify(signer, n, h)
      PROVE  PhasesAgree'
  BY <1>5, <1>7 DEF Nilify, Matches
<1>8. ASSUME NEW n \in Nonce, NEW how \in Payload \cup {SKIPPED, BURNT},
             Open(n), Close(n),
             fate' = [fate EXCEPT ![n] = Append(@, how)],
             UNCHANGED verdicts,
             inboundNonce' \in inboundNonce..MaxNonce, n <= inboundNonce',
             PendingInWindow', Resolved' = Resolved \cup {n},
             how \in Payload => how \in verdicts[n],
             (how = SKIPPED) <=> (verdicts[n] = {})
      PROVE  PhasesAgree'
  <2>1. fate[n] = << >>
    BY <1>0, <1>8 DEF PhasesAgree, Phase, Decided, Undecided, Ended, Open
  <2>2. fate'[n] = <<how>> /\ payloadHash'[n] = ABSENT
    BY <1>0, <1>8, <2>1 DEF Close, TypeOK
  <2>3. Phase(n)'
    BY <1>0, <1>8, <2>2 DEF Phase, Ended
  <2>4. \A m \in Nonce \ {n} : Untouched(m)
    BY <1>0, <1>8 DEF Untouched, Close, TypeOK
  <2> QED  BY <1>0, <1>8, <2>3, <2>4, StepOnOneNonce
<1>9. ASSUME NEW signer \in Signers, NEW n \in Nonce, Skip(signer, n) PROVE PhasesAgree'
  <2>1. /\ n = inboundNonce + 1 /\ Open(n) /\ InsertPendingInboundNonce(n) /\ Close(n)
        /\ fate' = [fate EXCEPT ![n] = Append(@, SKIPPED)]
        /\ UNCHANGED verdicts
    BY <1>9 DEF Skip, Skippable
  <2>2. /\ inboundNonce' \in inboundNonce..MaxNonce
        /\ PendingInWindow'
        /\ Resolved' = Resolved \cup {n}
    BY <1>0, <2>1, InsertResolves
  <2>3. n \notin Resolved
    BY <1>0, <2>1 DEF PendingInWindow, Resolved, TypeOK, Nonce
  <2>4. verdicts[n] = {}
    BY <1>0, <2>3 DEF PhasesAgree, Phase, Undecided
  <2>5. n <= inboundNonce'
    <3>1. PICK last \in inboundNonce..MaxNonce : inboundNonce' = last
      BY <2>2
    <3>2. n = inboundNonce + 1 /\ inboundNonce \in Nat /\ n \in Nat
      BY <1>0, <2>1 DEF TypeOK, Nonce
    <3>3. n \notin (last + 2)..(last + Window)
      BY <3>1, <3>2
    <3>4. n \notin pending'
      BY <2>2, <3>1, <3>3 DEF PendingInWindow
    <3>5. n \in (1..inboundNonce') \cup pending'
      BY <2>2 DEF Resolved
    <3> QED  BY <3>4, <3>5
  <2> QED  BY <1>8, <2>1, <2>2, <2>4, <2>5
<1>10. ASSUME NEW n \in Nonce, NEW h \in Hash, NEW how \in Payload \cup {BURNT},
              Executable(n), Matches(n, h), Close(n),
              fate' = [fate EXCEPT ![n] = Append(@, how)],
              UNCHANGED <<inboundNonce, pending, verdicts>>,
              how \in Payload => how = h
       PROVE  PhasesAgree'
  <2>1. n \in Resolved /\ Resolved' = Resolved /\ PendingInWindow'
    BY <1>0, <1>10 DEF Executable, Resolved, PendingInWindow, TypeOK, Nonce
  <2>2. h \in verdicts[n]
    BY <1>0, <1>10, <2>1 DEF PhasesAgree, Phase, Decided, Ended, Matches, Open
  <2>3. inboundNonce' \in inboundNonce..MaxNonce /\ n <= inboundNonce'
    BY <1>0, <1>10 DEF Executable, TypeOK, Nonce
  <2>4. how # SKIPPED
    OBVIOUS
  <2> QED  BY <1>8, <1>10, <2>1, <2>2, <2>3, <2>4 DEF Matches
<1>11. ASSUME NEW signer \in Signers, NEW n \in Nonce, NEW h \in Hash, Burn(signer, n, h)
       PROVE  PhasesAgree'
  BY <1>10, <1>11 DEF Burn
<1>12. ASSUME NEW signer \in Signers, NEW n \in Nonce, NEW p \in Payload, Clear(signer, n, p)
       PROVE  PhasesAgree'
  BY <1>10, <1>12 DEF Clear, Hash
<1>13. CASE UNCHANGED vars
  BY <1>1, <1>13 DEF vars, accounts
<1> QED
  BY <1>2, <1>3, <1>4, <1>6, <1>7, <1>9, <1>11, <1>12, <1>13 DEF Next, Resolve

-----------------------------------------------------------------------------
(* The instructions keep the accounts of a channel and the history of its  *)
(* nonces well-typed and in agreement: IInv is inductive.                  *)
THEOREM InductiveInvariant == Spec => []IInv
<1>1. Init => IInv
  <2> SUFFICES ASSUME Init PROVE IInv
    OBVIOUS
  <2>1. TypeOK
    <3>1. << >> \in Seq(Payload \cup {SKIPPED, BURNT})
      OBVIOUS
    <3>2. fate \in [Nonce -> Seq(Payload \cup {SKIPPED, BURNT})]
      BY <3>1 DEF Init
    <3>3. /\ payloadHash \in [Nonce -> Hash \cup {ABSENT}]
          /\ verdicts \in [Nonce -> SUBSET (Payload \cup {NIL})]
      BY DEF Init
    <3>4. /\ registry \in Delegate \cup {ABSENT}
          /\ inboundNonce \in 0..MaxNonce /\ pending \in SUBSET Nonce
      BY DEF Init
    <3>5. channel \in BOOLEAN
      BY Zenon DEF Init
    <3> QED  BY <3>2, <3>3, <3>4, <3>5 DEF TypeOK
  <2>2. PhasesAgree
    <3>1. PendingInWindow /\ Resolved = {}
      BY DEF Init, PendingInWindow, Resolved
    <3>2. \A n \in Nonce : Undecided(n)
      BY DEF Init, Undecided
    <3> QED  BY <3>1, <3>2 DEF PhasesAgree, Phase
  <2> QED  BY <2>1, <2>2 DEF IInv
<1>2. IInv /\ [Next]_vars => IInv'
  BY TypingStep, PhasesStep DEF IInv, PhasesAgree
<1> QED  BY <1>1, <1>2, PTL DEF Spec

(* The accounts of a channel and the history stay well-typed.              *)
THEOREM TypeCorrect == Spec => []TypeOK
BY InductiveInvariant, PTL DEF IInv

(* A nonce is delivered, skipped or burnt at most once.                    *)
THEOREM EndsAtMostOnce == Spec => []AtMostOnce
<1>1. IInv => AtMostOnce
  <2> SUFFICES ASSUME IInv, NEW n \in Nonce
               PROVE  Len(fate[n]) <= 1
    BY DEF AtMostOnce
  <2>1. fate[n] = << >> \/ \E how : fate[n] = <<how>>
    BY DEF IInv, PhasesAgree, Phase, Decided, Undecided, Ended
  <2>2. CASE fate[n] = << >>
    BY <2>2
  <2>3. ASSUME NEW how, fate[n] = <<how>> PROVE Len(fate[n]) <= 1
    <3>1. Len(<<how>>) = 1
      OBVIOUS
    <3> QED  BY <2>3, <3>1
  <2> QED  BY <2>1, <2>2, <2>3
<1> QED  BY <1>1, InductiveInvariant, PTL

(* inbound_nonce never jumps a nonce that was not verified, nilified or    *)
(* skipped.                                                                *)
LEMMA NoGapInvariant == IInv => NoGap
<1> SUFFICES ASSUME IInv, NEW n \in 1..inboundNonce
             PROVE  verdicts[n] # {} \/ Skipped(n)
  BY DEF NoGap
<1>1. n \in Nonce /\ n \in Resolved
  BY DEF IInv, TypeOK, Nonce, Resolved
<1>2. CASE Decided(n)
  BY <1>2 DEF Decided
<1>3. CASE Ended(n)
  BY <1>3 DEF Ended, Skipped
<1> QED  BY <1>1, <1>2, <1>3 DEF IInv, PhasesAgree, Phase

(* inbound_nonce passes only nonces that were verified, nilified or        *)
(* skipped: the walk of verify and skip jump no gap.                       *)
THEOREM NeverJumpsAGap == Spec => []NoGap
BY NoGapInvariant, InductiveInvariant, PTL

(* A message is delivered, or a nonce burnt or skipped, only when every    *)
(* lower nonce was verified, nilified or skipped.                          *)
THEOREM EndsInOrder == Spec => []OrderedPrefix
<1>1. IInv => OrderedPrefix
  <2> SUFFICES ASSUME IInv, NEW n \in Nonce, fate[n] # << >>, NEW m \in 1..(n - 1)
               PROVE  verdicts[m] # {} \/ Skipped(m)
    BY DEF OrderedPrefix
  <2>1. n <= inboundNonce
    BY DEF IInv, PhasesAgree, Phase, Decided, Undecided
  <2>2. m \in 1..inboundNonce
    BY <2>1 DEF IInv, TypeOK, Nonce
  <2> QED  BY <2>2, NoGapInvariant DEF NoGap
<1> QED  BY <1>1, InductiveInvariant, PTL

(* What is delivered was verified for that nonce; what is burnt had been   *)
(* verified or nilified; what is skipped had not.                          *)
THEOREM EndsAreDecided == Spec => [](EndsWithVerdict /\ SkipOnlyUndecided)
<1>1. ASSUME IInv, NEW n \in Nonce, Ended(n)
      PROVE  /\ \A i \in DOMAIN fate[n] :
                  /\ fate[n][i] \in Payload => fate[n][i] \in verdicts[n]
                  /\ fate[n][i] = BURNT => verdicts[n] # {}
             /\ Skipped(n) => verdicts[n] = {}
  <2>1. PICK how \in Payload \cup {SKIPPED, BURNT} :
          /\ fate[n] = <<how>>
          /\ how \in Payload => how \in verdicts[n]
          /\ (how = SKIPPED) <=> (verdicts[n] = {})
    BY <1>1 DEF Ended
  <2> QED  BY <2>1 DEF Skipped
<1>2. ASSUME IInv, NEW n \in Nonce, ~Ended(n)
      PROVE  fate[n] = << >>
  BY <1>2 DEF IInv, PhasesAgree, Phase, Decided, Undecided
<1>3. IInv => EndsWithVerdict /\ SkipOnlyUndecided
  BY <1>1, <1>2 DEF EndsWithVerdict, SkipOnlyUndecided, Skipped
<1> QED  BY <1>3, InductiveInvariant, PTL

(* A verified nonce that has not ended keeps an account with a hash that   *)
(* was written by verify or nilify.                                        *)
THEOREM VerdictsAreKept == Spec => []NoVerdictLost
<1>1. IInv => NoVerdictLost
  <2> SUFFICES ASSUME IInv, NEW n \in Nonce, verdicts[n] # {}, fate[n] = << >>
               PROVE  payloadHash[n] \in verdicts[n]
    BY DEF NoVerdictLost
  <2>1. ~Undecided(n) /\ ~Ended(n)
    BY DEF Undecided, Ended
  <2> QED  BY <2>1 DEF IInv, PhasesAgree, Phase, Decided
<1> QED  BY <1>1, InductiveInvariant, PTL

(* The list of pending nonces has an element to spare in its account.      *)
THEOREM PendingListFits == Spec => []PendingFits
<1>1. ASSUME IInv PROVE PendingFits
  <2> DEFINE W == (inboundNonce + 2)..(inboundNonce + Window)
  <2>1. pending \subseteq W /\ inboundNonce \in Nat
    BY <1>1 DEF IInv, PhasesAgree, PendingInWindow, TypeOK
  <2>2. /\ IsFiniteSet(W)
        /\ Cardinality(W) = IF inboundNonce + 2 > inboundNonce + Window THEN 0 ELSE Window - 1
    BY <2>1, FS_Interval
  <2>3. Cardinality(pending) <= Cardinality(W) /\ Cardinality(pending) \in Nat
    BY <2>1, <2>2, FS_Subset, FS_CardinalityType
  <2> QED  BY <2>1, <2>2, <2>3 DEF PendingFits
<1> QED  BY <1>1, InductiveInvariant, PTL

-----------------------------------------------------------------------------
(***************************************************************************)
(* The channel implements the inbox.                                       *)
(***************************************************************************)

(* The verdict of a nonce, phase by phase.                                 *)
VerdictFits(n) ==
  /\ (InboxVerdict[n] = EMPTY) <=> n \notin Resolved
  /\ Open(n) => InboxVerdict[n] = payloadHash[n]
  /\ ~Open(n) /\ n \in Resolved => InboxVerdict[n] = ABSENT

LEMMA VerdictOfPhase == IInv => \A n \in Nonce : VerdictFits(n)
<1> SUFFICES ASSUME IInv, NEW n \in Nonce PROVE VerdictFits(n)
  OBVIOUS
<1> USE DEF VerdictFits
<1> USE DEF InboxVerdict, Open
<1>1. n \in Nat /\ inboundNonce \in Nat /\ verdicts[n] \subseteq Payload \cup {NIL}
  BY DEF IInv, TypeOK, Nonce
<1>2. CASE n \notin Resolved
  <2>1. ~(n <= inboundNonce) /\ payloadHash[n] \in {ABSENT, EMPTY}
    BY <1>1, <1>2 DEF IInv, PhasesAgree, Phase, Undecided, Resolved, Nonce
  <2> QED  BY <1>2, <2>1
<1>3. CASE n \in Resolved /\ Decided(n)
  <2>1. payloadHash[n] \in Payload \cup {NIL}
    BY <1>1, <1>3 DEF Decided
  <2> QED  BY <1>3, <2>1
<1>4. CASE n \in Resolved /\ n <= inboundNonce /\ Ended(n)
  BY <1>4 DEF Ended
<1> QED  BY <1>2, <1>3, <1>4 DEF IInv, PhasesAgree, Phase

LEMMA PrimedVerdictOfPhase == IInv' => \A n \in Nonce : VerdictFits(n)'
<1>1. IInv' => (\A n \in Nonce : VerdictFits(n))'
  BY VerdictOfPhase, PTL
<1> QED  BY <1>1

(* An untouched nonce keeps its verdict.                                   *)
LEMMA UntouchedKeepsVerdict ==
  ASSUME IInv, IInv', NEW n \in Nonce, Untouched(n)
  PROVE  InboxVerdict'[n] = InboxVerdict[n]
<1>1. CASE Open(n)
  BY <1>1 DEF Untouched, Open, InboxVerdict
<1>2. CASE ~Open(n)
  <2>1. ~Open(n)' /\ ((n \in Resolved)' <=> n \in Resolved)
    BY <1>2 DEF Untouched, Open
  <2>2. VerdictFits(n) /\ VerdictFits(n)'
    BY VerdictOfPhase, PrimedVerdictOfPhase
  <2> QED  BY <1>2, <2>1, <2>2 DEF VerdictFits
<1> QED  BY <1>1, <1>2

(* When every nonce but n is untouched, the verdicts change at n alone.    *)
LEMMA VerdictsChangeAtOne ==
  ASSUME IInv, IInv', NEW n \in Nonce, \A m \in Nonce \ {n} : Untouched(m)
  PROVE  InboxVerdict' = [InboxVerdict EXCEPT ![n] = InboxVerdict'[n]]
<1>1. \A m \in Nonce \ {n} : InboxVerdict'[m] = InboxVerdict[m]
  BY UntouchedKeepsVerdict
<1>2. /\ InboxVerdict = [m \in Nonce |-> InboxVerdict[m]]
      /\ InboxVerdict' = [m \in Nonce |-> InboxVerdict'[m]]
  BY DEF InboxVerdict
<1> QED  BY <1>1, <1>2

(* Ending a nonce: every lower one has a verdict.                          *)
LEMMA EndIsEnd ==
  ASSUME IInv, IInv', NEW n \in Nonce, NEW how,
         Close(n), fate' = [fate EXCEPT ![n] = Append(@, how)],
         n <= inboundNonce', 1..(n - 1) \subseteq Resolved,
         \A m \in Nonce \ {n} : Untouched(m)
  PROVE  Promise!End(n, how)
<1>1. Promise!Reached(n)
  <2> SUFFICES ASSUME NEW m \in 1..(n - 1) PROVE InboxVerdict[m] # EMPTY
    BY DEF Promise!Reached, Promise!Settled
  <2>1. m \in Nonce /\ m \in Resolved
    BY DEF Nonce
  <2> QED  BY <2>1, VerdictOfPhase DEF VerdictFits
<1>2. InboxVerdict'[n] = ABSENT
  BY DEF InboxVerdict, Close, Open, IInv, TypeOK
<1> QED  BY <1>1, <1>2, VerdictsChangeAtOne DEF Promise!End

(* Every instruction is a step of the inbox or leaves it unchanged.        *)
LEMMA InboxStep == ASSUME IInv, IInv', [Next]_vars PROVE [Promise!Next]_(Promise!vars)
<1>0. TypeOK /\ PhasesAgree /\ PendingInWindow
  BY DEF IInv, PhasesAgree
<1>1. ASSUME UNCHANGED <<accounts, fate>> PROVE UNCHANGED Promise!vars
  BY <1>1 DEF accounts, Promise!vars, InboxVerdict, Open
<1>2. ASSUME NEW d \in Delegate, RegisterOApp(d) \/ SetDelegate(d)
      PROVE  UNCHANGED Promise!vars
  BY <1>1, <1>2 DEF RegisterOApp, SetDelegate
<1>3. ASSUME NEW signer \in Signers, InitNonce(signer) PROVE UNCHANGED Promise!vars
  BY <1>1, <1>3 DEF InitNonce
<1>4. ASSUME NEW n \in Nonce, InitVerify(n) PROVE UNCHANGED Promise!vars
  <2>1. /\ ~(n <= inboundNonce) /\ payloadHash[n] = ABSENT
        /\ payloadHash' = [payloadHash EXCEPT ![n] = EMPTY]
        /\ UNCHANGED <<inboundNonce, fate>>
    BY <1>0, <1>4 DEF InitVerify, Initializable, Open, TypeOK, Nonce
  <2> QED  BY <1>0, <2>1 DEF Promise!vars, InboxVerdict, Open, TypeOK
<1>5. ASSUME NEW n \in Nonce, NEW h \in Payload \cup {NIL}, Open(n), ResolveIfNew(n),
             payloadHash' = [payloadHash EXCEPT ![n] = h],
             verdicts' = [verdicts EXCEPT ![n] = @ \cup {h}],
             UNCHANGED fate
      PROVE  Promise!Decide(n, h)
  <2>1. Resolved' = Resolved \cup {n}
    BY <1>0, <1>5, ResolveIfNewResolves
  <2>2. \A m \in Nonce \ {n} : Untouched(m)
    BY <1>0, <1>5, <2>1 DEF Untouched, TypeOK
  <2>3. InboxVerdict[n] # ABSENT
    BY <1>5 DEF InboxVerdict, Open
  <2>4. InboxVerdict'[n] = h
    BY <1>0, <1>5 DEF InboxVerdict, Open, TypeOK
  <2> QED  BY <1>5, <2>2, <2>3, <2>4, VerdictsChangeAtOne DEF Promise!Decide
<1>6. ASSUME NEW n \in Nonce, NEW h \in Hash, Verify(n, h) PROVE Promise!Decide(n, h) /\ h \in Payload \cup {NIL}
  BY <1>5, <1>6 DEF Verify, VerifiableHash, Hash
<1>7. ASSUME NEW signer \in Signers, NEW n \in Nonce, NEW h \in Hash, Nilify(signer, n, h)
      PROVE  Promise!Decide(n, NIL)
  BY <1>5, <1>7 DEF Nilify, Matches
<1>8. ASSUME NEW signer \in Signers, NEW n \in Nonce, Skip(signer, n) PROVE Promise!Pass(n)
  <2>1. /\ n = inboundNonce + 1 /\ Open(n) /\ InsertPendingInboundNonce(n) /\ Close(n)
        /\ fate' = [fate EXCEPT ![n] = Append(@, SKIPPED)]
        /\ UNCHANGED verdicts
    BY <1>8 DEF Skip, Skippable
  <2>2. Resolved' = Resolved \cup {n}
    BY <1>0, <2>1, InsertResolves
  <2>3. \A m \in Nonce \ {n} : Untouched(m)
    BY <1>0, <2>1, <2>2 DEF Untouched, Close, TypeOK
  <2>4. n \notin Resolved
    BY <1>0, <2>1 DEF PendingInWindow, Resolved, TypeOK, Nonce
  <2>5. 1..(n - 1) \subseteq Resolved
    BY <1>0, <2>1 DEF Resolved, TypeOK
  <2>6. n <= inboundNonce'
    BY <2>1, <2>2 DEF IInv, PhasesAgree, Phase, Decided, Close, TypeOK
  <2>7. InboxVerdict[n] = EMPTY
    BY <2>4, VerdictOfPhase DEF VerdictFits
  <2> QED  BY <2>1, <2>3, <2>5, <2>6, <2>7, EndIsEnd DEF Promise!Pass
<1>9. ASSUME NEW n \in Nonce, NEW h \in Hash, NEW how,
             Executable(n), Matches(n, h), Close(n),
             fate' = [fate EXCEPT ![n] = Append(@, how)],
             UNCHANGED <<inboundNonce, pending, verdicts>>
      PROVE  Promise!End(n, how) /\ InboxVerdict[n] = h /\ h # EMPTY
  <2>1. n \in Resolved /\ Resolved' = Resolved /\ 1..(n - 1) \subseteq Resolved
    BY <1>0, <1>9 DEF Executable, Resolved, TypeOK, Nonce
  <2>2. \A m \in Nonce \ {n} : Untouched(m)
    BY <1>0, <1>9, <2>1 DEF Untouched, Close, TypeOK
  <2>3. InboxVerdict[n] = h /\ h # EMPTY
    BY <1>9, <2>1, VerdictOfPhase DEF VerdictFits, Matches
  <2>4. n <= inboundNonce'
    BY <1>9 DEF Executable
  <2> QED  BY <1>9, <2>1, <2>2, <2>3, <2>4, EndIsEnd
<1>10. ASSUME NEW signer \in Signers, NEW n \in Nonce, NEW h \in Hash, Burn(signer, n, h)
       PROVE  Promise!Discard(n)
  BY <1>9, <1>10 DEF Burn, Matches, Promise!Discard, Hash
<1>11. ASSUME NEW signer \in Signers, NEW n \in Nonce, NEW p \in Payload, Clear(signer, n, p)
       PROVE  Promise!Deliver(n, p)
  BY <1>9, <1>11 DEF Clear, Promise!Deliver, Hash
<1>12. CASE UNCHANGED vars
  BY <1>1, <1>12 DEF vars, accounts
<1> QED
  BY <1>2, <1>3, <1>4, <1>6, <1>7, <1>8, <1>10, <1>11, <1>12
     DEF Next, Resolve, Promise!Next, Promise!Nonce, Nonce

(* The endpoint's channel implements the inbox: what it does with its      *)
(* accounts, its counter and its list is what the inbox promises.          *)
THEOREM ChannelImplementsInbox == Spec => ImplementsInbox
<1>1. Init => Promise!Init
  <2>1. ASSUME Init PROVE InboxVerdict = [n \in Nonce |-> EMPTY]
    BY <2>1 DEF Init, InboxVerdict, Open, Nonce
  <2> QED  BY <2>1 DEF Init, Promise!Init, Promise!Nonce, Nonce
<1>2. IInv /\ IInv' /\ [Next]_vars => [Promise!Next]_(Promise!vars)
  BY InboxStep
<1> QED  BY <1>1, <1>2, InductiveInvariant, PTL DEF Spec, ImplementsInbox, Promise!Spec

-----------------------------------------------------------------------------
(* Inserting a nonce never lets inbound_nonce move back.                   *)
LEMMA InboundNonceGrows ==
  ASSUME TypeOK, PendingInWindow, [Next]_vars
  PROVE  inboundNonce' \in inboundNonce..MaxNonce
<1>1. CASE UNCHANGED inboundNonce
  BY <1>1 DEF TypeOK
<1>2. ASSUME NEW n \in Nonce, NEW h \in Hash, Verify(n, h)
      PROVE  inboundNonce' \in inboundNonce..MaxNonce
  BY <1>2, ResolveIfNewResolves DEF Verify
<1>3. ASSUME NEW signer \in Signers, NEW n \in Nonce, Skip(signer, n)
      PROVE  inboundNonce' \in inboundNonce..MaxNonce
  BY <1>3, InsertResolves DEF Skip
<1>4. ASSUME NEW signer \in Signers, NEW n \in Nonce, NEW h \in Hash, Nilify(signer, n, h)
      PROVE  inboundNonce' \in inboundNonce..MaxNonce
  BY <1>4, ResolveIfNewResolves DEF Nilify
<1> QED
  BY <1>1, <1>2, <1>3, <1>4 DEF Next, Resolve, RegisterOApp, SetDelegate, InitNonce, InitVerify,
     Burn, Clear, accounts, vars

(* What has ended stays ended.                                             *)
LEMMA FateGrows ==
  ASSUME TypeOK, [Next]_vars, NEW m \in Nonce, fate[m] # << >>
  PROVE  fate'[m] # << >>
<1>1. fate[m] \in Seq(Payload \cup {SKIPPED, BURNT})
  BY DEF TypeOK
<1>2. ASSUME NEW n \in Nonce, NEW how \in Payload \cup {SKIPPED, BURNT},
             fate' = [fate EXCEPT ![n] = Append(@, how)]
      PROVE  fate'[m] # << >>
  <2>1. CASE n = m
    <3>1. fate'[m] = Append(fate[m], how)
      BY <1>2, <2>1 DEF TypeOK
    <3> QED  BY <1>1, <3>1
  <2>2. CASE n # m
    BY <1>2, <2>2 DEF TypeOK
  <2> QED  BY <2>1, <2>2
<1>3. CASE UNCHANGED fate
  BY <1>3
<1> QED
  BY <1>2, <1>3 DEF Next, Resolve, RegisterOApp, SetDelegate, InitNonce, InitVerify, Verify,
     Skip, Nilify, Burn, Clear, vars

(* In every reachable state "Executed" is what the history says.           *)
LEMMA ExecutedIsEnded == IInv => ExecutedMeansEnded
<1> SUFFICES ASSUME IInv, NEW n \in Nonce
             PROVE  (ExecutionState(n) = "Executed") <=> (fate[n] # << >>)
  BY DEF ExecutedMeansEnded
<1>1. (ExecutionState(n) = "Executed") <=> (n <= inboundNonce /\ InboundPayloadHash(n) = EMPTY)
  BY DEF ExecutionState
<1>2. n \in Nat /\ inboundNonce \in Nat /\ verdicts[n] \subseteq Payload \cup {NIL}
  BY DEF IInv, TypeOK, Nonce
<1>3. Phase(n)
  BY DEF IInv, PhasesAgree
<1>4. CASE Decided(n)
  BY HashAssumption, <1>1, <1>2, <1>4 DEF Decided, InboundPayloadHash, Open
<1>5. CASE n <= inboundNonce /\ Ended(n)
  <2>1. PICK how : fate[n] = <<how>>
    BY <1>5 DEF Ended
  <2>2. fate[n] # << >>
    BY <2>1
  <2> QED  BY <1>1, <1>5, <2>2 DEF Ended, InboundPayloadHash, Open
<1>6. CASE n \notin Resolved
  <2>1. ~(n <= inboundNonce)
    BY <1>2, <1>6 DEF Resolved, Nonce
  <2> QED  BY <1>1, <1>3, <1>6, <2>1 DEF Phase, Undecided
<1> QED  BY <1>3, <1>4, <1>5, <1>6 DEF Phase

(* "Executed" is reported of exactly the nonces that have ended.           *)
THEOREM ExecutedOnlyAfterTheEnd == Spec => []ExecutedMeansEnded
BY ExecutedIsEnded, InductiveInvariant, PTL

(* The view never goes back, whatever happens to the channel.              *)
THEOREM PollingNeverGoesBack == Spec => ViewNeverGoesBack
<1>1. ASSUME IInv, ExecutedMeansEnded, ExecutedMeansEnded', [Next]_vars, NEW n \in Nonce
      PROVE  /\ ExecutionState(n) = "Executed" => ExecutionState(n)' = "Executed"
             /\ ExecutionState(n) = "Executable" =>
                  ExecutionState(n)' # "VerifiedButNotExecutable"
  <2>1. TypeOK /\ PendingInWindow
    BY <1>1 DEF IInv, PhasesAgree
  <2>2. ExecutionState(n) = "Executed" => ExecutionState(n)' = "Executed"
    <3>1. fate[n] # << >> => fate'[n] # << >>
      BY <1>1, <2>1, FateGrows
    <3> QED  BY <1>1, <3>1 DEF ExecutedMeansEnded
  <2>3. ExecutionState(n) = "Executable" => n <= inboundNonce
    BY DEF ExecutionState
  <2>4. n <= inboundNonce => n <= inboundNonce'
    <3>1. inboundNonce' \in inboundNonce..MaxNonce
      BY <1>1, <2>1, InboundNonceGrows
    <3> QED  BY <2>1, <3>1 DEF TypeOK, Nonce
  <2>5. n <= inboundNonce' => ExecutionState(n)' # "VerifiedButNotExecutable"
    BY DEF ExecutionState
  <2> QED  BY <2>2, <2>3, <2>4, <2>5
<1>2. IInv /\ ExecutedMeansEnded /\ ExecutedMeansEnded' /\ [Next]_vars =>
        \A n \in Nonce :
          /\ ExecutionState(n) = "Executed" => ExecutionState(n)' = "Executed"
          /\ ExecutionState(n) = "Executable" =>
               ExecutionState(n)' # "VerifiedButNotExecutable"
  BY <1>1
<1> QED
  BY <1>2, ExecutedOnlyAfterTheEnd, InductiveInvariant, PTL DEF Spec, ViewNeverGoesBack

-----------------------------------------------------------------------------
(* What clear demands.                                                     *)
MayClear(signer, n, p) == channel /\ Authorized(signer) /\ Executable(n) /\ Matches(n, p)

(* With that it can be taken, whatever the other accounts hold.            *)
LEMMA ClearIsGuarded ==
  ASSUME NEW signer, NEW n, NEW p
  PROVE  Clear(signer, n, p) <=>
           /\ MayClear(signer, n, p)
           /\ payloadHash' = [payloadHash EXCEPT ![n] = ABSENT]
           /\ fate' = [fate EXCEPT ![n] = Append(@, p)]
           /\ UNCHANGED <<registry, channel, inboundNonce, pending, verdicts>>
BY DEF Clear, MayClear, Close

(* No nonce has an account before the channel has its own.                 *)
ChannelFirst == ~channel => \A n \in Nonce : ~Open(n)

LEMMA ChannelFirstStep == ASSUME ChannelFirst, [Next]_vars PROVE ChannelFirst'
<1>1. CASE channel
  BY <1>1 DEF ChannelFirst, Next, vars, RegisterOApp, SetDelegate, InitNonce, InitVerify, Verify,
              Resolve, Skip, Nilify, Burn, Clear
<1>2. CASE ~channel
  <2>1. UNCHANGED payloadHash \/ channel'
    BY <1>2 DEF Next, vars, accounts, RegisterOApp, SetDelegate, InitNonce, InitVerify, Verify,
                Resolve, Skip, Nilify, Burn, Clear
  <2> QED  BY <1>2, <2>1 DEF ChannelFirst, Open
<1> QED  BY <1>1, <1>2

(* "Executable" is reported of exactly the nonces that the OApp may clear: *)
(* with the message that was verified, as soon as it is registered.        *)
THEOREM ExecutableIsClearable ==
  Spec => [](registry # ABSENT =>
               \A n \in Nonce :
                 (ExecutionState(n) = "Executable") <=> (\E p \in Payload : MayClear(OApp, n, p)))
<1>1. Init => ChannelFirst
  BY DEF Init, ChannelFirst, Open
<1>2. ASSUME TypeOK, ChannelFirst, registry # ABSENT, NEW n \in Nonce
      PROVE  (ExecutionState(n) = "Executable") <=> (\E p \in Payload : MayClear(OApp, n, p))
  <2>1. (ExecutionState(n) = "Executable") <=>
          (n <= inboundNonce /\ InboundPayloadHash(n) \notin {EMPTY, NIL})
    BY DEF ExecutionState
  <2>2. payloadHash[n] \in Payload \cup {EMPTY, NIL, ABSENT}
    BY <1>2 DEF TypeOK, Hash
  <2>3. (InboundPayloadHash(n) \notin {EMPTY, NIL}) <=> (payloadHash[n] \in Payload)
    BY <2>2, HashAssumption DEF InboundPayloadHash, Open
  <2>4. ASSUME payloadHash[n] \in Payload PROVE Open(n) /\ channel
    BY <1>2, <2>4, HashAssumption DEF Open, ChannelFirst
  <2>5. \A p \in Payload :
          MayClear(OApp, n, p) <=> (channel /\ n <= inboundNonce /\ Open(n) /\ payloadHash[n] = p)
    BY <1>2 DEF MayClear, Authorized, Executable, Matches
  <2> QED  BY <2>1, <2>3, <2>4, <2>5
<1>3. TypeOK /\ ChannelFirst =>
        (registry # ABSENT =>
           \A n \in Nonce :
             (ExecutionState(n) = "Executable") <=> (\E p \in Payload : MayClear(OApp, n, p)))
  BY <1>2
<1> QED  BY <1>1, <1>3, ChannelFirstStep, TypeCorrect, PTL DEF Spec

-----------------------------------------------------------------------------
(***************************************************************************)
(* No order of instructions wedges the channel.                            *)
(***************************************************************************)

(* What verify demands.                                                    *)
MayVerify(n, h) ==
  /\ channel /\ Open(n) /\ VerifiableHash(h)
  /\ n > inboundNonce => InWindow(n)

LEMMA VerifyIsGuarded ==
  ASSUME NEW n, NEW h
  PROVE  Verify(n, h) <=>
           /\ MayVerify(n, h)
           /\ IF n > inboundNonce /\ n \notin pending
              THEN UpdateInboundNonce(pending \cup {n})
              ELSE UNCHANGED <<inboundNonce, pending>>
           /\ payloadHash' = [payloadHash EXCEPT ![n] = h]
           /\ verdicts' = [verdicts EXCEPT ![n] = @ \cup {h}]
           /\ UNCHANGED <<registry, channel, fate>>
<1>1. ResolveIfNew(n) <=>
        /\ n > inboundNonce => InWindow(n)
        /\ IF n > inboundNonce /\ n \notin pending
           THEN UpdateInboundNonce(pending \cup {n})
           ELSE UNCHANGED <<inboundNonce, pending>>
  BY DEF ResolveIfNew, InsertPendingInboundNonce
<1> QED  BY <1>1, Zenon DEF Verify, MayVerify

(* The next nonce can always be verified, if need be after init_verify.    *)
NextIsFree ==
  channel /\ inboundNonce < MaxNonce =>
    IF Open(inboundNonce + 1) THEN \A h \in Payload : MayVerify(inboundNonce + 1, h)
                              ELSE Initializable(inboundNonce + 1)

(* That moves inbound_nonce on, and nothing moves it back.                 *)
MovesOn ==
  /\ inboundNonce' >= inboundNonce
  /\ \A h \in Hash : Verify(inboundNonce + 1, h) => inboundNonce' > inboundNonce

(* However full the list of pending nonces is, and whatever was skipped,   *)
(* nilified or verified out of order, there is always room for the next    *)
(* nonce, and its verification brings inbound_nonce forward: the steps that*)
(* ChannelDrains rests on.                                                 *)
THEOREM ChannelNeverWedges == Spec => []NextIsFree /\ [][MovesOn]_vars
<1>1. IInv => NextIsFree
  <2> SUFFICES ASSUME IInv, channel, inboundNonce < MaxNonce
               PROVE  IF Open(inboundNonce + 1)
                      THEN \A h \in Payload : MayVerify(inboundNonce + 1, h)
                      ELSE Initializable(inboundNonce + 1)
    BY DEF NextIsFree
  <2>1. inboundNonce \in Nat
    BY DEF IInv, TypeOK
  <2>2. InWindow(inboundNonce + 1) /\ inboundNonce + 1 > inboundNonce
    BY <2>1 DEF InWindow
  <2>3. \A h \in Payload : VerifiableHash(h)
    BY DEF VerifiableHash
  <2> QED  BY <2>2, <2>3 DEF MayVerify, Initializable
<1>2. ASSUME IInv, IInv', [Next]_vars PROVE MovesOn
  <2>1. TypeOK /\ PendingInWindow /\ PendingInWindow'
    BY <1>2 DEF IInv, PhasesAgree
  <2>2. inboundNonce' \in inboundNonce..MaxNonce /\ inboundNonce \in Nat
    BY <1>2, <2>1, InboundNonceGrows DEF TypeOK
  <2>3. ASSUME NEW h \in Hash, Verify(inboundNonce + 1, h) PROVE inboundNonce' > inboundNonce
    <3>1. inboundNonce + 1 \notin pending
      BY <2>1, <2>2 DEF PendingInWindow
    <3>2. inboundNonce + 1 > inboundNonce
      BY <2>2
    <3>3. UpdateInboundNonce(pending \cup {inboundNonce + 1})
      BY <2>3, <3>1, <3>2, Zenon DEF Verify, ResolveIfNew, InsertPendingInboundNonce
    <3>4. PICK last \in inboundNonce..MaxNonce :
            last + 1 \notin pending \cup {inboundNonce + 1} /\ inboundNonce' = last
      BY <3>3 DEF UpdateInboundNonce
    <3>5. last \in Int /\ inboundNonce <= last /\ last # inboundNonce
      BY <2>2, <3>4
    <3> QED  BY <2>2, <3>4, <3>5
  <2> QED  BY <2>2, <2>3 DEF MovesOn
<1>3. IInv /\ IInv' /\ [Next]_vars => [MovesOn]_vars
  BY <1>2
<1> QED  BY <1>1, <1>3, InductiveInvariant, PTL DEF Spec

-----------------------------------------------------------------------------
(* What an instruction does to the nonces: one ends, or none.              *)
Ends(n) ==
  /\ Open(n) /\ ~Open(n)'
  /\ fate[n] = << >> /\ fate'[n] # << >>
  /\ \A m \in Nonce \ {n} : (Open(m)' <=> Open(m)) /\ fate'[m] = fate[m]

NoneEnds ==
  /\ \A n \in Nonce : Open(n) => Open(n)'
  /\ \A n \in Nonce : fate'[n] = fate[n]

(* An open account belongs to a nonce that has not ended.                  *)
LEMMA OpenHasNotEnded == IInv => \A n \in Nonce : Open(n) => fate[n] = << >>
BY DEF IInv, PhasesAgree, Phase, Decided, Undecided, Ended, Open

(* Closing an account and recording how the nonce ended is its end.        *)
LEMMA CloseEnds ==
  ASSUME IInv, NEW n \in Nonce, NEW how \in Payload \cup {SKIPPED, BURNT},
         Open(n), Close(n), fate' = [fate EXCEPT ![n] = Append(@, how)]
  PROVE  Ends(n)
<1>1. fate[n] = << >> /\ TypeOK
  BY OpenHasNotEnded DEF IInv
<1>2. fate'[n] = <<how>> /\ payloadHash'[n] = ABSENT
  BY <1>1 DEF TypeOK, Close
<1>3. \A m \in Nonce \ {n} : payloadHash'[m] = payloadHash[m] /\ fate'[m] = fate[m]
  BY <1>1 DEF TypeOK, Close
<1> QED  BY <1>1, <1>2, <1>3 DEF Ends, Open

(* clear ends its nonce.                                                   *)
LEMMA ClearEnds ==
  ASSUME IInv, NEW signer, NEW n \in Nonce, NEW p \in Payload, Clear(signer, n, p)
  PROVE  Ends(n)
BY CloseEnds DEF Clear, Matches

(* So do skip and burn; nilify ends nothing.                               *)
LEMMA ResolveEnds ==
  ASSUME IInv, NEW signer \in Signers, NEW n \in Nonce, Resolve(signer, n)
  PROVE  NoneEnds \/ Ends(n)
<1>1. CASE Skip(signer, n)
  BY <1>1, CloseEnds DEF Skip
<1>2. ASSUME NEW h \in Hash, Burn(signer, n, h) PROVE Ends(n)
  BY <1>2, CloseEnds DEF Burn, Matches
<1>3. ASSUME NEW h \in Hash, Nilify(signer, n, h) PROVE NoneEnds
  BY <1>3, HashAssumption DEF Nilify, NoneEnds, Open, IInv, TypeOK
<1>4. ASSUME NEW p \in Payload, Clear(signer, n, p) PROVE Ends(n)
  BY <1>4, ClearEnds
<1> QED  BY <1>1, <1>2, <1>3, <1>4 DEF Resolve

(* Preparing and verifying end nothing.                                    *)
LEMMA PrepareEndsNothing == ASSUME IInv, Prepare PROVE NoneEnds
<1>1. ASSUME NEW d \in Delegate, RegisterOApp(d) \/ SetDelegate(d) \/ InitNonce(d)
      PROVE  NoneEnds
  BY <1>1 DEF RegisterOApp, SetDelegate, InitNonce, accounts, NoneEnds, Open
<1>2. ASSUME NEW n \in Nonce, InitVerify(n) PROVE NoneEnds
  BY <1>2, HashAssumption DEF InitVerify, NoneEnds, Open, IInv, TypeOK
<1>3. ASSUME NEW n \in Nonce, Verify(n, Message[n]) PROVE NoneEnds
  <2>1. Message[n] \in Payload
    BY MessageAssumption
  <2> QED  BY <1>3, <2>1, HashAssumption DEF Verify, NoneEnds, Open, IInv, TypeOK
<1> QED  BY <1>1, <1>2, <1>3 DEF Prepare

-----------------------------------------------------------------------------
(* Every step of delivery is one of the channel, or leaves it alone.       *)
LEMMA DeliveryIsChannelStep == ASSUME [DeliveryNext]_deliveryVars PROVE [Next]_vars
<1>1. ASSUME Prepare PROVE Next
  <2>1. \A n \in Nonce : Message[n] \in Hash
    BY MessageAssumption DEF Hash
  <2>2. Delegate \subseteq Signers
    BY DEF Signers
  <2> QED  BY <1>1, <2>1, <2>2 DEF Prepare, Next
<1>2. ASSUME NEW d \in Delegate, NEW n \in Nonce, Resolve(d, n) PROVE Next
  BY <1>2 DEF Next, Signers
<1>3. ASSUME NEW n \in Nonce, NEW c \in BOOLEAN, LzReceive(n, c) PROVE Next
  <2>1. Message[n] \in Payload /\ OApp \in Signers
    BY MessageAssumption DEF Signers
  <2> QED  BY <1>3, <2>1 DEF LzReceive, Next, Resolve
<1>4. ASSUME NEW n \in Nonce, LzCompose(n) \/ ComposeLater(n) PROVE UNCHANGED vars
  BY <1>4 DEF LzCompose, ComposeLater
<1>5. ASSUME ExecutorStep PROVE Next \/ UNCHANGED vars
  BY <1>3, <1>4, <1>5
     DEF ExecutorStep, Execute, Compose, LzReceiveAlert, LzComposeAlert, Alert
<1>6. CASE UNCHANGED deliveryVars
  BY <1>6 DEF deliveryVars
<1> QED
  BY <1>1, <1>2, <1>3, <1>4, <1>5, <1>6
     DEF DeliveryNext, ChannelStep, SetExecutors, WithdrawRent

(* A nonce that ends is one more, and leaves the rent of one account.      *)
LEMMA OneRent ==
  ASSUME IInv, DeliveryTypeOK, RentIsKept, Collect, UNCHANGED withdrawn,
         NoneEnds \/ \E n \in Nonce : Ends(n)
  PROVE  RentIsKept' /\ surplus' \in Int
<1> DEFINE Closed == {n \in Nonce : Open(n) /\ ~Open(n)'}
<1>1. IsFiniteSet(Done) /\ IsFiniteSet(Done')
  <2>1. IsFiniteSet(Nonce)
    BY FS_Interval, MaxNonceAssumption DEF Nonce
  <2> QED  BY <2>1, FS_Subset DEF Done
<1>2. CASE NoneEnds
  <2>1. Closed = {} /\ Done' = Done
    BY <1>2 DEF NoneEnds, Done
  <2>2. surplus' = surplus + 0
    BY <2>1, FS_EmptySet DEF Collect
  <2> QED  BY <2>1, <2>2 DEF RentIsKept, DeliveryTypeOK
<1>3. ASSUME NEW n \in Nonce, Ends(n) PROVE RentIsKept' /\ surplus' \in Int
  <2>1. Closed = {n} /\ Done' = Done \cup {n} /\ n \notin Done
    BY <1>3 DEF Ends, Done
  <2>2. surplus' = surplus + 1
    BY <2>1, FS_Singleton DEF Collect
  <2>3. Cardinality(Done') = Cardinality(Done) + 1
    BY <1>1, <2>1, FS_AddElement
  <2>4. Cardinality(Done) \in Nat
    BY <1>1, FS_CardinalityType
  <2> QED  BY <2>2, <2>3, <2>4 DEF RentIsKept, DeliveryTypeOK
<1> QED  BY <1>2, <1>3

-----------------------------------------------------------------------------
(* What every kind of step does to the channel's end of nonces, the credits*)
(* and the calls.                                                          *)
LEMMA ChannelStepKeeps ==
  ASSUME DeliveryInv, ChannelStep
  PROVE  /\ NoneEnds \/ \E n \in Nonce : Ends(n)
         /\ Collect
         /\ UNCHANGED <<withdrawn, credits, calls, composeMessage>>
<1>1. CASE Prepare
  BY <1>1, PrepareEndsNothing DEF ChannelStep, history, DeliveryInv
<1>2. ASSUME NEW d \in Delegate, NEW n \in Nonce, Resolve(d, n)
      PROVE  NoneEnds \/ Ends(n)
  BY <1>2, ResolveEnds DEF Signers, DeliveryInv
<1> QED  BY <1>1, <1>2 DEF ChannelStep, history

(* A delivery credits its nonce, ends it, and may owe its call.            *)
LEMMA LzReceiveKeeps ==
  ASSUME DeliveryInv, NEW n \in Nonce, NEW composes \in BOOLEAN, LzReceive(n, composes)
  PROVE  /\ Ends(n) /\ Collect /\ credits[n] = 0
         /\ credits' = [credits EXCEPT ![n] = 1]
         /\ composeMessage[n] = "absent" /\ calls[n] = 0
         /\ \/ composeMessage' = [composeMessage EXCEPT ![n] = "sent"]
            \/ UNCHANGED composeMessage
         /\ UNCHANGED <<withdrawn, calls>>
<1>1. Message[n] \in Payload
  BY MessageAssumption
<1>2. Ends(n) /\ Collect
  BY <1>1, ClearEnds DEF LzReceive, DeliveryInv
<1>3. Linked(n)
  BY DEF DeliveryInv
<1>4. credits[n] = 0
  BY <1>2, <1>3 DEF Ends, Linked, DeliveryInv, DeliveryTypeOK
<1>5. credits' = [credits EXCEPT ![n] = 1]
  BY <1>4 DEF LzReceive, DeliveryInv, DeliveryTypeOK
<1>6. composeMessage[n] = "absent" /\ calls[n] = 0
  BY <1>3, <1>4 DEF Linked, DeliveryInv, DeliveryTypeOK
<1> QED  BY <1>2, <1>4, <1>5, <1>6 DEF LzReceive, SendCompose

-----------------------------------------------------------------------------
(* Credits, calls and rents fit together after every step.                 *)
LEMMA DeliveryStep ==
  ASSUME DeliveryInv, IInv', [DeliveryNext]_deliveryVars
  PROVE  DeliveryInv'
<1> DEFINE Fits == DeliveryTypeOK' /\ (\A n \in Nonce : Linked(n)') /\ RentIsKept'
<1> USE DEF DeliveryInv
<1>1. ASSUME UNCHANGED <<fate, surplus, withdrawn, credits, calls, composeMessage>>
      PROVE  Fits
  BY <1>1 DEF DeliveryTypeOK, Linked, RentIsKept, Done
<1>2. ASSUME ChannelStep PROVE Fits
  <2>1. /\ NoneEnds \/ \E n \in Nonce : Ends(n)
        /\ Collect
        /\ UNCHANGED <<withdrawn, credits, calls, composeMessage>>
    BY <1>2, ChannelStepKeeps
  <2>2. RentIsKept' /\ surplus' \in Int
    BY <2>1, OneRent
  <2>3. \A n \in Nonce : fate[n] # << >> => fate'[n] # << >>
    BY <2>1 DEF NoneEnds, Ends
  <2> QED  BY <2>1, <2>2, <2>3 DEF DeliveryTypeOK, Linked
<1>3. ASSUME NEW n \in Nonce, NEW composes \in BOOLEAN, LzReceive(n, composes) PROVE Fits
  <2>1. /\ Ends(n) /\ Collect
        /\ credits' = [credits EXCEPT ![n] = 1]
        /\ composeMessage[n] = "absent" /\ calls[n] = 0
        /\ \/ composeMessage' = [composeMessage EXCEPT ![n] = "sent"]
           \/ UNCHANGED composeMessage
        /\ UNCHANGED <<withdrawn, calls>>
    BY <1>3, LzReceiveKeeps
  <2>2. RentIsKept' /\ surplus' \in Int
    BY <2>1, OneRent
  <2>3. DeliveryTypeOK'
    BY <2>1, <2>2 DEF DeliveryTypeOK
  <2>4. Linked(n)'
    BY <2>1 DEF Linked, Ends, DeliveryTypeOK
  <2>5. ASSUME NEW m \in Nonce \ {n} PROVE Linked(m)'
    BY <2>1 DEF Linked, Ends, DeliveryTypeOK
  <2> QED  BY <2>2, <2>3, <2>4, <2>5
<1>4. ASSUME NEW n \in Nonce, LzCompose(n) PROVE Fits
  <2>1. calls[n] = 0 /\ Linked(n) /\ composeMessage[n] = "sent"
    BY <1>4 DEF LzCompose, ClearCompose, Linked, DeliveryTypeOK
  <2>2. /\ calls' = [calls EXCEPT ![n] = 1]
        /\ composeMessage' = [composeMessage EXCEPT ![n] = "received"]
        /\ UNCHANGED <<fate, surplus, withdrawn, credits>>
    BY <1>4, <2>1 DEF LzCompose, ClearCompose, DeliveryTypeOK, vars
  <2> QED  BY <2>1, <2>2 DEF DeliveryTypeOK, Linked, RentIsKept, Done
<1>5. ASSUME NEW n \in Nonce, ComposeLater(n) PROVE Fits
  <2>1. /\ credits[n] = 1 /\ composeMessage[n] = "absent" /\ Linked(n)
        /\ composeMessage' = [composeMessage EXCEPT ![n] = "sent"]
        /\ UNCHANGED <<fate, surplus, withdrawn, credits, calls>>
    BY <1>5 DEF ComposeLater, SendCompose, DeliveryTypeOK, vars, history
  <2> QED  BY <2>1 DEF DeliveryTypeOK, Linked, RentIsKept, Done
<1>6. ASSUME NEW amount \in 1..MaxNonce, WithdrawRent(amount) PROVE Fits
  <2>1. /\ amount \in Int /\ amount <= surplus
        /\ surplus' = surplus - amount /\ withdrawn' = withdrawn + amount
        /\ UNCHANGED <<fate, credits, calls, composeMessage>>
    BY <1>6 DEF WithdrawRent, vars, history
  <2>2. Done' = Done
    BY <2>1 DEF Done
  <2> QED  BY <2>1, <2>2 DEF DeliveryTypeOK, Linked, RentIsKept
<1>7. ASSUME ExecutorStep PROVE Fits
  BY <1>1, <1>3, <1>4, <1>7
     DEF ExecutorStep, Execute, Compose, LzReceiveAlert, LzComposeAlert, Alert, vars
<1>8. ASSUME NEW keys \in SUBSET Worker, SetExecutors(keys) PROVE Fits
  BY <1>1, <1>8 DEF SetExecutors, vars, history
<1>9. CASE UNCHANGED deliveryVars
  BY <1>1, <1>9 DEF deliveryVars, vars, history
<1>10. Fits
  BY <1>2, <1>3, <1>4, <1>5, <1>6, <1>7, <1>8, <1>9 DEF DeliveryNext
<1> QED  BY <1>10

(* The channel under delivery is a channel.                                *)
LEMMA DeliverySpecImplies == DeliverySpec => Spec
<1>1. DeliveryInit => Init
  BY DEF DeliveryInit
<1>2. [DeliveryNext]_deliveryVars => [Next]_vars
  BY DeliveryIsChannelStep
<1> QED  BY <1>1, <1>2, PTL DEF DeliverySpec, Spec

(* The inductive invariant of delivery.                                    *)
THEOREM DeliveryInvariant == DeliverySpec => []DeliveryInv
<1>1. DeliverySpec => Spec
  BY DeliverySpecImplies
<1>2. DeliveryInit /\ IInv => DeliveryInv
  <2>1. ASSUME DeliveryInit PROVE Done = {} /\ \A n \in Nonce : Linked(n)
    BY <2>1 DEF DeliveryInit, Init, Done, Linked
  <2>2. ASSUME DeliveryInit PROVE DeliveryTypeOK /\ RentIsKept
    BY <2>1, <2>2, FS_EmptySet DEF DeliveryInit, DeliveryTypeOK, RentIsKept
  <2> QED  BY <2>1, <2>2 DEF DeliveryInv
<1>3. DeliveryInv /\ IInv' /\ [DeliveryNext]_deliveryVars => DeliveryInv'
  BY DeliveryStep
<1> QED  BY <1>1, <1>2, <1>3, InductiveInvariant, PTL DEF DeliverySpec

(* The endpoint keeps its own rent, and has had the rent of every nonce    *)
(* that ended.                                                             *)
THEOREM RentsAreKept == DeliverySpec => []RentIsKept
BY DeliveryInvariant, PTL DEF DeliveryInv

-----------------------------------------------------------------------------
(***************************************************************************)
(* What the credits say of the channel.                                    *)
(***************************************************************************)

(* A nonce that was credited ended with its message, once.                 *)
CreditedAsSent == \A n \in Nonce : credits[n] = 1 => fate[n] = <<Message[n]>>

LEMMA CreditStep ==
  ASSUME DeliveryInv, CreditedAsSent, [DeliveryNext]_deliveryVars
  PROVE  CreditedAsSent'
<1> USE DEF CreditedAsSent
<1>1. ASSUME UNCHANGED <<fate, credits>> PROVE CreditedAsSent'
  BY <1>1
<1>2. \A n \in Nonce : credits[n] = 1 => fate[n] # << >>
  BY DEF DeliveryInv, Linked
<1>3. ASSUME ChannelStep PROVE CreditedAsSent'
  <2>1. (NoneEnds \/ \E n \in Nonce : Ends(n)) /\ UNCHANGED credits
    BY <1>3, ChannelStepKeeps
  <2> QED  BY <1>2, <2>1 DEF NoneEnds, Ends
<1>4. ASSUME NEW n \in Nonce, NEW composes \in BOOLEAN, LzReceive(n, composes)
      PROVE  CreditedAsSent'
  <2>1. Ends(n) /\ credits' = [credits EXCEPT ![n] = 1]
    BY <1>4, LzReceiveKeeps
  <2>2. fate'[n] = <<Message[n]>>
    <3>1. fate' = [fate EXCEPT ![n] = Append(@, Message[n])] /\ fate[n] = << >>
      BY <1>4, <2>1 DEF LzReceive, Clear, Ends
    <3> QED  BY <3>1 DEF DeliveryInv, IInv, TypeOK
  <2>3. ASSUME NEW m \in Nonce \ {n}, credits'[m] = 1 PROVE fate'[m] = <<Message[m]>>
    BY <2>1, <2>3 DEF Ends, DeliveryInv, DeliveryTypeOK
  <2> QED  BY <2>2, <2>3
<1>5. ASSUME NEW n \in Nonce, LzCompose(n) \/ ComposeLater(n) PROVE CreditedAsSent'
  BY <1>1, <1>5 DEF LzCompose, ComposeLater, vars, history
<1>6. ASSUME ExecutorStep PROVE CreditedAsSent'
  BY <1>1, <1>4, <1>5, <1>6
     DEF ExecutorStep, Execute, Compose, LzReceiveAlert, LzComposeAlert, Alert, vars
<1>7. ASSUME NEW keys \in SUBSET Worker, SetExecutors(keys) PROVE CreditedAsSent'
  BY <1>1, <1>7 DEF SetExecutors, vars, history
<1>8. ASSUME NEW amount, WithdrawRent(amount) PROVE CreditedAsSent'
  BY <1>1, <1>8 DEF WithdrawRent, vars, history
<1>9. CASE UNCHANGED deliveryVars
  BY <1>1, <1>9 DEF deliveryVars, vars, history
<1> QED  BY <1>3, <1>4, <1>5, <1>6, <1>7, <1>8, <1>9 DEF DeliveryNext

(* A message is credited only if a library verified it, only when every    *)
(* lower nonce was verified, nilified or skipped, and its nonce has no     *)
(* other end, whoever delivered it and whatever the delegate did.          *)
CreditIsDue(n) ==
  /\ fate[n] = <<Message[n]>> /\ Message[n] \in verdicts[n]
  /\ \A m \in 1..(n - 1) : verdicts[m] # {} \/ Skipped(m)

THEOREM CreditsFollowTheChannel ==
  DeliverySpec => [](\A n \in Nonce : credits[n] > 0 => CreditIsDue(n))
<1>1. DeliveryInit => CreditedAsSent
  BY DEF DeliveryInit, CreditedAsSent
<1>2. DeliverySpec => []CreditedAsSent
  BY <1>1, CreditStep, DeliveryInvariant, PTL DEF DeliverySpec
<1>3. ASSUME DeliveryInv, CreditedAsSent, EndsWithVerdict, OrderedPrefix,
             NEW n \in Nonce, credits[n] > 0
      PROVE  CreditIsDue(n)
  <2>1. fate[n] = <<Message[n]>>
    BY <1>3 DEF CreditedAsSent, DeliveryInv, DeliveryTypeOK
  <2>2. 1 \in DOMAIN fate[n] /\ fate[n][1] = Message[n] /\ fate[n] # << >>
    BY <2>1
  <2>3. Message[n] \in verdicts[n]
    BY <1>3, <2>2, MessageAssumption DEF EndsWithVerdict
  <2>4. \A m \in 1..(n - 1) : verdicts[m] # {} \/ Skipped(m)
    BY <1>3, <2>2 DEF OrderedPrefix
  <2> QED  BY <2>1, <2>3, <2>4 DEF CreditIsDue
<1>4. DeliveryInv /\ CreditedAsSent /\ EndsWithVerdict /\ OrderedPrefix =>
        \A n \in Nonce : credits[n] > 0 => CreditIsDue(n)
  BY <1>3
<1> QED
  BY <1>2, <1>4, DeliveryInvariant, DeliverySpecImplies, EndsAreDecided, EndsInOrder, PTL

-----------------------------------------------------------------------------
(***************************************************************************)
(* What an executor needs.                                                 *)
(***************************************************************************)

(* What execute demands of a delivery.                                     *)
MayExecute(k, n, composes, value) ==
  /\ k \in executors
  /\ MayClear(OApp, n, Message[n])
  /\ composes => composeMessage[n] = "absent"
  /\ LzReceiveCost(composes) <= value

(* There are no other demands: the rest is what the accounts become.       *)
LEMMA ExecuteIsGuarded ==
  ASSUME NEW k, NEW n, NEW composes \in BOOLEAN, NEW value
  PROVE  Execute(k, n, composes, value) <=>
           /\ MayExecute(k, n, composes, value)
           /\ payloadHash' = [payloadHash EXCEPT ![n] = ABSENT]
           /\ fate' = [fate EXCEPT ![n] = Append(@, Message[n])]
           /\ Collect
           /\ credits' = [credits EXCEPT ![n] = @ + 1]
           /\ IF composes THEN composeMessage' = [composeMessage EXCEPT ![n] = "sent"]
                          ELSE UNCHANGED composeMessage
           /\ UNCHANGED <<registry, channel, inboundNonce, pending, verdicts>>
           /\ UNCHANGED <<executors, withdrawn, alerts, calls>>
BY ClearIsGuarded, Zenon DEF Execute, LzReceive, SendCompose, MayExecute

(* A channel exists only for a registered OApp.                            *)
RegistryFirst == channel => registry # ABSENT

LEMMA RegistryFirstStep == ASSUME RegistryFirst, [Next]_vars PROVE RegistryFirst'
BY DEF RegistryFirst, Next, vars, RegisterOApp, SetDelegate, InitNonce, InitVerify, Verify,
       Resolve, Skip, Nilify, Burn, Clear

(* Nothing but the receiver's own program keeps an executor from delivering*)
(* a verified message whose turn has come: no alert, no account that a     *)
(* composed call left behind, no other executor.  These are the guards of  *)
(* AlertIsNotTheEnd, for whoever is an executor at the time.               *)
THEOREM ExecutorsCanDeliver ==
  DeliverySpec =>
    [](\A k \in executors, n \in Nonce, composes \in BOOLEAN, value \in Value :
         Executable(n) /\ payloadHash[n] = Message[n] /\ LzReceiveCost(composes) <= value
         => MayExecute(k, n, composes, value))
<1>1. Init => ChannelFirst /\ RegistryFirst
  BY DEF Init, ChannelFirst, Open, RegistryFirst
<1>2. Spec => [](ChannelFirst /\ RegistryFirst)
  BY <1>1, ChannelFirstStep, RegistryFirstStep, PTL DEF Spec
<1>3. ASSUME DeliveryInv, ChannelFirst, RegistryFirst,
             NEW k \in executors, NEW n \in Nonce, NEW composes \in BOOLEAN, NEW value \in Value,
             Executable(n), payloadHash[n] = Message[n], LzReceiveCost(composes) <= value
      PROVE  MayExecute(k, n, composes, value)
  <2>1. Message[n] \in Payload
    BY MessageAssumption
  <2>2. Open(n)
    BY <1>3, <2>1, HashAssumption DEF Open
  <2>3. MayClear(OApp, n, Message[n])
    BY <1>3, <2>2 DEF MayClear, Authorized, Matches, ChannelFirst, RegistryFirst
  <2>4. fate[n] = << >>
    BY <1>3, <2>2, OpenHasNotEnded DEF DeliveryInv
  <2>5. composeMessage[n] = "absent"
    BY <1>3, <2>4 DEF DeliveryInv, Linked, DeliveryTypeOK
  <2> QED  BY <1>3, <2>3, <2>5 DEF MayExecute
<1>4. DeliveryInv /\ ChannelFirst /\ RegistryFirst =>
        \A k \in executors, n \in Nonce, composes \in BOOLEAN, value \in Value :
          Executable(n) /\ payloadHash[n] = Message[n] /\ LzReceiveCost(composes) <= value
          => MayExecute(k, n, composes, value)
  BY <1>3
<1> QED  BY <1>2, <1>4, DeliveryInvariant, DeliverySpecImplies, PTL

-----------------------------------------------------------------------------
(* Every step is a step of the courier, or none at all.                    *)
LEMMA CourierStep ==
  ASSUME DeliveryInv, DeliveryInv', [DeliveryNext]_deliveryVars
  PROVE  [Courier!Next]_<<Outcome, Call>>
<1> USE DEF DeliveryInv
<1>1. ASSUME \A n \in Nonce : fate'[n] # << >> <=> fate[n] # << >>,
             UNCHANGED <<credits, calls, composeMessage>>
      PROVE  UNCHANGED <<Outcome, Call>>
  BY <1>1 DEF Outcome, Call
<1>2. ASSUME NEW n \in Nonce, Ends(n), UNCHANGED <<credits, calls, composeMessage>>
      PROVE  Courier!End(n, "dropped") /\ UNCHANGED Call
  <2>1. credits[n] = 0
    BY <1>2 DEF Ends, Linked, DeliveryTypeOK
  <2>2. Outcome[n] = "waiting" /\ Outcome'[n] = "dropped"
    BY <1>2, <2>1 DEF Ends, Outcome
  <2>3. \A m \in Nonce \ {n} : Outcome'[m] = Outcome[m]
    BY <1>2 DEF Ends, Outcome
  <2>4. Outcome' = [Outcome EXCEPT ![n] = "dropped"]
    BY <2>2, <2>3 DEF Outcome
  <2>5. UNCHANGED Call
    BY <1>2 DEF Call
  <2> QED  BY <2>2, <2>4, <2>5 DEF Courier!End
<1>3. ASSUME ChannelStep PROVE [Courier!Next]_<<Outcome, Call>>
  <2>1. /\ NoneEnds \/ \E n \in Nonce : Ends(n)
        /\ UNCHANGED <<credits, calls, composeMessage>>
    BY <1>3, ChannelStepKeeps
  <2>2. CASE NoneEnds
    BY <1>1, <2>1, <2>2 DEF NoneEnds
  <2> QED  BY <1>2, <2>1, <2>2 DEF Courier!Next
<1>4. ASSUME NEW n \in Nonce, NEW composes \in BOOLEAN, LzReceive(n, composes)
      PROVE  Courier!Next
  <2>1. /\ Ends(n) /\ credits[n] = 0
        /\ credits' = [credits EXCEPT ![n] = 1]
        /\ composeMessage[n] = "absent" /\ calls[n] = 0
        /\ \/ composeMessage' = [composeMessage EXCEPT ![n] = "sent"]
           \/ UNCHANGED composeMessage
        /\ UNCHANGED calls
    BY <1>4, LzReceiveKeeps
  <2>2. Outcome[n] = "waiting" /\ Outcome'[n] = "credited"
    BY <2>1 DEF Ends, Outcome, DeliveryTypeOK
  <2>3. \A m \in Nonce \ {n} : Outcome'[m] = Outcome[m]
    BY <2>1 DEF Ends, Outcome, DeliveryTypeOK
  <2>4. Courier!End(n, "credited")
    <3>1. Outcome' = [Outcome EXCEPT ![n] = "credited"]
      BY <2>2, <2>3 DEF Outcome
    <3> QED  BY <2>2, <3>1 DEF Courier!End
  <2>5. CASE UNCHANGED composeMessage
    BY <2>1, <2>4, <2>5 DEF Courier!Next, Call
  <2>6. CASE composeMessage' = [composeMessage EXCEPT ![n] = "sent"]
    <3>1. Call[n] = "none" /\ Call'[n] = "owed"
      BY <2>1, <2>6 DEF Call, DeliveryTypeOK
    <3>2. \A m \in Nonce \ {n} : Call'[m] = Call[m]
      BY <2>1, <2>6 DEF Call, DeliveryTypeOK
    <3>3. Call' = [Call EXCEPT ![n] = "owed"]
      BY <3>1, <3>2 DEF Call
    <3> QED  BY <2>2, <2>4, <3>1, <3>3 DEF Courier!Next, Courier!Owe
  <2> QED  BY <2>1, <2>5, <2>6
<1>5. ASSUME NEW n \in Nonce, LzCompose(n) PROVE Courier!Next
  <2>1. calls[n] = 0 /\ composeMessage[n] = "sent"
    BY <1>5 DEF LzCompose, ClearCompose, Linked, DeliveryTypeOK
  <2>2. /\ calls' = [calls EXCEPT ![n] = 1]
        /\ composeMessage' = [composeMessage EXCEPT ![n] = "received"]
        /\ UNCHANGED <<fate, credits>>
    BY <1>5, <2>1 DEF LzCompose, ClearCompose, DeliveryTypeOK, vars
  <2>3. Call[n] = "owed" /\ Call'[n] = "made"
    BY <2>1, <2>2 DEF Call, DeliveryTypeOK
  <2>4. \A m \in Nonce \ {n} : Call'[m] = Call[m]
    BY <2>2 DEF Call, DeliveryTypeOK
  <2>5. Call' = [Call EXCEPT ![n] = "made"]
    BY <2>3, <2>4 DEF Call
  <2>6. UNCHANGED Outcome
    BY <2>2 DEF Outcome
  <2> QED  BY <2>3, <2>5, <2>6 DEF Courier!Next, Courier!Make
<1>6. ASSUME NEW n \in Nonce, ComposeLater(n) PROVE Courier!Next
  <2>1. /\ credits[n] = 1 /\ composeMessage[n] = "absent" /\ calls[n] = 0
        /\ composeMessage' = [composeMessage EXCEPT ![n] = "sent"]
        /\ UNCHANGED <<fate, credits, calls>>
    BY <1>6 DEF ComposeLater, SendCompose, DeliveryTypeOK, Linked, vars, history
  <2>2. Call[n] = "none" /\ Call'[n] = "owed"
    BY <2>1 DEF Call, DeliveryTypeOK
  <2>3. \A m \in Nonce \ {n} : Call'[m] = Call[m]
    BY <2>1 DEF Call, DeliveryTypeOK
  <2>4. Call' = [Call EXCEPT ![n] = "owed"]
    BY <2>2, <2>3 DEF Call
  <2>5. UNCHANGED Outcome /\ Outcome'[n] = "credited"
    BY <2>1 DEF Outcome
  <2> QED  BY <2>2, <2>4, <2>5 DEF Courier!Next, Courier!Owe
<1>7. ASSUME NEW amount, WithdrawRent(amount) PROVE UNCHANGED <<Outcome, Call>>
  BY <1>1, <1>7 DEF WithdrawRent, vars, history
<1>8. ASSUME NEW keys, SetExecutors(keys) PROVE UNCHANGED <<Outcome, Call>>
  BY <1>1, <1>8 DEF SetExecutors, vars, history
<1>9. ASSUME NEW k, NEW n, LzReceiveAlert(k, n) \/ LzComposeAlert(k, n)
      PROVE  UNCHANGED <<Outcome, Call>>
  BY <1>1, <1>9 DEF LzReceiveAlert, LzComposeAlert, Alert, vars
<1>10. ASSUME ExecutorStep PROVE [Courier!Next]_<<Outcome, Call>>
  BY <1>4, <1>5, <1>9, <1>10 DEF ExecutorStep, Execute, Compose
<1>11. CASE UNCHANGED deliveryVars
  BY <1>1, <1>11 DEF deliveryVars, vars, history
<1> QED
  BY <1>3, <1>4, <1>5, <1>6, <1>7, <1>8, <1>10, <1>11 DEF DeliveryNext

(* Delivery implements the courier: no order of deliveries by executors and*)
(* strangers, failures, and decisions of the delegate credits a message or *)
(* makes its call twice.                                                   *)
THEOREM DeliveryImplementsCourier == DeliverySpec => ImplementsCourier
<1>1. DeliveryInit => Courier!Init
  BY DEF DeliveryInit, Init, Courier!Init, Outcome, Call
<1>2. DeliveryInv /\ DeliveryInv' /\ [DeliveryNext]_deliveryVars
        => [Courier!Next]_<<Outcome, Call>>
  BY CourierStep
<1> QED
  BY <1>1, <1>2, DeliveryInvariant, PTL DEF DeliverySpec, ImplementsCourier, Courier!Spec
=============================================================================
