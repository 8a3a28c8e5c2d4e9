---------------------------- MODULE ExecutionView ----------------------------
(***************************************************************************)
(* The executor's `executable` view of a messaging channel: what it tells  *)
(* an executor to do about a nonce, from the Nonce and PayloadHash accounts*)
(* alone, against what the channel then lets the executor do.              *)
(***************************************************************************)
EXTENDS MessagingChannel

(* inbound_payload_hash: an account that does not exist reads as EMPTY.    *)
InboundPayloadHash(n) == IF Open(n) THEN payloadHash[n] ELSE EMPTY

(* A mistake: a nonce that is not inbound yet counts as executed, too.     *)
EmptyIsExecuted(n) ==
  CASE InboundPayloadHash(n) = EMPTY -> "Executed"
    [] n <= inboundNonce /\ InboundPayloadHash(n) # NIL -> "Executable"
    [] InboundPayloadHash(n) \notin {EMPTY, NIL} -> "VerifiedButNotExecutable"
    [] OTHER -> "NotExecutable"

(* Another: the state of a nilified nonce.                                 *)
NilIsExecutable(n) ==
  CASE n <= inboundNonce -> IF InboundPayloadHash(n) = EMPTY THEN "Executed" ELSE "Executable"
    [] n > inboundNonce /\ InboundPayloadHash(n) \notin {EMPTY, NIL} -> "VerifiedButNotExecutable"
    [] OTHER -> "NotExecutable"

(* executable, in the order of its early returns.                          *)
ExecutionState(n) ==
  LET hash == InboundPayloadHash(n)
  IN  IF n <= inboundNonce /\ hash = EMPTY THEN "Executed"
      ELSE IF n <= inboundNonce /\ hash # NIL THEN "Executable"
      ELSE IF hash \notin {EMPTY, NIL} THEN "VerifiedButNotExecutable"
      ELSE "NotExecutable"

-----------------------------------------------------------------------------
(* "Executed" is the end: it is reported of a nonce that has ended, exactly*)
(* once, by a delivery, a skip or a burn, and of every such nonce ("executed*)
(* if payload hash is empty and nonce is less than or equals to            *)
(* inboundNonce"): an account that was only just initialised never looks   *)
(* like that.                                                              *)
ExecutedMeansEnded ==
  \A n \in Nonce : (ExecutionState(n) = "Executed") <=> (fate[n] # << >>)

(* The view tells the truth.  "Executed" is the end, and "Executable" that *)
(* the OApp can clear the nonce with the message that was verified, which  *)
(* it cannot with any other state of the view.                             *)
ExecutionViewIsTrue ==
  /\ ExecutedMeansEnded
  /\ registry # ABSENT =>
       \A n \in Nonce :
         (ExecutionState(n) = "Executable") <=> (\E p \in Payload : ENABLED Clear(OApp, n, p))

(* An executor that polls never has to go back: an executed nonce stays    *)
(* executed, and an executable one does not fall back to waiting for the   *)
(* inbound nonce, whoever re-verifies, nilifies or initialises.            *)
ViewNeverGoesBack ==
  [][\A n \in Nonce :
       /\ ExecutionState(n) = "Executed" => ExecutionState(n)' = "Executed"
       /\ ExecutionState(n) = "Executable" =>
            ExecutionState(n)' # "VerifiedButNotExecutable"]_vars
=============================================================================
