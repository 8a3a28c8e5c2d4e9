-------------------------- MODULE ReceiveLibraries --------------------------
(***************************************************************************)
(* Which library may verify messages for an OApp: the endpoint's registry  *)
(* of message libraries, the default receive library of one remote eid,    *)
(* the receive library of every OApp for that eid, and the grace periods   *)
(* during which a library that was replaced may still verify.              *)
(*                                                                         *)
(* The instructions of the endpoint's admin are signed by the admin, those *)
(* on an OApp's configuration by the OApp or its delegate; the signers are *)
(* modelled in MessagingChannel and left out here.  Configurations of      *)
(* different eids are different accounts and never meet.                   *)
(***************************************************************************)
EXTENDS Integers

CONSTANTS
  OApp,          \* the receivers
  Lib,           \* the message libraries the admin may register
  MaxSlot,       \* bound: slots 0..MaxSlot
  MaxGrace,      \* bound: grace periods 0..MaxGrace
  DEFAULT,       \* DEFAULT_MESSAGE_LIB
  ABSENT,        \* the account does not exist
  NONE           \* Option::None

ASSUME BoundsAssumption == MaxSlot \in Nat /\ MaxGrace \in Nat
ASSUME LibAssumption ==
  /\ DEFAULT \notin Lib /\ ABSENT \notin Lib /\ DEFAULT # ABSENT
  /\ NONE \notin [lib : Lib, expiry : Nat]

VARIABLES
  slot,          \* Clock::get()?.slot
  libType,       \* MessageLibInfo.message_lib_type of every library
  defaultLib,    \* default ReceiveLibraryConfig: message_lib
  defaultTimeout,\*                               timeout
  lib,           \* ReceiveLibraryConfig of every OApp: message_lib
  timeout        \*                                     timeout

vars == <<slot, libType, defaultLib, defaultTimeout, lib, timeout>>

Type == {"Send", "Receive", "SendAndReceive"}
Expiry == 0..(MaxSlot + MaxGrace)
Timeout == [lib : Lib, expiry : Expiry \ {0}] \cup {NONE}

TypeOK ==
  /\ slot \in 0..MaxSlot
  /\ libType \in [Lib -> Type \cup {ABSENT}]
  /\ defaultLib \in Lib \cup {ABSENT}
  /\ defaultTimeout \in Timeout
  /\ lib \in [OApp -> Lib \cup {DEFAULT, ABSENT}]
  /\ timeout \in [OApp -> Timeout]

Init ==
  /\ slot = 0
  /\ libType = [l \in Lib |-> ABSENT]
  /\ defaultLib = ABSENT
  /\ defaultTimeout = NONE
  /\ lib = [o \in OApp |-> ABSENT]
  /\ timeout = [o \in OApp |-> NONE]

-----------------------------------------------------------------------------
AdvanceSlot ==
  /\ slot < MaxSlot
  /\ slot' = slot + 1
  /\ UNCHANGED <<libType, defaultLib, defaultTimeout, lib, timeout>>

(* register_library: once per library.                                     *)
RegisterLibrary(l, type) ==
  /\ libType[l] = ABSENT
  /\ libType' = [libType EXCEPT ![l] = type]
  /\ UNCHANGED <<slot, defaultLib, defaultTimeout, lib, timeout>>

(* A mistake: any registered library is taken for a receive library.       *)
Registered(l) == libType[l] # ABSENT

(* The constraint on message_lib_info, which is absent when the library is *)
(* not registered.                                                         *)
CanReceive(l) == libType[l] \notin {ABSENT, "Send"}

(* A mistake: a grace period of 0 is stored, too.                          *)
GraceAlways(l, grace) == [lib |-> l, expiry |-> slot + grace]

(* The timeout that replaces library `l`, and the one set explicitly.      *)
GraceTimeout(l, grace) ==
  IF grace > 0 THEN [lib |-> l, expiry |-> slot + grace] ELSE NONE
ExpiryTimeout(l, expiry) ==
  IF expiry > 0 THEN [lib |-> l, expiry |-> expiry] ELSE NONE
ValidExpiry(expiry) == expiry > 0 => expiry > slot

-----------------------------------------------------------------------------
(***************************************************************************)
(* The admin's defaults.                                                   *)
(***************************************************************************)
InitDefaultReceiveLibrary(l) ==
  /\ defaultLib = ABSENT
  /\ CanReceive(l)
  /\ defaultLib' = l
  /\ defaultTimeout' = NONE
  /\ UNCHANGED <<slot, libType, lib, timeout>>

SetDefaultReceiveLibrary(l, grace) ==
  /\ defaultLib # ABSENT
  /\ defaultLib # l
  /\ CanReceive(l)
  /\ defaultLib' = l
  /\ defaultTimeout' = GraceTimeout(defaultLib, grace)
  /\ UNCHANGED <<slot, libType, lib, timeout>>

SetDefaultReceiveLibraryTimeout(l, expiry) ==
  /\ defaultLib # ABSENT
  /\ CanReceive(l)
  /\ ValidExpiry(expiry)
  /\ defaultTimeout' = ExpiryTimeout(l, expiry)
  /\ UNCHANGED <<slot, libType, defaultLib, lib, timeout>>

-----------------------------------------------------------------------------
(***************************************************************************)
(* An OApp's own configuration.                                            *)
(***************************************************************************)
InitReceiveLibrary(o) ==
  /\ lib[o] = ABSENT
  /\ lib' = [lib EXCEPT ![o] = DEFAULT]
  /\ timeout' = [timeout EXCEPT ![o] = NONE]
  /\ UNCHANGED <<slot, libType, defaultLib, defaultTimeout>>

(* A mistake: a grace period is granted when the OApp falls back to the    *)
(* default library, too.                                                   *)
OldIsCustom(o, l, grace) == grace > 0 => lib[o] # DEFAULT

(* A grace period only between two libraries of the OApp's own.            *)
GraceAllowed(o, l, grace) == grace > 0 => lib[o] # DEFAULT /\ l # DEFAULT

SetReceiveLibrary(o, l, grace) ==
  /\ lib[o] # ABSENT
  /\ lib[o] # l
  /\ l # DEFAULT => CanReceive(l)
  /\ GraceAllowed(o, l, grace)
  /\ lib' = [lib EXCEPT ![o] = l]
  /\ timeout' = [timeout EXCEPT ![o] = GraceTimeout(lib[o], grace)]
  /\ UNCHANGED <<slot, libType, defaultLib, defaultTimeout>>

SetReceiveLibraryTimeout(o, l, expiry) ==
  /\ lib[o] \notin {ABSENT, DEFAULT}
  /\ CanReceive(l)
  /\ ValidExpiry(expiry)
  /\ timeout' = [timeout EXCEPT ![o] = ExpiryTimeout(l, expiry)]
  /\ UNCHANGED <<slot, libType, defaultLib, defaultTimeout, lib>>

-----------------------------------------------------------------------------
(***************************************************************************)
(* is_valid_receive_library, the guard of endpoint verify; both accounts   *)
(* must exist.                                                             *)
(***************************************************************************)
Expected(o) == IF lib[o] = DEFAULT THEN defaultLib ELSE lib[o]

(* A mistake: the default timeout is consulted for every OApp.             *)
DefaultTimeoutFor(o) == defaultTimeout

TimeoutFor(o) == IF lib[o] = DEFAULT THEN defaultTimeout ELSE timeout[o]

(* A mistake: a grace period starts where it should end.                   *)
InGraceFrom(o, l) ==
  /\ TimeoutFor(o) # NONE
  /\ TimeoutFor(o).lib = l
  /\ TimeoutFor(o).expiry <= slot

InGrace(o, l) ==
  /\ TimeoutFor(o) # NONE
  /\ TimeoutFor(o).lib = l
  /\ TimeoutFor(o).expiry > slot

IsValidReceiveLibrary(o, l) ==
  /\ lib[o] # ABSENT /\ defaultLib # ABSENT
  /\ l = Expected(o) \/ InGrace(o, l)

ValidLibs(o) == { l \in Lib : IsValidReceiveLibrary(o, l) }

-----------------------------------------------------------------------------
AdminStep ==
  \/ \E l \in Lib :
       \/ \E type \in Type : RegisterLibrary(l, type)
       \/ InitDefaultReceiveLibrary(l)
       \/ \E grace \in 0..MaxGrace : SetDefaultReceiveLibrary(l, grace)
       \/ \E expiry \in Expiry : SetDefaultReceiveLibraryTimeout(l, expiry)

OAppStep(o) ==
  \/ InitReceiveLibrary(o)
  \/ \E l \in Lib \cup {DEFAULT}, grace \in 0..MaxGrace : SetReceiveLibrary(o, l, grace)
  \/ \E l \in Lib, expiry \in Expiry : SetReceiveLibraryTimeout(o, l, expiry)

Next == AdvanceSlot \/ AdminStep \/ \E o \in OApp : OAppStep(o)
Spec == Init /\ [][Next]_vars

-----------------------------------------------------------------------------
(* Every library that may verify for an OApp, through its own or the       *)
(* default configuration or through a grace period of either, is           *)
(* registered and not a send library.                                      *)
ValidLibsReceive == \A o \in OApp : \A l \in ValidLibs(o) : libType[l] \in {"Receive", "SendAndReceive"}

(* The inductive invariant behind it: registered receive libraries are the *)
(* only ones stored, in a configuration or a timeout.                      *)
LibReceives(l, t) == (l \in Lib => CanReceive(l)) /\ (t # NONE => CanReceive(t.lib))
StoredLibsReceive ==
  /\ LibReceives(defaultLib, defaultTimeout)
  /\ \A o \in OApp : LibReceives(lib[o], timeout[o])
IInv == TypeOK /\ StoredLibsReceive

(* An OApp on the default library has no timeout of its own left over from *)
(* an earlier library: "which would read the default timeout               *)
(* configurations" (set_receive_library.rs), and a later library of its    *)
(* own does not inherit one.                                               *)
DefaultHasNoTimeout == \A o \in OApp : lib[o] \in {DEFAULT, ABSENT} => timeout[o] = NONE

(* An OApp with a library of its own is out of the admin's reach: while it *)
(* does not act itself, no step of the admin or of another OApp changes    *)
(* which libraries may verify for it, once the eid has a default at all.   *)
PinnedKeepsLibs(o) ==
  /\ lib[o] \notin {DEFAULT, ABSENT} /\ defaultLib # ABSENT
  /\ slot' = slot /\ ~OAppStep(o)
  => ValidLibs(o)' = ValidLibs(o)
PinnedOAppKeepsLibs == [][\A o \in OApp : PinnedKeepsLibs(o)]_vars

(* Time only takes permissions away, and never the configured library's.   *)
OnlyExpires(o) ==
  /\ ValidLibs(o)' \subseteq ValidLibs(o)
  /\ Expected(o) \in ValidLibs(o) => Expected(o) \in ValidLibs(o)'
TimeOnlyExpires == [][slot' > slot => \A o \in OApp : OnlyExpires(o)]_vars
=============================================================================
