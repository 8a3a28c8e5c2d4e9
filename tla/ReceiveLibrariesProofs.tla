----------------------- MODULE ReceiveLibrariesProofs -----------------------
(***************************************************************************)
(* Proofs about ReceiveLibraries, for every set of OApps and libraries and *)
(* every bound on slots and grace periods.                                 *)
(***************************************************************************)
EXTENDS ReceiveLibraries, TLAPS

-----------------------------------------------------------------------------
(* What the instructions store is typed.                                   *)
LEMMA TimeoutTyped ==
  ASSUME slot \in 0..MaxSlot, NEW l \in Lib
  PROVE  /\ \A grace \in 0..MaxGrace : GraceTimeout(l, grace) \in Timeout
         /\ \A expiry \in Expiry : ExpiryTimeout(l, expiry) \in Timeout
<1>1. ASSUME NEW grace \in 0..MaxGrace PROVE GraceTimeout(l, grace) \in Timeout
  <2>1. grace > 0 => slot + grace \in Expiry \ {0}
    BY BoundsAssumption DEF Expiry
  <2> QED  BY <2>1 DEF GraceTimeout, Timeout
<1>2. ASSUME NEW expiry \in Expiry PROVE ExpiryTimeout(l, expiry) \in Timeout
  BY DEF ExpiryTimeout, Timeout, Expiry
<1> QED  BY <1>1, <1>2

(* A stored timeout names the library it was given.                        *)
LEMMA TimeoutNames ==
  ASSUME NEW l \in Lib, NEW k
  PROVE  /\ GraceTimeout(l, k) # NONE => GraceTimeout(l, k).lib = l
         /\ ExpiryTimeout(l, k) # NONE => ExpiryTimeout(l, k).lib = l
BY DEF GraceTimeout, ExpiryTimeout

LEMMA TypingStep == ASSUME TypeOK, [Next]_vars PROVE TypeOK'
<1> USE DEF TypeOK
<1>1. ASSUME AdvanceSlot PROVE TypeOK'
  BY <1>1, BoundsAssumption DEF AdvanceSlot
<1>2. ASSUME NEW l \in Lib, NEW type \in Type, RegisterLibrary(l, type) PROVE TypeOK'
  BY <1>2 DEF RegisterLibrary
<1>3. ASSUME NEW l \in Lib, InitDefaultReceiveLibrary(l) PROVE TypeOK'
  BY <1>3 DEF InitDefaultReceiveLibrary, Timeout
<1>4. ASSUME NEW l \in Lib, NEW grace \in 0..MaxGrace, SetDefaultReceiveLibrary(l, grace)
      PROVE  TypeOK'
  BY <1>4, TimeoutTyped DEF SetDefaultReceiveLibrary
<1>5. ASSUME NEW l \in Lib, NEW expiry \in Expiry, SetDefaultReceiveLibraryTimeout(l, expiry)
      PROVE  TypeOK'
  BY <1>5, TimeoutTyped DEF SetDefaultReceiveLibraryTimeout
<1>6. ASSUME NEW o \in OApp, InitReceiveLibrary(o) PROVE TypeOK'
  BY <1>6 DEF InitReceiveLibrary, Timeout
<1>7. ASSUME NEW o \in OApp, NEW l \in Lib \cup {DEFAULT}, NEW grace \in 0..MaxGrace,
             SetReceiveLibrary(o, l, grace)
      PROVE  TypeOK'
  <2>1. GraceTimeout(lib[o], grace) \in Timeout
    <3>1. CASE grace > 0
      <4>1. lib[o] \in Lib
        BY <1>7, <3>1 DEF SetReceiveLibrary, GraceAllowed
      <4> QED  BY <4>1, TimeoutTyped
    <3>2. CASE ~(grace > 0)
      BY <3>2 DEF GraceTimeout, Timeout
    <3> QED  BY <3>1, <3>2
  <2> QED  BY <1>7, <2>1 DEF SetReceiveLibrary
<1>8. ASSUME NEW o \in OApp, NEW l \in Lib, NEW expiry \in Expiry,
             SetReceiveLibraryTimeout(o, l, expiry)
      PROVE  TypeOK'
  BY <1>8, TimeoutTyped DEF SetReceiveLibraryTimeout
<1>9. CASE UNCHANGED vars
  BY <1>9 DEF vars
<1> QED  BY <1>1, <1>2, <1>3, <1>4, <1>5, <1>6, <1>7, <1>8, <1>9 DEF Next, AdminStep, OAppStep

(* A registered library stays what it is.                                  *)
LEMMA RegistrationIsFinal ==
  ASSUME TypeOK, [Next]_vars, NEW l \in Lib, CanReceive(l)
  PROVE  CanReceive(l)'
<1>1. CASE UNCHANGED libType
  BY <1>1 DEF CanReceive
<1>2. ASSUME NEW m \in Lib, NEW type \in Type, RegisterLibrary(m, type) PROVE CanReceive(l)'
  BY <1>2 DEF RegisterLibrary, CanReceive, TypeOK
<1> QED
  BY <1>1, <1>2 DEF Next, AdvanceSlot, AdminStep, OAppStep, InitDefaultReceiveLibrary,
     SetDefaultReceiveLibrary, SetDefaultReceiveLibraryTimeout, InitReceiveLibrary,
     SetReceiveLibrary, SetReceiveLibraryTimeout, vars

LEMMA StoredStep == ASSUME IInv, [Next]_vars PROVE StoredLibsReceive'
<1> USE DEF IInv, TypeOK
<1>1. \A l \in Lib : CanReceive(l) => CanReceive(l)'
  BY RegistrationIsFinal
<1>2. TypeOK'
  BY TypingStep
<1>3. /\ defaultTimeout # NONE => defaultTimeout.lib \in Lib
      /\ \A o \in OApp : timeout[o] # NONE => timeout[o].lib \in Lib
  BY DEF Timeout
<1>4. ASSUME UNCHANGED <<defaultLib, defaultTimeout, lib, timeout>> PROVE StoredLibsReceive'
  BY <1>1, <1>3, <1>4 DEF StoredLibsReceive, LibReceives
<1>5. ASSUME NEW l \in Lib, NEW t, CanReceive(l), defaultLib' \in {l, defaultLib},
             defaultTimeout' = t, t # NONE => t.lib \in {l, defaultLib} \cap Lib,
             UNCHANGED <<lib, timeout>>
      PROVE  StoredLibsReceive'
  BY <1>1, <1>3, <1>5 DEF StoredLibsReceive, LibReceives
<1>6. ASSUME NEW o \in OApp, NEW l \in Lib \cup {DEFAULT}, NEW t, l \in Lib => CanReceive(l),
             lib' = [lib EXCEPT ![o] = l] \/ lib' = lib,
             timeout' = [timeout EXCEPT ![o] = t], t # NONE => t.lib \in {l, lib[o]} \cap Lib,
             UNCHANGED <<defaultLib, defaultTimeout>>
      PROVE  StoredLibsReceive'
  <2>1. \A u \in OApp : LibReceives(lib[u], timeout[u])'
    <3> SUFFICES ASSUME NEW u \in OApp PROVE LibReceives(lib[u], timeout[u])'
      OBVIOUS
    <3>1. CASE u = o
      <4>1. timeout'[u] = t /\ (lib'[u] = l \/ lib'[u] = lib[o])
        BY <1>6, <3>1
      <4>2. LibReceives(lib[o], timeout[o])
        BY DEF StoredLibsReceive
      <4> QED  BY <1>1, <1>6, <4>1, <4>2 DEF LibReceives
    <3>2. CASE u # o
      <4>1. timeout'[u] = timeout[u] /\ lib'[u] = lib[u]
        BY <1>6, <3>2
      <4> QED  BY <1>1, <1>3, <4>1 DEF StoredLibsReceive, LibReceives
    <3> QED  BY <3>1, <3>2
  <2> QED  BY <1>1, <1>3, <1>6, <2>1 DEF StoredLibsReceive, LibReceives
<1>7. ASSUME NEW l \in Lib, NEW type \in Type, RegisterLibrary(l, type) \/ AdvanceSlot
      PROVE  StoredLibsReceive'
  BY <1>4, <1>7 DEF RegisterLibrary, AdvanceSlot
<1>8. ASSUME NEW l \in Lib, InitDefaultReceiveLibrary(l) PROVE StoredLibsReceive'
  BY <1>5, <1>8 DEF InitDefaultReceiveLibrary
<1>9. ASSUME NEW l \in Lib, NEW grace \in 0..MaxGrace, SetDefaultReceiveLibrary(l, grace)
      PROVE  StoredLibsReceive'
  <2>1. defaultLib \in Lib
    BY <1>9 DEF SetDefaultReceiveLibrary
  <2> QED  BY <1>5, <1>9, <2>1, TimeoutNames DEF SetDefaultReceiveLibrary
<1>10. ASSUME NEW l \in Lib, NEW expiry \in Expiry, SetDefaultReceiveLibraryTimeout(l, expiry)
       PROVE  StoredLibsReceive'
  BY <1>5, <1>10, TimeoutNames DEF SetDefaultReceiveLibraryTimeout
<1>11. ASSUME NEW o \in OApp, InitReceiveLibrary(o) PROVE StoredLibsReceive'
  BY <1>6, <1>11, LibAssumption DEF InitReceiveLibrary
<1>12. ASSUME NEW o \in OApp, NEW l \in Lib \cup {DEFAULT}, NEW grace \in 0..MaxGrace,
              SetReceiveLibrary(o, l, grace)
       PROVE  StoredLibsReceive'
  <2>1. GraceTimeout(lib[o], grace) # NONE =>
          lib[o] \in Lib /\ GraceTimeout(lib[o], grace).lib = lib[o]
    BY <1>12 DEF SetReceiveLibrary, GraceAllowed, GraceTimeout
  <2> QED  BY <1>6, <1>12, <2>1, LibAssumption DEF SetReceiveLibrary
<1>13. ASSUME NEW o \in OApp, NEW l \in Lib, NEW expiry \in Expiry,
              SetReceiveLibraryTimeout(o, l, expiry)
       PROVE  StoredLibsReceive'
  BY <1>6, <1>13, TimeoutNames DEF SetReceiveLibraryTimeout
<1>14. CASE UNCHANGED vars
  BY <1>4, <1>14 DEF vars
<1>15. ASSUME AdvanceSlot PROVE StoredLibsReceive'
  BY <1>4, <1>15 DEF AdvanceSlot
<1> QED
  BY <1>7, <1>8, <1>9, <1>10, <1>11, <1>12, <1>13, <1>14, <1>15 DEF Next, AdminStep, OAppStep

(* A timeout is dropped, or refused, when the OApp moves to the default.   *)
LEMMA NoTimeoutStep ==
  ASSUME TypeOK, DefaultHasNoTimeout, [Next]_vars PROVE DefaultHasNoTimeout'
<1> USE DEF TypeOK, DefaultHasNoTimeout
<1>1. CASE UNCHANGED <<lib, timeout>>
  BY <1>1
<1>2. ASSUME NEW o \in OApp, InitReceiveLibrary(o) PROVE DefaultHasNoTimeout'
  BY <1>2 DEF InitReceiveLibrary
<1>3. ASSUME NEW o \in OApp, NEW l \in Lib \cup {DEFAULT}, NEW grace \in 0..MaxGrace,
             SetReceiveLibrary(o, l, grace)
      PROVE  DefaultHasNoTimeout'
  <2>1. l = DEFAULT => GraceTimeout(lib[o], grace) = NONE
    BY <1>3 DEF SetReceiveLibrary, GraceAllowed, GraceTimeout
  <2>2. l # ABSENT
    BY LibAssumption, <1>3 DEF SetReceiveLibrary, CanReceive
  <2> QED  BY <1>3, <2>1, <2>2, LibAssumption DEF SetReceiveLibrary
<1>4. ASSUME NEW o \in OApp, NEW l \in Lib, NEW expiry \in Expiry,
             SetReceiveLibraryTimeout(o, l, expiry)
      PROVE  DefaultHasNoTimeout'
  BY <1>4 DEF SetReceiveLibraryTimeout
<1> QED
  BY <1>1, <1>2, <1>3, <1>4 DEF Next, AdvanceSlot, AdminStep, OAppStep, RegisterLibrary,
     InitDefaultReceiveLibrary, SetDefaultReceiveLibrary, SetDefaultReceiveLibraryTimeout, vars

-----------------------------------------------------------------------------
(* The invariant holds in every reachable state.                           *)
THEOREM InductiveInvariant == Spec => []IInv
<1>1. Init => IInv
  <2>1. ASSUME Init PROVE TypeOK
    BY <2>1, BoundsAssumption DEF Init, TypeOK, Timeout
  <2>2. ASSUME Init PROVE StoredLibsReceive
    BY <2>2, LibAssumption DEF Init, StoredLibsReceive, LibReceives
  <2> QED  BY <2>1, <2>2 DEF IInv
<1>2. IInv /\ [Next]_vars => IInv'
  BY TypingStep, StoredStep DEF IInv
<1> QED  BY <1>1, <1>2, PTL DEF Spec

(* Every account holds a value of its type; in particular no timeout with  *)
(* expiry 0 is stored and no grace period names DEFAULT_MESSAGE_LIB.       *)
THEOREM TypeCorrect == Spec => []TypeOK
<1>1. IInv => TypeOK
  BY DEF IInv
<1> QED  BY <1>1, InductiveInvariant, PTL

(* No library verifies for an OApp that is not a registered receive        *)
(* library, whichever configuration or grace period lets it in.            *)
THEOREM OnlyReceiveLibrariesVerify == Spec => []ValidLibsReceive
<1>1. IInv => ValidLibsReceive
  <2> SUFFICES ASSUME IInv, NEW o \in OApp, NEW l \in Lib, IsValidReceiveLibrary(o, l)
               PROVE  libType[l] \in {"Receive", "SendAndReceive"}
    BY DEF ValidLibsReceive, ValidLibs
  <2>1. CanReceive(l)
    BY DEF IInv, StoredLibsReceive, LibReceives, IsValidReceiveLibrary, Expected, InGrace, TimeoutFor
  <2> QED  BY <2>1 DEF CanReceive, IInv, TypeOK, Type
<1> QED  BY <1>1, InductiveInvariant, PTL

(* An OApp on the default library keeps no timeout of its own.             *)
THEOREM NoLeftoverTimeout == Spec => []DefaultHasNoTimeout
<1>1. Init => DefaultHasNoTimeout
  BY DEF Init, DefaultHasNoTimeout
<1>2. TypeOK /\ DefaultHasNoTimeout /\ [Next]_vars => DefaultHasNoTimeout'
  BY NoTimeoutStep
<1> QED  BY <1>1, <1>2, TypeCorrect, PTL DEF Spec

(* Nobody but the OApp itself changes which libraries verify for an OApp   *)
(* with a library of its own.                                              *)
THEOREM PinnedOAppsKeepLibs == Spec => PinnedOAppKeepsLibs
<1>1. ASSUME TypeOK, [Next]_vars, NEW o \in OApp,
             lib[o] \notin {DEFAULT, ABSENT}, defaultLib # ABSENT, slot' = slot, ~OAppStep(o)
      PROVE  ValidLibs(o)' = ValidLibs(o)
  <2>1. defaultLib' # ABSENT
    BY <1>1, LibAssumption DEF Next, AdvanceSlot, AdminStep, OAppStep, RegisterLibrary,
       InitDefaultReceiveLibrary, SetDefaultReceiveLibrary, SetDefaultReceiveLibraryTimeout,
       InitReceiveLibrary, SetReceiveLibrary, SetReceiveLibraryTimeout, vars
  <2>2. lib'[o] = lib[o] /\ timeout'[o] = timeout[o]
    <3>1. CASE UNCHANGED <<lib, timeout>>
      BY <3>1
    <3>2. ASSUME NEW u \in OApp \ {o}, OAppStep(u) PROVE lib'[o] = lib[o] /\ timeout'[o] = timeout[o]
      BY <1>1, <3>2 DEF OAppStep, InitReceiveLibrary, SetReceiveLibrary,
         SetReceiveLibraryTimeout, TypeOK
    <3> QED
      BY <1>1, <3>1, <3>2 DEF Next, AdvanceSlot, AdminStep, RegisterLibrary,
         InitDefaultReceiveLibrary, SetDefaultReceiveLibrary, SetDefaultReceiveLibraryTimeout, vars
  <2> QED
    BY <1>1, <2>1, <2>2 DEF ValidLibs, IsValidReceiveLibrary, Expected, InGrace, TimeoutFor
<1>2. TypeOK /\ [Next]_vars => \A o \in OApp : PinnedKeepsLibs(o)
  BY <1>1 DEF PinnedKeepsLibs
<1> QED  BY <1>2, TypeCorrect, PTL DEF Spec, PinnedOAppKeepsLibs

(* The passing of time takes permissions away and grants none.             *)
THEOREM TimeGrantsNothing == Spec => TimeOnlyExpires
<1>1. ASSUME TypeOK, [Next]_vars, slot' > slot, NEW o \in OApp
      PROVE  OnlyExpires(o)
  <2>1. AdvanceSlot
    BY <1>1 DEF TypeOK, Next, AdminStep, OAppStep, RegisterLibrary,
       InitDefaultReceiveLibrary, SetDefaultReceiveLibrary, SetDefaultReceiveLibraryTimeout,
       InitReceiveLibrary, SetReceiveLibrary, SetReceiveLibraryTimeout, vars
  <2>2. \A expiry \in Nat : expiry > slot' => expiry > slot
    BY <1>1, <2>1, BoundsAssumption DEF TypeOK, AdvanceSlot
  <2>3. TimeoutFor(o) # NONE => TimeoutFor(o).expiry \in Nat
    BY <1>1, BoundsAssumption DEF TypeOK, Timeout, Expiry, TimeoutFor
  <2>4. UNCHANGED <<defaultLib, defaultTimeout, lib, timeout>>
    BY <2>1 DEF AdvanceSlot
  <2> QED
    BY <2>2, <2>3, <2>4 DEF OnlyExpires, ValidLibs, IsValidReceiveLibrary, Expected, InGrace,
       TimeoutFor
<1>2. TypeOK /\ [Next]_vars => (slot' > slot => \A o \in OApp : OnlyExpires(o))
  BY <1>1
<1> QED  BY <1>2, TypeCorrect, PTL DEF Spec, TimeOnlyExpires
=============================================================================
